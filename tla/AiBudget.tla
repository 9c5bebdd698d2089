------------------------------- MODULE AiBudget -------------------------------
(***************************************************************************)
(* The budget of the AI assistant (agent.py): AgentService.chat makes up   *)
(* to two calls to the provider, each behind a reservation that            *)
(* _reserve_call makes under a lock from the usage row of the day and the  *)
(* counters of calls in flight.  The usage is recorded outside the lock,   *)
(* on the day it then is, before _release_call gives the reservation back. *)
(* Chats run on the thread pool; the owner changes the limits, midnight    *)
(* passes, statements fail and the panel restarts between any two steps.   *)
(***************************************************************************)
EXTENDS Integers, FiniteSets

CONSTANTS
    Chats,          \* POST /api/v1/ai/chat
    RequestLimits,  \* values of ai_requests_per_day
    TokenLimits,    \* values of ai_tokens_per_day
    MaxTokens,      \* values of ai_max_tokens
    Inputs,         \* prompt tokens the provider may count
    Outputs,        \* completion tokens it may report
    PerMinute,      \* ai_requests_per_minute
    LastDay,        \* bound on the days
    MaxFaults,      \* bound on database errors and restarts
    Nobody

ASSUME LimitsAssumption ==
    RequestLimits \cup TokenLimits \cup MaxTokens \cup Inputs \cup Outputs \subseteq Nat
ASSUME DaysAssumption == LastDay \in Nat \ {0} /\ PerMinute \in Nat /\ MaxFaults \in Nat
ASSUME NobodyAssumption == Nobody \notin Chats

VARIABLES
    pc,         \* pc[c]: the step chat c is about to take
    round,      \* round[c]: its first or second call to the provider
    output,     \* output[c]: max_tokens as _call read it, the reservation
    lock,       \* who holds AgentService._lock
    look,       \* what the holder has read: limits and day
    recent,     \* length of _minute_calls
    inflight,   \* _inflight_calls
    reserved,   \* _reserved_output_tokens
    enabled,    \* panel_settings: ai_enabled
    limits,     \* panel_settings: requests and tokens a day
    maxTokens,  \* panel_settings: ai_max_tokens
    usage,      \* rows of ai_usage
    beyond,     \* history: the output of a day reported beyond the max_tokens asked for
    today,      \* the date
    peak,       \* history: the highest limits there were
    faults      \* faults so far

counters == <<recent, inflight, reserved>>
settings == <<enabled, limits, maxTokens>>
records == <<usage, beyond>>
vars == <<pc, round, output, lock, look, counters, settings, records, today, peak, faults>>

Days == 1..LastDay
Limits == [requests : RequestLimits, tokens : TokenLimits]
Empty == [requests |-> 0, input |-> 0, output |-> 0]
Steps == {"new", "rate", "params", "lock", "limits", "day", "row", "call", "release", "done"}

\* Between _reserve_call and _release_call; the provider's answer is recorded
\* before "release", so a call at "call" is not in the usage yet.
Reserving(c) == pc[c] \in {"call", "release"}

\* The tokens chats S reserve, one by one: there are as many of them as the sum
\* of what each chat reserves.
TokensOf(S) == UNION {{c} \X (1..output[c]) : c \in S}

Free == lock = Nobody
Goto(c, step) == pc' = [pc EXCEPT ![c] = step]
Larger(m, n) == IF m > n THEN m ELSE n

Init ==
    /\ pc = [c \in Chats |-> "new"]
    /\ round = [c \in Chats |-> 1]
    /\ output = [c \in Chats |-> 0]
    /\ lock = Nobody
    /\ limits \in Limits
    /\ look = [limits |-> limits, day |-> 1]
    /\ recent = 0 /\ inflight = 0 /\ reserved = 0
    /\ enabled \in BOOLEAN
    /\ maxTokens \in MaxTokens
    /\ usage = [d \in Days |-> Empty]
    /\ beyond = [d \in Days |-> 0]
    /\ today = 1
    /\ peak = limits
    /\ faults = 0

\* Switched off or not configured: nothing is asked of the provider.
Start(c) ==
    /\ pc[c] = "new"
    /\ Goto(c, IF enabled THEN "rate" ELSE "done")
    /\ UNCHANGED <<round, output, lock, look, counters, settings, records, today, peak, faults>>

EnforceRate(c) ==
    /\ pc[c] = "rate" /\ Free
    /\ IF recent < PerMinute
         THEN recent' = recent + 1 /\ Goto(c, "params")
         ELSE Goto(c, "done") /\ UNCHANGED recent
    /\ UNCHANGED <<round, output, lock, look, inflight, reserved, settings, records, today,
                   peak, faults>>

\* _call reads its settings before it reserves.
ReadParams(c) ==
    /\ pc[c] = "params"
    /\ output' = [output EXCEPT ![c] = maxTokens]
    /\ Goto(c, "lock")
    /\ UNCHANGED <<round, lock, look, counters, settings, records, today, peak, faults>>

-----------------------------------------------------------------------------
(* _reserve_call, with the lock held throughout *)

TakeLock(c) ==
    /\ pc[c] = "lock" /\ Free
    /\ lock' = c
    /\ Goto(c, "limits")
    /\ UNCHANGED <<round, output, look, counters, settings, records, today, peak, faults>>

ReadLimits(c) ==
    /\ pc[c] = "limits"
    /\ look' = [look EXCEPT !.limits = limits]
    /\ Goto(c, "day")
    /\ UNCHANGED <<round, output, lock, counters, settings, records, today, peak, faults>>

\* usage() takes the date first and the row then: midnight may come between.
ReadDay(c) ==
    /\ pc[c] = "day"
    /\ look' = [look EXCEPT !.day = today]
    /\ Goto(c, "row")
    /\ UNCHANGED <<round, output, lock, counters, settings, records, today, peak, faults>>

\* Variants: only what is recorded counts; the reserved tokens are forgotten.
RecordedOnly(row) == row.requests < look.limits.requests
RequestsLeft(row) == row.requests + inflight < look.limits.requests

RecordedTokensOnly(row, out) == row.input + row.output + out <= look.limits.tokens
TokensLeft(row, out) == row.input + row.output + reserved + out <= look.limits.tokens

Reserve(c) ==
    /\ pc[c] = "row"
    /\ lock' = Nobody
    /\ IF RequestsLeft(usage[look.day]) /\ TokensLeft(usage[look.day], output[c])
         THEN /\ inflight' = inflight + 1
              /\ reserved' = reserved + output[c]
              /\ Goto(c, "call")
         ELSE Goto(c, "done") /\ UNCHANGED <<inflight, reserved>>
    /\ UNCHANGED <<round, output, look, recent, settings, records, today, peak, faults>>

-----------------------------------------------------------------------------
\* The provider answers; what it says it counted is added to the row of the day
\* it is now, in one statement.  _call asks for at most max_tokens and records
\* whatever completion_tokens the answer states.
Answer(c) ==
    /\ pc[c] = "call"
    /\ \E in \in Inputs, out \in Outputs :
         /\ usage' = [usage EXCEPT
              ![today].requests = @ + 1, ![today].input = @ + in, ![today].output = @ + out]
         /\ beyond' = [beyond EXCEPT ![today] = @ + Larger(0, out - output[c])]
    /\ Goto(c, "release")
    /\ UNCHANGED <<round, output, lock, look, counters, settings, today, peak, faults>>

\* Variant: the reservation of a failed call is not given back.
LeaveReserved(c) == Goto(c, "done")
LeaveCall(c) == Goto(c, "release")

\* No connection, a status of 4xx or 5xx, an answer that makes no sense: the
\* call is not recorded, and the finally clause releases it.
ProviderFails(c) ==
    /\ pc[c] = "call"
    /\ LeaveCall(c)
    /\ round' = [round EXCEPT ![c] = 2]
    /\ UNCHANGED <<output, lock, look, counters, settings, records, today, peak, faults>>

\* The answer to the first call may ask for tools, and for a second call.
Release(c) ==
    /\ pc[c] = "release" /\ Free
    /\ inflight' = Larger(0, inflight - 1)
    /\ reserved' = Larger(0, reserved - output[c])
    /\ \/ round[c] = 1 /\ Goto(c, "params") /\ round' = [round EXCEPT ![c] = 2]
       \/ Goto(c, "done") /\ UNCHANGED round
    /\ UNCHANGED <<output, lock, look, recent, settings, records, today, peak, faults>>

-----------------------------------------------------------------------------
(* Around the chats *)

\* PATCH /api/v1/ai/settings: a statement for each setting.
UpdateSettings ==
    /\ \/ enabled' \in BOOLEAN /\ UNCHANGED <<limits, maxTokens, peak>>
       \/ maxTokens' \in MaxTokens /\ UNCHANGED <<enabled, limits, peak>>
       \/ /\ \/ \E n \in RequestLimits : limits' = [limits EXCEPT !.requests = n]
             \/ \E n \in TokenLimits : limits' = [limits EXCEPT !.tokens = n]
          /\ peak' = [requests |-> Larger(peak.requests, limits'.requests),
                      tokens |-> Larger(peak.tokens, limits'.tokens)]
          /\ UNCHANGED <<enabled, maxTokens>>
    /\ UNCHANGED <<pc, round, output, lock, look, counters, records, today, faults>>

\* The oldest entry of the minute window is a minute old.
MinutePasses ==
    /\ recent > 0 /\ recent' = recent - 1
    /\ UNCHANGED <<pc, round, output, lock, look, inflight, reserved, settings, records, today,
                   peak, faults>>

Midnight ==
    /\ today < LastDay /\ today' = today + 1
    /\ UNCHANGED <<pc, round, output, lock, look, counters, settings, records, peak, faults>>

\* A statement raises: with releases the lock, finally the reservation.
DatabaseError(c) ==
    /\ faults < MaxFaults /\ faults' = faults + 1
    /\ pc[c] \in {"params", "limits", "day", "row", "call"}
    /\ Goto(c, IF pc[c] = "call" THEN "release" ELSE "done")
    /\ round' = [round EXCEPT ![c] = 2]
    /\ lock' = IF lock = c THEN Nobody ELSE lock
    /\ UNCHANGED <<output, look, counters, settings, records, today, peak>>

\* The counters, and the calls they stand for, are gone.
PanelRestarts ==
    /\ faults < MaxFaults /\ faults' = faults + 1
    /\ pc' = [c \in Chats |-> IF pc[c] = "new" THEN "new" ELSE "done"]
    /\ lock' = Nobody
    /\ recent' = 0 /\ inflight' = 0 /\ reserved' = 0
    /\ UNCHANGED <<round, output, look, settings, records, today, peak>>

Chat(c) ==
    \/ Start(c) \/ EnforceRate(c) \/ ReadParams(c)
    \/ TakeLock(c) \/ ReadLimits(c) \/ ReadDay(c) \/ Reserve(c)
    \/ Answer(c) \/ ProviderFails(c) \/ Release(c)

Next ==
    \/ \E c \in Chats : Chat(c) \/ DatabaseError(c)
    \/ UpdateSettings \/ MinutePasses \/ Midnight \/ PanelRestarts

Spec == Init /\ [][Next]_vars

-----------------------------------------------------------------------------
TypeOK ==
    /\ pc \in [Chats -> Steps]
    /\ round \in [Chats -> 1..2]
    /\ output \in [Chats -> Nat]
    /\ lock \in Chats \cup {Nobody}
    /\ look \in [limits : Limits, day : Days]
    /\ recent \in Nat /\ inflight \in Nat /\ reserved \in Nat
    /\ enabled \in BOOLEAN
    /\ limits \in Limits
    /\ maxTokens \in MaxTokens
    /\ usage \in [Days -> [requests : Nat, input : Nat, output : Nat]]
    /\ beyond \in [Days -> Nat]
    /\ today \in Days
    /\ peak \in [requests : Nat, tokens : Nat]
    /\ faults \in 0..MaxFaults

\* SECURITY.md:113-114: the requests recorded for a day never exceed the highest
\* limit there was, however the chats interleave, also those that were let in
\* before midnight and answered after it.
RequestsWithinLimit == \A d \in Days : usage[d].requests <= peak.requests

\* SECURITY.md:113-114, for the tokens that are reserved beforehand: the output
\* of a day exceeds the highest limit there was by no more than what providers
\* reported beyond the max_tokens they were asked for.  Calls in flight together,
\* midnight, a lowered limit and a failed call add nothing to that.
OutputWithinLimit == \A d \in Days : usage[d].output <= peak.tokens + beyond[d]

\* The counters stand for the calls in flight exactly: a reservation is given
\* back once, whichever way its call ended, so the budget neither leaks away nor
\* is handed out twice.
InflightExact == inflight = Cardinality({c \in Chats : Reserving(c)})
ReservationsExact ==
    /\ InflightExact
    /\ reserved = Cardinality(TokensOf({c \in Chats : Reserving(c)}))
=============================================================================
