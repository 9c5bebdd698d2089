------------------------------- MODULE Accounts -------------------------------
(***************************************************************************)
(* Accounts (auth.py with the routes of main.py and cli.py): login and its *)
(* limiter, sessions, change and reset of the password, logout, and the    *)
(* one-time tickets of the console socket, for one account seen from one   *)
(* client.  Handlers run on the thread pool and every database statement   *)
(* is a transaction of its own, so calls interleave between any two        *)
(* statements; consuming a ticket runs on the event loop, where two        *)
(* sockets do not interleave, but the handlers on the pool do.  The reset  *)
(* is a command of the administrator in another process.                   *)
(*                                                                         *)
(* A session, a ticket or a password is named after the call that made it. *)
(***************************************************************************)
EXTENDS Naturals, FiniteSets

CONSTANTS
    Calls,          \* requests, sockets and commands of a behaviour
    First,          \* the session and the password there were before them
    Threads,        \* calls the pool runs at once
    Limit,          \* failed logins the limiter tolerates
    MaxFaults       \* bound on database errors and panel restarts

ASSUME FirstAssumption == First \notin Calls
ASSUME BoundsAssumption == Threads \in Nat /\ Limit \in Nat \ {0} /\ MaxFaults \in Nat

Tokens == Calls \cup {First}

VARIABLES
    pc,         \* pc[c]: the step call c is about to take
    req,        \* req[c]: what was sent
    answer,     \* answer[c]: what the caller is told
    password,   \* users.password_hash: the call that set it
    sess,       \* sess[t]: the row of session t
    tick,       \* tick[t]: the row of ticket t
    fails,      \* length of the client's login_attempts
    under,      \* history: the password token t was made under
    revoked,    \* history: sessions that were deleted
    spent,      \* history: tickets that were deleted or opened a console
    overlapped, \* history: calls that were in flight when the password changed
    faults      \* faults so far

store == <<password, sess, tick>>
history == <<under, revoked, spent, overlapped>>
vars == <<pc, req, answer, store, fails, history, faults>>

\* token: the cookie or ticket presented; word: the password typed.
Sent ==
    [kind : {"login"}, token : {First}, word : Tokens]
        \cup [kind : {"reset"}, token : {First}, word : {First}]
        \cup [kind : {"change"}, token : Tokens, word : Tokens]
        \cup [kind : {"visit", "logout", "ticket", "socket"}, token : Tokens, word : {First}]
NoRequest == [kind |-> "none"]

SessionRows == {"absent", "fresh", "idle", "expired"}
TicketRows == {"absent", "unused", "stale", "used"}
Steps == {"new", "rate", "hash", "refuse", "accept", "insert", "commit", "audit", "lookup",
          "resolve", "discard", "touch", "revoke", "issue", "read_ticket", "mark", "done"}
\* granted: the answer carries a session or a ticket.
Answers == {"none", "granted", "opened", "done", "refused", "rate_limited", "error"}

OnPool(c) == pc[c] \notin {"new", "done"} /\ req[c].kind \notin {"reset", "socket"}
Pool == {c \in Calls : OnPool(c)}

\* Between the check of the limiter and the count of the failure.
Attempting(c) == req[c].kind = "login" /\ pc[c] \in {"hash", "refuse"}

FirstStep(kind) ==
    CASE kind = "login" -> "rate"
      [] kind = "reset" -> "lookup"
      [] kind = "socket" -> "read_ticket"
      [] OTHER -> "resolve"

Goto(c, step) == pc' = [pc EXCEPT ![c] = step] /\ UNCHANGED answer
Finish(c, text) ==
    /\ pc' = [pc EXCEPT ![c] = "done"]
    /\ answer' = [answer EXCEPT ![c] = text]

At(c, step) == pc[c] = step /\ UNCHANGED <<req, faults>>

Init ==
    /\ pc = [c \in Calls |-> "new"]
    /\ req = [c \in Calls |-> NoRequest]
    /\ answer = [c \in Calls |-> "none"]
    /\ password = First
    /\ sess = [t \in Tokens |-> IF t = First THEN "fresh" ELSE "absent"]
    /\ tick = [t \in Tokens |-> "absent"]
    /\ fails = 0
    /\ under = [t \in Tokens |-> First]
    /\ revoked = {} /\ spent = {} /\ overlapped = {}
    /\ faults = 0

\* A caller presents a token it was given, which may be gone meanwhile.
Start(c) ==
    /\ pc[c] = "new"
    /\ \E r \in Sent :
        /\ r.kind \notin {"reset", "socket"} => Cardinality(Pool) < Threads
        /\ r.token \in {First} \cup {d \in Calls : answer[d] = "granted"}
        /\ req' = [req EXCEPT ![c] = r]
        /\ pc' = [pc EXCEPT ![c] = FirstStep(r.kind)]
    /\ under' = [under EXCEPT ![c] = password]
    /\ UNCHANGED <<answer, store, fails, revoked, spent, overlapped, faults>>

-----------------------------------------------------------------------------
(* login *)

\* Variant: the limiter is not asked.
LimitIgnored == TRUE
BelowLimit == fails < Limit

\* Old attempts are dropped and the others counted, without a lock: of two
\* threads that drop at once one may find the queue empty and fail.
CheckRate(c) ==
    /\ At(c, "rate")
    /\ \/ BelowLimit /\ Goto(c, "hash")
       \/ ~BelowLimit /\ Finish(c, "rate_limited")
       \/ (\E d \in Calls \ {c} : pc[d] = "rate") /\ Finish(c, "error")
    /\ UNCHANGED <<store, fails, history>>

\* The hash is read, and verified against what was typed: hundreds of
\* milliseconds of work that touch nothing shared.
ReadHash(c) ==
    /\ At(c, "hash")
    /\ Goto(c, IF req[c].word = password THEN "accept" ELSE "refuse")
    /\ under' = [under EXCEPT ![c] = password]
    /\ UNCHANGED <<store, fails, revoked, spent, overlapped>>

Refuse(c) ==
    /\ At(c, "refuse")
    /\ fails' = IF req[c].kind = "login" THEN fails + 1 ELSE fails
    /\ Finish(c, "refused")
    /\ UNCHANGED <<store, history>>

Accept(c) ==
    /\ At(c, "accept")
    /\ fails' = IF req[c].kind = "login" THEN 0 ELSE fails
    /\ Goto(c, IF req[c].kind = "login" THEN "insert" ELSE "commit")
    /\ UNCHANGED <<store, history>>

InsertSession(c) ==
    /\ At(c, "insert")
    /\ sess' = [sess EXCEPT ![c] = "fresh"]
    /\ Finish(c, "granted")
    /\ UNCHANGED <<password, tick, fails, history>>

-----------------------------------------------------------------------------
(* change_password and reset_password: one transaction each *)

\* Variant: a change revokes the caller's own session.
RevokesOwn(c) == {req[c].token}
Revokes(c) == Tokens

NewPassword(c, made) ==
    /\ password' = c
    /\ sess' = [t \in Tokens |->
                   IF t \in made THEN "fresh"
                   ELSE IF t \in Revokes(c) THEN "absent" ELSE sess[t]]
    /\ tick' = [t \in Tokens |-> "absent"]
    /\ under' = [under EXCEPT ![c] = c]
    /\ revoked' = revoked \cup {t \in Tokens : sess[t] # "absent" /\ t \in Revokes(c)}
    /\ spent' = spent \cup {t \in Tokens : tick[t] # "absent"}
    /\ overlapped' = overlapped \cup {d \in Calls \ {c} : pc[d] \notin {"new", "done"}}
    /\ UNCHANGED fails

Commit(c) ==
    /\ req[c].kind = "change"
    /\ At(c, "commit")
    /\ NewPassword(c, {c})
    /\ Goto(c, "audit")

\* The new cookie is handed out only after the audit row is written.
Audit(c) ==
    /\ At(c, "audit")
    /\ Finish(c, "granted")
    /\ UNCHANGED <<store, fails, history>>

LookUp(c) ==
    /\ At(c, "lookup")
    /\ Goto(c, "commit")
    /\ UNCHANGED <<store, fails, history>>

CommitReset(c) ==
    /\ req[c].kind = "reset"
    /\ At(c, "commit")
    /\ NewPassword(c, {})
    /\ Finish(c, "done")

-----------------------------------------------------------------------------
(* resolve_session, before every request but login, and what may follow it *)

AfterTouch(kind) ==
    CASE kind = "change" -> "hash"
      [] kind = "logout" -> "revoke"
      [] kind = "ticket" -> "issue"

Resolve(c) ==
    LET row == sess[req[c].token] IN
    /\ At(c, "resolve")
    /\ CASE row = "absent" -> Finish(c, "refused")
         [] row = "fresh" -> Goto(c, "touch")
         [] OTHER -> Goto(c, "discard")
    /\ UNCHANGED <<store, fails, history>>

\* Variant: the row is written back whole.
TouchedBack(s) == "fresh"

\* UPDATE last_seen_at: a row that is gone stays gone, and one whose idle limit
\* passed since it was read is fresh again.
Touched(s) == IF sess[s] = "idle" THEN "fresh" ELSE sess[s]

Touch(c) ==
    /\ At(c, "touch")
    /\ sess' = [sess EXCEPT ![req[c].token] = Touched(req[c].token)]
    /\ IF req[c].kind = "visit" THEN Finish(c, "done") ELSE Goto(c, AfterTouch(req[c].kind))
    /\ UNCHANGED <<password, tick, fails, history>>

\* DELETE: the session was too old, or its owner logs out.
Delete(c) ==
    /\ pc[c] \in {"discard", "revoke"} /\ At(c, pc[c])
    /\ sess' = [sess EXCEPT ![req[c].token] = "absent"]
    /\ revoked' = revoked \cup {req[c].token}
    /\ Finish(c, IF pc[c] = "revoke" THEN "done" ELSE "refused")
    /\ UNCHANGED <<password, tick, fails, under, spent, overlapped>>

IssueTicket(c) ==
    /\ At(c, "issue")
    /\ tick' = [tick EXCEPT ![c] = "unused"]
    /\ Finish(c, "granted")
    /\ UNCHANGED <<password, sess, fails, history>>

-----------------------------------------------------------------------------
(* console_socket *)

ReadTicket(c) ==
    /\ At(c, "read_ticket")
    /\ \A d \in Calls : pc[d] # "mark"
    /\ IF tick[req[c].token] = "unused" THEN Goto(c, "mark") ELSE Finish(c, "refused")
    /\ UNCHANGED <<store, fails, history>>

\* Variant: the count of the UPDATE is not looked at.
MarkedAnyway(t) == TRUE
Marked(t) == tick[t] \in {"unused", "stale"}

\* UPDATE ... SET used = 1 WHERE used = 0: no row, no console.
Mark(c) ==
    LET t == req[c].token IN
    /\ At(c, "mark")
    /\ IF Marked(t) THEN Finish(c, "opened") /\ spent' = spent \cup {t}
                    ELSE Finish(c, "refused") /\ UNCHANGED spent
    /\ tick' = [tick EXCEPT ![t] = IF tick[t] = "absent" THEN "absent" ELSE "used"]
    /\ UNCHANGED <<password, sess, fails, under, revoked, overlapped>>

-----------------------------------------------------------------------------
(* Around the calls *)

\* The clock: a session passes its idle or its absolute limit.
SessionAges(t) ==
    /\ \/ sess[t] = "fresh" /\ sess' = [sess EXCEPT ![t] = "idle"]
       \/ sess[t] \in {"fresh", "idle"} /\ sess' = [sess EXCEPT ![t] = "expired"]
    /\ UNCHANGED <<pc, req, answer, password, tick, fails, history, faults>>

TicketAges(t) ==
    /\ tick[t] = "unused"
    /\ tick' = [tick EXCEPT ![t] = "stale"]
    /\ UNCHANGED <<pc, req, answer, password, sess, fails, history, faults>>

\* The oldest failure leaves the window of 900 s.
FailureAges ==
    /\ fails > 0 /\ fails' = fails - 1
    /\ UNCHANGED <<pc, req, answer, store, history, faults>>

\* A statement raises; the transaction of a change is rolled back.
DatabaseError(c) ==
    /\ faults < MaxFaults /\ faults' = faults + 1
    /\ pc[c] \notin {"new", "rate", "refuse", "accept", "done"}
    /\ Finish(c, "error")
    /\ UNCHANGED <<req, store, fails, history>>

\* Calls in flight are lost with the process, and so are the failures it
\* counted; the command of the administrator goes on.
PanelRestarts ==
    /\ faults < MaxFaults /\ faults' = faults + 1
    /\ pc' = [c \in Calls |-> IF pc[c] # "new" /\ req[c].kind # "reset" THEN "done" ELSE pc[c]]
    /\ fails' = 0
    /\ UNCHANGED <<req, answer, store, history>>

Call(c) ==
    \/ Start(c)
    \/ CheckRate(c) \/ ReadHash(c) \/ Refuse(c) \/ Accept(c) \/ InsertSession(c)
    \/ Commit(c) \/ Audit(c) \/ LookUp(c) \/ CommitReset(c)
    \/ Resolve(c) \/ Touch(c) \/ Delete(c) \/ IssueTicket(c)
    \/ ReadTicket(c) \/ Mark(c)

Next ==
    \/ \E c \in Calls : Call(c) \/ DatabaseError(c)
    \/ \E t \in Tokens : SessionAges(t) \/ TicketAges(t)
    \/ FailureAges
    \/ PanelRestarts

Spec == Init /\ [][Next]_vars

-----------------------------------------------------------------------------
TypeOK ==
    /\ pc \in [Calls -> Steps]
    /\ req \in [Calls -> Sent \cup {NoRequest}]
    /\ answer \in [Calls -> Answers]
    /\ password \in Tokens
    /\ sess \in [Tokens -> SessionRows]
    /\ tick \in [Tokens -> TicketRows]
    /\ fails \in Nat
    /\ under \in [Tokens -> Tokens]
    /\ revoked \subseteq Tokens /\ spent \subseteq Tokens
    /\ overlapped \subseteq Calls
    /\ faults \in 0..MaxFaults

\* A session that was revoked, by a change of the password, a logout or its age,
\* never comes back, though requests that had read its row go on and touch it.
RevokedStaysRevoked == \A t \in revoked : sess[t] = "absent"

\* README.md:24, sessions can be revoked: once a new password is in force, the
\* sessions and tickets made under an earlier one are gone, except those of
\* calls that were in flight when it changed.
RevocationIsComplete ==
    \A t \in Tokens :
        sess[t] # "absent" \/ tick[t] \in {"unused", "stale"}
            => under[t] = password \/ t \in overlapped

\* A ticket opens one console, and none once a change of the password has
\* deleted it, also when the socket had read the row before.
TicketHonoured ==
    [][\A c \in Calls : answer[c] # "opened" /\ answer'[c] = "opened"
            => req[c].token \notin spent]_vars

\* The limiter counts after the slow verification: it is overrun by no more
\* attempts than the pool has threads.
FailuresBounded ==
    fails + Cardinality({c \in Calls : Attempting(c)}) <= Limit - 1 + Threads
=============================================================================
