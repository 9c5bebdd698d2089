----------------------------- MODULE Operations -----------------------------
(***************************************************************************)
(* OperationService (apps/api/src/mc_panel_api/operations.py): every       *)
(* state-changing call of the panel goes through request, confirm and      *)
(* _execute.  FastAPI runs the synchronous handlers on a thread pool, each *)
(* database statement is a transaction of its own, and the adapter runs    *)
(* the root helper through sudo; so one call is a sequence of steps that   *)
(* interleave with those of every other call, with the clock, with changes *)
(* of the server's structure, with database errors and with restarts of    *)
(* the panel.                                                              *)
(*                                                                         *)
(* A call is one HTTP request and carries its own identity.  The           *)
(* confirmation it creates, and the operation row and helper run it        *)
(* starts, are named after the call: the code draws a fresh uuid for each. *)
(***************************************************************************)
EXTENDS Naturals, FiniteSets

CONSTANTS
    Calls,          \* the HTTP requests of a behaviour
    Users,          \* owner accounts
    Fingerprints,   \* digests of the server's unit, root and startup file
    Approved,       \* the digest in the root-owned configuration
    MaxFaults       \* bound on database errors, helper deaths and panel restarts

ASSUME ApprovedAssumption == Approved \in Fingerprints
ASSUME MaxFaultsAssumption == MaxFaults \in Nat

VARIABLES
    pc,         \* pc[c]: the step call c is about to take
    req,        \* req[c]: what the client sent
    mem,        \* mem[c]: the local variables of the handler of call c
    answer,     \* answer[c]: what the client is told
    confState,  \* confirmations.state
    confFp,     \* confirmations.fingerprint
    expired,    \* expired[k]: the clock has passed confirmations.expires_at
    opState,    \* operations.state
    audited,    \* audit rows, as pairs <<call, outcome>>
    helper,     \* helper[c]: the root helper process call c started
    fp,         \* the digest the adapter would compute now
    writes,     \* settings.production_writes_enabled of the running process
    faults,     \* faults so far
    claimants   \* history: the requests whose UPDATE claimed a confirmation

rows == <<confState, confFp, opState, audited>>
env == <<expired, fp, writes, faults, claimants>>
vars == <<pc, req, mem, answer, rows, helper, env>>

-----------------------------------------------------------------------------
Risks == {"low", "medium", "high"}

\* POST /api/v1/operations and the per-feature routes.
Submits == [kind : {"submit"}, user : Users, risk : Risks]

\* POST .../confirm and .../confirm-again; named says whether the server name
\* typed by the user is the configured one.
Confirms == [kind : {"confirm"}, user : Users, target : Calls,
             second : BOOLEAN, named : BOOLEAN]

NoRequest == [kind |-> "none"]

OpStates == {"absent", "executing", "succeeded", "failed"}
ConfStates == OpStates \cup {"pending", "first_confirmed"}
Outcomes == {"succeeded", "failed"}
Answers == Outcomes \cup {"none", "confirmation_required", "second_confirmation_required",
                          "rejected", "error"}

\* The locals of a handler: the state column as confirm read it, whether the
\* instant it stamped is past the expiry, and the outcome held by _execute.
\* moved is history: the structure changed while the call was in flight.
Memory == [state : ConfStates, late : BOOLEAN, outcome : Outcomes \cup {"none"},
           moved : BOOLEAN]
NoMemory == [state |-> "absent", late |-> FALSE, outcome |-> "none", moved |-> FALSE]

HelperStates == {"idle", "running", "ok", "failed", "killed"}

\* The steps of _execute from the INSERT to the audit row.
ExecutionSteps == {"insert_op", "gate", "spawn", "wait", "overdue",
                   "save_op", "save_conf", "audit"}
Steps == ExecutionSteps \cup {"new", "insert_conf", "audit_conf", "load", "review",
                              "first_claim", "claim", "done"}

IsConfirm(c) == req[c].kind = "confirm"
InFlight(c) == pc[c] \notin {"new", "done"}

\* The helper's non-blocking flock is held from its start to its exit.
\* LockIgnored: variant for the sensitivity runs, like every definition whose
\* comment calls it a variant.
LockIgnored == FALSE
LockHeld == \E o \in Calls : helper[o] = "running"

\* The operation row of call o belongs to confirmation k.
ExecutesFor(o, k) == opState[o] # "absent" /\ IsConfirm(o) /\ req[o].target = k

Goto(c, step) == pc' = [pc EXCEPT ![c] = step]
Finish(c, text) ==
    /\ Goto(c, "done")
    /\ answer' = [answer EXCEPT ![c] = text]
    /\ mem' = [mem EXCEPT ![c] = NoMemory]

-----------------------------------------------------------------------------
Init ==
    /\ pc = [c \in Calls |-> "new"]
    /\ req = [c \in Calls |-> NoRequest]
    /\ mem = [c \in Calls |-> NoMemory]
    /\ answer = [c \in Calls |-> "none"]
    /\ confState = [c \in Calls |-> "absent"]
    /\ confFp = [c \in Calls |-> Approved]
    /\ expired = [c \in Calls |-> FALSE]
    /\ opState = [c \in Calls |-> "absent"]
    /\ audited = {}
    /\ helper = [c \in Calls |-> "idle"]
    /\ fp = Approved
    /\ writes = TRUE
    /\ faults = 0
    /\ claimants = {}

\* A handler starts.  request() sends a low-risk action straight to _execute
\* and freezes every other one into a confirmation.
Submit(c) ==
    /\ pc[c] = "new"
    /\ \E r \in Submits :
        /\ req' = [req EXCEPT ![c] = r]
        /\ Goto(c, IF r.risk = "low" THEN "insert_op" ELSE "insert_conf")
    /\ UNCHANGED <<mem, answer, rows, helper, env>>

InsertConfirmation(c) ==
    /\ pc[c] = "insert_conf"
    /\ confState' = [confState EXCEPT ![c] = "pending"]
    /\ confFp' = [confFp EXCEPT ![c] = fp]
    /\ Goto(c, "audit_conf")
    /\ UNCHANGED <<req, mem, answer, opState, audited, helper, env>>

AuditConfirmation(c) ==
    /\ pc[c] = "audit_conf"
    /\ audited' = audited \cup {<<c, "confirmation_required">>}
    /\ Finish(c, "confirmation_required")
    /\ UNCHANGED <<req, confState, confFp, opState, helper, env>>

\* A client confirms a confirmation it was told of, or one of another user.
Confirm(c) ==
    /\ pc[c] = "new"
    /\ \E r \in Confirms :
        /\ answer[r.target] = "confirmation_required"
        /\ req' = [req EXCEPT ![c] = r]
    /\ Goto(c, "load")
    /\ UNCHANGED <<mem, answer, rows, helper, env>>

\* SELECT by id and user, then the first look at the clock.
Load(c) ==
    LET k == req[c].target IN
    /\ pc[c] = "load"
    /\ IF req[k].user = req[c].user /\ ~expired[k]
         THEN /\ mem' = [mem EXCEPT ![c].state = confState[k]]
              /\ Goto(c, "review")
              /\ UNCHANGED answer
         ELSE Finish(c, "rejected")
    /\ UNCHANGED <<req, rows, helper, env>>

\* What the request may do, given the state column it read.
MayApprove(c) ==
    /\ req[req[c].target].risk = "high"
    /\ mem[c].state = "pending"
    /\ ~req[c].second

\* Variant: the flag of confirm-again is not looked at.
MayClaimWithoutSecond(c) ==
    IF req[req[c].target].risk = "high"
      THEN mem[c].state = "first_confirmed" /\ req[c].named
      ELSE mem[c].state = "pending"

MayClaim(c) ==
    IF req[req[c].target].risk = "high"
      THEN mem[c].state = "first_confirmed" /\ req[c].second /\ req[c].named
      ELSE mem[c].state = "pending" /\ ~req[c].second

\* Variant: the structure frozen into the confirmation is not compared.
StructureIgnored(c) == TRUE
SameStructure(c) == confFp[req[c].target] = fp

\* The structure check, the stamp of "now" and the branch on risk and state.
Review(c) ==
    /\ pc[c] = "review"
    /\ IF SameStructure(c) /\ (MayApprove(c) \/ MayClaim(c))
         THEN /\ mem' = [mem EXCEPT ![c].late = expired[req[c].target]]
              /\ Goto(c, IF MayApprove(c) THEN "first_claim" ELSE "claim")
              /\ UNCHANGED answer
         ELSE Finish(c, "rejected")
    /\ UNCHANGED <<req, rows, helper, env>>

\* Variant: the UPDATE has no expires_at > ? condition.
SwapWithoutExpiry(c, from, to) ==
    /\ confState[req[c].target] = from
    /\ confState' = [confState EXCEPT ![req[c].target] = to]

\* UPDATE confirmations SET state WHERE state = ? AND expires_at > now, a
\* compare-and-swap on the row: one statement, so one step.
Swap(c, from, to) ==
    /\ confState[req[c].target] = from
    /\ ~mem[c].late
    /\ confState' = [confState EXCEPT ![req[c].target] = to]

FirstClaim(c) ==
    /\ pc[c] = "first_claim"
    /\ Swap(c, "pending", "first_confirmed")
    /\ Finish(c, "second_confirmation_required")
    /\ UNCHANGED <<req, confFp, opState, audited, helper, env>>

\* The state the claim expects: the one the risk prescribes.  Variant: the
\* UPDATE has no state = ? condition.
ExpectedAny(c) == confState[req[c].target]
Expected(c) == IF req[req[c].target].risk = "high" THEN "first_confirmed" ELSE "pending"

Claim(c) ==
    /\ pc[c] = "claim"
    /\ Swap(c, Expected(c), "executing")
    /\ claimants' = claimants \cup {c}
    /\ Goto(c, "insert_op")
    /\ UNCHANGED <<req, mem, answer, confFp, opState, audited, helper, expired, fp, writes, faults>>

\* The UPDATE matched no row: another request moved the row first, or the
\* stamped instant was past the expiry.
LoseClaim(c) ==
    /\ \/ pc[c] = "first_claim" /\ confState[req[c].target] # "pending"
       \/ pc[c] = "claim" /\ confState[req[c].target] # Expected(c)
       \/ pc[c] \in {"first_claim", "claim"} /\ mem[c].late
    /\ Finish(c, "rejected")
    /\ UNCHANGED <<req, rows, helper, env>>

-----------------------------------------------------------------------------
(* _execute *)

InsertOperation(c) ==
    /\ pc[c] = "insert_op"
    /\ opState' = [opState EXCEPT ![c] = "executing"]
    /\ Goto(c, "gate")
    /\ UNCHANGED <<req, mem, answer, confState, confFp, audited, helper, env>>

\* The adapter's own checks, repeated right before the helper is started: the
\* write switch, the structure, and a helper that is missing or not safe to run,
\* which is refused as a structure that is not the approved one is.
GatePasses(c) ==
    /\ pc[c] = "gate"
    /\ writes /\ fp = Approved
    /\ Goto(c, "spawn")
    /\ UNCHANGED <<req, mem, answer, rows, helper, env>>

GateRefuses(c) ==
    /\ pc[c] = "gate"
    /\ ~(writes /\ fp = Approved)
    /\ mem' = [mem EXCEPT ![c].outcome = "failed"]
    /\ Goto(c, "save_op")
    /\ UNCHANGED <<req, answer, rows, helper, env>>

Spawn(c) ==
    /\ pc[c] = "spawn"
    /\ ~LockHeld
    /\ helper' = [helper EXCEPT ![c] = "running"]
    /\ Goto(c, "wait")
    /\ UNCHANGED <<req, mem, answer, rows, env>>

\* flock(LOCK_NB) fails: operation_in_progress, and nothing is queued.
SpawnRefused(c) ==
    /\ pc[c] = "spawn"
    /\ LockHeld
    /\ mem' = [mem EXCEPT ![c].outcome = "failed"]
    /\ Goto(c, "save_op")
    /\ UNCHANGED <<req, answer, rows, helper, env>>

\* The helper leaves with a result, whether or not anybody still waits for it.
HelperEnds(o) ==
    /\ helper[o] = "running"
    /\ \E verdict \in {"ok", "failed"} : helper' = [helper EXCEPT ![o] = verdict]
    /\ UNCHANGED <<pc, req, mem, answer, rows, env>>

\* subprocess.run gives up.  Its kill() of a root-owned sudo is refused by the
\* kernel, so the thread still waits for the helper to leave, and then raises.
Overrun(c) ==
    /\ pc[c] = "wait"
    /\ helper[c] = "running"
    /\ Goto(c, "overdue")
    /\ UNCHANGED <<req, mem, answer, rows, helper, env>>

\* Variants: only a helper that printed a result is noticed; a thread that gave
\* up is not woken by the end of its helper.
LeftWithResult(c) == helper[c] \in {"ok", "failed"}
LeftInTime(c) == pc[c] = "wait" /\ helper[c] # "running"
HelperLeft(c) == helper[c] # "running"

\* Variants: the return code is not looked at; it is stored as it comes.
VerdictWithoutCode(c) == IF pc[c] = "wait" THEN "succeeded" ELSE "failed"
VerdictRaw(c) == helper[c]
Verdict(c) == IF pc[c] = "wait" /\ helper[c] = "ok" THEN "succeeded" ELSE "failed"

Return(c) ==
    /\ pc[c] \in {"wait", "overdue"}
    /\ HelperLeft(c)
    /\ mem' = [mem EXCEPT ![c].outcome = Verdict(c)]
    /\ Goto(c, "save_op")
    /\ UNCHANGED <<req, answer, rows, helper, env>>

SaveOperation(c) ==
    /\ pc[c] = "save_op"
    /\ opState' = [opState EXCEPT ![c] = mem[c].outcome]
    /\ Goto(c, IF IsConfirm(c) THEN "save_conf" ELSE "audit")
    /\ UNCHANGED <<req, mem, answer, confState, confFp, audited, helper, env>>

SaveConfirmation(c) ==
    /\ pc[c] = "save_conf"
    /\ confState' = [confState EXCEPT ![req[c].target] = mem[c].outcome]
    /\ Goto(c, "audit")
    /\ UNCHANGED <<req, mem, answer, confFp, opState, audited, helper, env>>

Audit(c) ==
    /\ pc[c] = "audit"
    /\ audited' = audited \cup {<<c, mem[c].outcome>>}
    /\ Finish(c, mem[c].outcome)
    /\ UNCHANGED <<req, confState, confFp, opState, helper, env>>

-----------------------------------------------------------------------------
(* What happens around the calls *)

\* The clock, as far as it matters: once a row can no longer be claimed its
\* expiry decides nothing.
Expire(k) ==
    /\ confState[k] \in {"pending", "first_confirmed"}
    /\ ~expired[k]
    /\ expired' = [expired EXCEPT ![k] = TRUE]
    /\ UNCHANGED <<pc, req, mem, answer, rows, helper, fp, writes, faults, claimants>>

\* An administrator changes the unit or the startup file, or puts it back.
Drift ==
    /\ fp' \in Fingerprints \ {fp}
    /\ mem' = [c \in Calls |-> [mem[c] EXCEPT !.moved = mem[c].moved \/ InFlight(c)]]
    /\ UNCHANGED <<pc, req, answer, rows, helper, expired, writes, faults, claimants>>

\* A database statement raises (disk full, busy for longer than the timeout).
\* Nothing in request, confirm or _execute catches it: the call ends there.
DatabaseError(c) ==
    /\ faults < MaxFaults
    /\ faults' = faults + 1
    /\ pc[c] \in {"insert_conf", "audit_conf", "load", "first_claim", "claim",
                  "insert_op", "save_op", "save_conf", "audit"}
    /\ Finish(c, "error")
    /\ UNCHANGED <<req, rows, helper, expired, fp, writes, claimants>>

HelperDies(o) ==
    /\ faults < MaxFaults
    /\ faults' = faults + 1
    /\ helper[o] = "running"
    /\ helper' = [helper EXCEPT ![o] = "killed"]
    /\ UNCHANGED <<pc, req, mem, answer, rows, expired, fp, writes, claimants>>

\* The panel stops and starts again: every call in flight is lost, the
\* database keeps its rows and nothing repairs them.  systemd may or may not
\* take a running helper down with the unit; the new process reads the write
\* switch again.
PanelRestarts ==
    /\ faults < MaxFaults
    /\ faults' = faults + 1
    /\ pc' = [c \in Calls |-> IF InFlight(c) THEN "done" ELSE pc[c]]
    /\ mem' = [c \in Calls |-> NoMemory]
    /\ \E survivor \in {"running", "killed"} :
         helper' = [o \in Calls |-> IF helper[o] = "running" THEN survivor ELSE helper[o]]
    /\ writes' \in BOOLEAN
    /\ UNCHANGED <<req, answer, rows, expired, fp, claimants>>

Handler(c) ==
    \/ InsertConfirmation(c) \/ AuditConfirmation(c)
    \/ Load(c) \/ Review(c) \/ FirstClaim(c) \/ Claim(c) \/ LoseClaim(c)
    \/ InsertOperation(c) \/ GatePasses(c) \/ GateRefuses(c)
    \/ Spawn(c) \/ SpawnRefused(c) \/ Return(c)
    \/ SaveOperation(c) \/ SaveConfirmation(c) \/ Audit(c)

Call(c) == Submit(c) \/ Confirm(c) \/ Handler(c) \/ HelperEnds(c) \/ Overrun(c)

Fault(c) == DatabaseError(c) \/ HelperDies(c)

Next ==
    \/ \E c \in Calls : Call(c) \/ Fault(c) \/ Expire(c)
    \/ Drift
    \/ PanelRestarts

Spec == Init /\ [][Next]_vars

\* The thread pool keeps running the handlers it started and the root helper
\* finishes: every command it runs has a timeout.  Clients, the clock and
\* faults are not required to act.
Fairness == \A c \in Calls : WF_vars(Handler(c)) /\ WF_vars(HelperEnds(c))

FairSpec == Spec /\ Fairness

-----------------------------------------------------------------------------
TypeOK ==
    /\ pc \in [Calls -> Steps]
    /\ req \in [Calls -> Submits \cup Confirms \cup {NoRequest}]
    /\ mem \in [Calls -> Memory]
    /\ answer \in [Calls -> Answers]
    /\ confState \in [Calls -> ConfStates]
    /\ confFp \in [Calls -> Fingerprints]
    /\ expired \in [Calls -> BOOLEAN]
    /\ opState \in [Calls -> OpStates]
    /\ audited \subseteq Calls \X Answers
    /\ helper \in [Calls -> HelperStates]
    /\ fp \in Fingerprints
    /\ writes \in BOOLEAN
    /\ faults \in 0..MaxFaults
    /\ claimants \subseteq Calls

\* However many requests confirm it at once, a confirmation is executed by at
\* most one of them: _execute runs once per confirmation (operations.py, the
\* UPDATE ... WHERE state = ? that claims the row).
ExecutedOnce ==
    \A k, o1, o2 \in Calls : ExecutesFor(o1, k) /\ ExecutesFor(o2, k) => o1 = o2

\* A high-risk confirmation is executed only by its owner's second request,
\* which typed the server name, after another request of the same owner was
\* told that a second confirmation is required.
TwoApprovals ==
    \A k, o \in Calls :
        ExecutesFor(o, k) =>
            /\ req[o].user = req[k].user
            /\ req[k].risk = "high" =>
                /\ req[o].second /\ req[o].named
                /\ \E first \in Calls \ {o} :
                     /\ answer[first] = "second_confirmation_required"
                     /\ req[first].target = k
                     /\ req[first].user = req[k].user

\* What the database and the client are told agrees with what the helper did,
\* across the three rows written one after the other: no row and no answer
\* says succeeded unless the helper run it stands for ended well, and an
\* answer given is in the operation, in its confirmation and in the audit.
NoFalseSuccess ==
    /\ \A o \in Calls : opState[o] = "succeeded" => helper[o] = "ok"
    /\ \A k \in Calls : confState[k] \in Outcomes =>
          \E o \in Calls : ExecutesFor(o, k) /\ opState[o] = confState[k]
    /\ \A c \in Calls : answer[c] \in Outcomes =>
          /\ opState[c] = answer[c]
          /\ <<c, answer[c]>> \in audited
          /\ IsConfirm(c) => confState[req[c].target] = answer[c]

\* A review frozen under one structure of the server is executed under another
\* only if the structure changed while the executing request was in flight.
StaleReviewOnlyInWindow ==
    \A c \in Calls :
        InFlight(c) /\ helper[c] # "idle" /\ IsConfirm(c) /\ ~mem[c].moved
            => confFp[req[c].target] = Approved

\* Root helper runs never overlap, also when the panel restarted around one.
HelperSerialized ==
    \A o1, o2 \in Calls : helper[o1] = "running" /\ helper[o2] = "running" => o1 = o2

\* Once a confirmation expired and no request that had stamped its time before
\* is left, the confirmation can no longer be approved or claimed.
StampedFor(c, k) ==
    pc[c] \in {"first_claim", "claim"} /\ req[c].target = k /\ ~mem[c].late
ExpiredIsClosed ==
    [][\A k \in Calls :
         /\ expired[k]
         /\ confState[k] \in {"pending", "first_confirmed"}
         /\ \A c \in Calls : ~StampedFor(c, k)
         => confState'[k] = confState[k]]_vars

\* Every request a client sent is answered or was cut off by a restart: however
\* many are in flight, there comes an instant at which none is.  (A behaviour has
\* finitely many requests and none starts twice, so each of them ends.)
EveryCallEnds == (\E c \in Calls : InFlight(c)) ~> (\A c \in Calls : ~InFlight(c))

\* ARCHITECTURE.md:87-88 draws executing -> succeeded | failed as the only way
\* on from executing.
ExecutingResolves ==
    \A k \in Calls : confState[k] = "executing" ~> confState[k] \in Outcomes

\* What the service does promise: a claimed confirmation resolves unless the
\* very request that claimed it was cut off after its claim, by an error of the
\* database or a restart.  A helper that dies or overruns, a refusal, a busy
\* lock, a second confirm that loses and the faults of other requests do not
\* leave it executing.
CutOff(k) ==
    \E o \in claimants :
        req[o].target = k /\ pc[o] = "done" /\ answer[o] \in {"none", "error"}
Unresolved == {k \in Calls : confState[k] = "executing" /\ ~CutOff(k)}
ResolvesUnlessCutOff == Unresolved # {} ~> Unresolved = {}

-----------------------------------------------------------------------------
(* The promise of ConfirmationLifecycle, kept by the rows and the helper. *)

Launches == {p \in Calls \X Calls :
                 IsConfirm(p[2]) /\ req[p[2]].target = p[1] /\ helper[p[2]] # "idle"}

Lifecycle == INSTANCE ConfirmationLifecycle WITH
    Confirmations <- Calls,
    Runs <- Calls,
    phase <- confState,
    risk <- [k \in Calls |-> IF confState[k] = "absent" THEN "none" ELSE req[k].risk],
    launched <- Launches,
    effected <- {p \in Launches : helper[p[2]] = "ok"}

LifecycleSpec == Lifecycle!Spec
=============================================================================
