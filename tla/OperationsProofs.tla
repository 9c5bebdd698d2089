-------------------------- MODULE OperationsProofs --------------------------
(***************************************************************************)
(* Theorems about Operations, for every set of calls, users and structures *)
(* and every number of faults.                                             *)
(***************************************************************************)
EXTENDS Operations, TLAPS

Requests == Submits \cup Confirms \cup {NoRequest}

\* The steps at which a handler uses req[c].target.
ConfirmSteps == {"load", "review", "first_claim", "claim", "save_conf"}

\* What the handlers know of their own locals: a confirm handler works on a
\* confirm request, and _execute has an outcome when it writes one.
HandlerOK ==
    \A c \in Calls :
        /\ pc[c] \in ConfirmSteps => IsConfirm(c)
        /\ pc[c] \in {"save_op", "save_conf", "audit"} => mem[c].outcome \in Outcomes

TypeInv == TypeOK /\ HandlerOK

\* A request whose kind is "confirm" has a target.
LEMMA ConfirmShape ==
    ASSUME NEW r \in Requests, r.kind = "confirm"
    PROVE  r \in Confirms /\ r.target \in Calls
BY DEF Requests, Submits, Confirms, NoRequest

\* The record of locals keeps its shape when one field is assigned.
LEMMA MemoryShape ==
    ASSUME NEW m \in Memory
    PROVE  /\ \A s \in ConfStates : [m EXCEPT !.state = s] \in Memory
           /\ \A b \in BOOLEAN : [m EXCEPT !.late = b] \in Memory
           /\ \A o \in Outcomes : [m EXCEPT !.outcome = o] \in Memory
           /\ \A b \in BOOLEAN : [m EXCEPT !.moved = b] \in Memory
           /\ NoMemory \in Memory
BY DEF Memory, NoMemory, Outcomes, ConfStates, OpStates

\* Type correctness of operations.py's rows and of the handlers' locals, with
\* the little that its induction needs to know of the program counters.
THEOREM TypeCorrect == Spec => []TypeInv
<1>1. Init => TypeInv
  BY ApprovedAssumption, MaxFaultsAssumption
     DEF Init, TypeInv, TypeOK, HandlerOK, Steps, ExecutionSteps, Memory, NoMemory,
         ConfStates, OpStates, Outcomes, Answers, HelperStates, ConfirmSteps, NoRequest
<1>2. TypeInv /\ [Next]_vars => TypeInv'
  <2> SUFFICES ASSUME TypeInv, [Next]_vars PROVE TypeInv'
    OBVIOUS
  <2> USE DEF TypeInv, TypeOK, HandlerOK, Goto, Finish, rows, env, Steps, ExecutionSteps,
              ConfStates, OpStates, Outcomes, Answers, ConfirmSteps, IsConfirm
  <2>1. ASSUME NEW c \in Calls, Submit(c) PROVE TypeInv'
    BY <2>1 DEF Submit, Submits
  <2>2. ASSUME NEW c \in Calls, Confirm(c) PROVE TypeInv'
    BY <2>2 DEF Confirm, Confirms
  <2>3. ASSUME NEW c \in Calls, InsertConfirmation(c) PROVE TypeInv'
    BY <2>3 DEF InsertConfirmation
  <2>4. ASSUME NEW c \in Calls, AuditConfirmation(c) PROVE TypeInv'
    <3>1. mem' \in [Calls -> Memory]
      BY <2>4, MemoryShape DEF AuditConfirmation
    <3>2. TypeOK'
      BY <2>4, <3>1 DEF AuditConfirmation
    <3>3. \A d \in Calls : d # c => mem'[d] = mem[d]
      BY <2>4 DEF AuditConfirmation
    <3>4. HandlerOK'
      BY <2>4, <3>3 DEF AuditConfirmation
    <3>5. QED
      BY <3>2, <3>4
  <2>5. ASSUME NEW c \in Calls, Load(c) PROVE TypeInv'
    <3> DEFINE value == confState[req[c].target]
    <3>a. req[c].target \in Calls
      BY <2>5, ConfirmShape DEF Load, Requests
    <3>b. [mem[c] EXCEPT !.state = value] \in Memory
      BY <3>a, MemoryShape
    <3>c. mem' \in {[mem EXCEPT ![c] = NoMemory],
                    [mem EXCEPT ![c] = [mem[c] EXCEPT !.state = value]]}
      BY <2>5 DEF Load
    <3>1. mem' \in [Calls -> Memory]
      BY <3>b, <3>c, MemoryShape
    <3>2. TypeOK'
      BY <2>5, <3>1, ConfirmShape DEF Load, Requests
    <3>3. \A d \in Calls : d # c => mem'[d] = mem[d]
      BY <2>5 DEF Load, Requests
    <3>4. HandlerOK'
      BY <2>5, <3>3 DEF Load, Requests
    <3>5. QED
      BY <3>2, <3>4
  <2>6. ASSUME NEW c \in Calls, Review(c) PROVE TypeInv'
    <3> DEFINE value == expired[req[c].target]
    <3>a. req[c].target \in Calls
      BY <2>6, ConfirmShape DEF Review, Requests
    <3>b. [mem[c] EXCEPT !.late = value] \in Memory
      BY <3>a, MemoryShape
    <3>c. mem' \in {[mem EXCEPT ![c] = NoMemory],
                    [mem EXCEPT ![c] = [mem[c] EXCEPT !.late = value]]}
      BY <2>6 DEF Review
    <3>1. mem' \in [Calls -> Memory]
      BY <3>b, <3>c, MemoryShape
    <3>2. TypeOK'
      BY <2>6, <3>1, ConfirmShape DEF Review, Requests
    <3>3. \A d \in Calls : d # c => mem'[d] = mem[d]
      BY <2>6 DEF Review, Requests
    <3>4. HandlerOK'
      BY <2>6, <3>3 DEF Review, Requests
    <3>5. QED
      BY <3>2, <3>4
  <2>7. ASSUME NEW c \in Calls, FirstClaim(c) PROVE TypeInv'
    BY <2>7, ConfirmShape, MemoryShape DEF FirstClaim, Swap, Requests
  <2>8. ASSUME NEW c \in Calls, Claim(c) PROVE TypeInv'
    BY <2>8, ConfirmShape DEF Claim, Swap, Requests
  <2>9. ASSUME NEW c \in Calls, LoseClaim(c) PROVE TypeInv'
    BY <2>9, MemoryShape DEF LoseClaim
  <2>10. ASSUME NEW c \in Calls, InsertOperation(c) PROVE TypeInv'
    BY <2>10 DEF InsertOperation
  <2>11. ASSUME NEW c \in Calls, GatePasses(c) PROVE TypeInv'
    BY <2>11 DEF GatePasses
  <2>12. ASSUME NEW c \in Calls, GateRefuses(c) PROVE TypeInv'
    <3>1. mem' \in [Calls -> Memory]
      BY <2>12, MemoryShape DEF GateRefuses
    <3>2. TypeOK'
      BY <2>12, <3>1 DEF GateRefuses
    <3>3. mem'[c].outcome = "failed"
      BY <2>12, <3>1 DEF GateRefuses, Memory
    <3>4. \A d \in Calls : d # c => mem'[d] = mem[d]
      BY <2>12 DEF GateRefuses
    <3>5. HandlerOK'
      BY <2>12, <3>3, <3>4 DEF GateRefuses
    <3>6. QED
      BY <3>2, <3>5
  <2>13. ASSUME NEW c \in Calls, Spawn(c) PROVE TypeInv'
    BY <2>13 DEF Spawn, HelperStates
  <2>14. ASSUME NEW c \in Calls, SpawnRefused(c) PROVE TypeInv'
    <3>1. mem' \in [Calls -> Memory]
      BY <2>14, MemoryShape DEF SpawnRefused
    <3>2. TypeOK'
      BY <2>14, <3>1 DEF SpawnRefused
    <3>3. mem'[c].outcome = "failed"
      BY <2>14, <3>1 DEF SpawnRefused, Memory
    <3>4. \A d \in Calls : d # c => mem'[d] = mem[d]
      BY <2>14 DEF SpawnRefused
    <3>5. HandlerOK'
      BY <2>14, <3>3, <3>4 DEF SpawnRefused
    <3>6. QED
      BY <3>2, <3>5
  <2>15. ASSUME NEW c \in Calls, HelperEnds(c) PROVE TypeInv'
    BY <2>15 DEF HelperEnds, HelperStates
  <2>16. ASSUME NEW c \in Calls, Overrun(c) PROVE TypeInv'
    BY <2>16 DEF Overrun
  <2>17. ASSUME NEW c \in Calls, Return(c) PROVE TypeInv'
    <3>1. mem' \in [Calls -> Memory]
      BY <2>17, MemoryShape DEF Return, Verdict
    <3>2. TypeOK'
      BY <2>17, <3>1 DEF Return, Verdict
    <3>3. mem'[c].outcome \in Outcomes
      BY <2>17, <3>1 DEF Return, Verdict, Memory
    <3>4. \A d \in Calls : d # c => mem'[d] = mem[d]
      BY <2>17 DEF Return, Verdict
    <3>5. HandlerOK'
      BY <2>17, <3>3, <3>4 DEF Return, Verdict
    <3>6. QED
      BY <3>2, <3>5
  <2>18. ASSUME NEW c \in Calls, SaveOperation(c) PROVE TypeInv'
    BY <2>18 DEF SaveOperation
  <2>19. ASSUME NEW c \in Calls, SaveConfirmation(c) PROVE TypeInv'
    BY <2>19, ConfirmShape DEF SaveConfirmation, Requests
  <2>20. ASSUME NEW c \in Calls, Audit(c) PROVE TypeInv'
    <3>1. mem' \in [Calls -> Memory]
      BY <2>20, MemoryShape DEF Audit
    <3>2. TypeOK'
      BY <2>20, <3>1 DEF Audit
    <3>3. \A d \in Calls : d # c => mem'[d] = mem[d]
      BY <2>20 DEF Audit
    <3>4. HandlerOK'
      BY <2>20, <3>3 DEF Audit
    <3>5. QED
      BY <3>2, <3>4
  <2>21. ASSUME NEW c \in Calls, Expire(c) PROVE TypeInv'
    BY <2>21 DEF Expire
  <2>22. ASSUME NEW c \in Calls, DatabaseError(c) PROVE TypeInv'
    <3>1. mem' \in [Calls -> Memory]
      BY <2>22, MemoryShape, MaxFaultsAssumption DEF DatabaseError
    <3>2. TypeOK'
      BY <2>22, <3>1, MaxFaultsAssumption DEF DatabaseError
    <3>3. \A d \in Calls : d # c => mem'[d] = mem[d]
      BY <2>22 DEF DatabaseError
    <3>4. HandlerOK'
      BY <2>22, <3>3 DEF DatabaseError
    <3>5. QED
      BY <3>2, <3>4
  <2>23. ASSUME NEW c \in Calls, HelperDies(c) PROVE TypeInv'
    BY <2>23, MaxFaultsAssumption DEF HelperDies, HelperStates
  <2>24. CASE Drift
    <3>1. mem' \in [Calls -> Memory]
      BY <2>24, MemoryShape DEF Drift, InFlight
    <3>2. TypeOK'
      BY <2>24, <3>1 DEF Drift, InFlight
    <3>3. \A d \in Calls : mem'[d].outcome = mem[d].outcome
      BY <2>24, <3>1 DEF Drift, InFlight, Memory
    <3>4. HandlerOK'
      BY <2>24, <3>3 DEF Drift, InFlight
    <3>5. QED
      BY <3>2, <3>4
  <2>25. CASE PanelRestarts
    <3>1. mem' \in [Calls -> Memory]
      BY <2>25, MemoryShape, MaxFaultsAssumption DEF PanelRestarts, InFlight, HelperStates
    <3>2. TypeOK'
      BY <2>25, <3>1, MaxFaultsAssumption DEF PanelRestarts, InFlight, HelperStates
    <3>3. \A d \in Calls : ~(pc'[d] \in {"save_op", "save_conf", "audit"})
      BY <2>25 DEF PanelRestarts, InFlight, HelperStates
    <3>4. HandlerOK'
      BY <2>25, <3>3 DEF PanelRestarts, InFlight, HelperStates
    <3>5. QED
      BY <3>2, <3>4
  <2>26. CASE UNCHANGED vars
    BY <2>26 DEF vars
  <2>27. QED
    BY <2>1, <2>2, <2>3, <2>4, <2>5, <2>6, <2>7, <2>8, <2>9, <2>10, <2>11, <2>12, <2>13,
       <2>14, <2>15, <2>16, <2>17, <2>18, <2>19, <2>20, <2>21, <2>22, <2>23, <2>24, <2>25,
       <2>26 DEF Next, Call, Handler, Fault
<1>3. QED
  BY <1>1, <1>2, PTL DEF Spec

\* Every row, handler and helper run keeps its type.
COROLLARY TypeOKHolds == Spec => []TypeOK
<1>1. TypeInv => TypeOK
  BY DEF TypeInv
<1>2. QED
  BY <1>1, TypeCorrect, PTL

-----------------------------------------------------------------------------
(***************************************************************************)
(* One execution per confirmation.  ExecutedOnce speaks of operation rows  *)
(* only; it is inductive once the requests that have claimed a row but not *)
(* yet inserted theirs are counted too, and once a claimed row is known to *)
(* have left the states a claim starts from.                               *)
(***************************************************************************)

Claims(c, k) ==
    /\ IsConfirm(c)
    /\ req[c].target = k
    /\ pc[c] \in ExecutionSteps \/ opState[c] # "absent"

OneClaim == \A c1, c2, k \in Calls : Claims(c1, k) /\ Claims(c2, k) => c1 = c2
ClaimedRow == \A c, k \in Calls : Claims(c, k) => confState[k] \in Outcomes \cup {"executing"}
RowNotYet == \A c \in Calls : pc[c] \in {"new", "insert_conf"} => confState[c] = "absent"
NotYetRun == \A c \in Calls :
    pc[c] \notin ExecutionSteps \cup {"done"} => opState[c] = "absent"

ClaimInv == OneClaim /\ ClaimedRow /\ RowNotYet /\ NotYetRun

\* A step that leaves the requests and the confirmations alone, and moves the
\* other handlers' rows and counters nowhere new, keeps ClaimInv.
LEMMA ClaimFrame ==
    ASSUME TypeInv, ClaimInv, NEW c \in Calls,
           UNCHANGED <<req, confState>>,
           \A d \in Calls : d # c => pc'[d] = pc[d] /\ opState'[d] = opState[d],
           pc[c] \in ExecutionSteps \/ (pc'[c] \notin ExecutionSteps /\ opState'[c] = opState[c]),
           pc[c] # "new", pc'[c] \notin {"new", "insert_conf"},
           pc'[c] \in ExecutionSteps \cup {"done"} \/ opState'[c] = "absent"
    PROVE  ClaimInv'
<1> USE DEF ClaimInv, OneClaim, ClaimedRow, RowNotYet, NotYetRun
<1>1. \A d, k \in Calls : Claims(d, k)' => Claims(d, k)
  BY DEF Claims, IsConfirm
<1>2. OneClaim' /\ ClaimedRow'
  BY <1>1
<1>3. RowNotYet' /\ NotYetRun'
  OBVIOUS
<1>4. QED
  BY <1>2, <1>3

LEMMA ClaimInitially == Init => ClaimInv
BY DEF Init, ClaimInv, OneClaim, ClaimedRow, RowNotYet, NotYetRun, Claims, ExecutionSteps,
       IsConfirm, NoRequest

LEMMA ClaimStep == TypeInv /\ ClaimInv /\ [Next]_vars => ClaimInv'
<1> SUFFICES ASSUME TypeInv, ClaimInv, [Next]_vars PROVE ClaimInv'
  OBVIOUS
<1> USE DEF Goto, Finish, rows, env
<1>t. /\ pc \in [Calls -> Steps] /\ req \in [Calls -> Requests]
      /\ opState \in [Calls -> OpStates] /\ confState \in [Calls -> ConfStates]
      /\ answer \in [Calls -> Answers]
  BY DEF TypeInv, TypeOK, Requests
<1>k. \A c \in Calls : pc[c] \in ConfirmSteps => IsConfirm(c) /\ req[c].target \in Calls
  BY <1>t, ConfirmShape DEF TypeInv, HandlerOK, IsConfirm
<1>1. ASSUME NEW c \in Calls, Submit(c) PROVE ClaimInv'
  <2>1. ~IsConfirm(c)'
    BY <1>t, <1>1 DEF Submit, Submits, IsConfirm
  <2>2. \A d, k \in Calls : Claims(d, k)' => Claims(d, k)
    BY <1>t, <1>1, <2>1 DEF Submit, Claims, IsConfirm
  <2>3. OneClaim' /\ ClaimedRow'
    BY <1>1, <2>2 DEF ClaimInv, OneClaim, ClaimedRow, Submit
  <2>4. RowNotYet' /\ NotYetRun'
    BY <1>t, <1>1 DEF ClaimInv, RowNotYet, NotYetRun, Submit, ExecutionSteps
  <2>5. QED
    BY <2>3, <2>4 DEF ClaimInv
<1>2. ASSUME NEW c \in Calls, Confirm(c) PROVE ClaimInv'
  <2>1. pc'[c] = "load" /\ opState'[c] = "absent"
    BY <1>t, <1>2 DEF Confirm, ClaimInv, NotYetRun, ExecutionSteps
  <2>2. \A d, k \in Calls : Claims(d, k)' => Claims(d, k)
    BY <1>t, <1>2, <2>1 DEF Confirm, Claims, IsConfirm, ExecutionSteps
  <2>3. OneClaim' /\ ClaimedRow'
    BY <1>2, <2>2 DEF ClaimInv, OneClaim, ClaimedRow, Confirm
  <2>4. RowNotYet' /\ NotYetRun'
    BY <1>t, <1>2, <2>1 DEF ClaimInv, RowNotYet, NotYetRun, Confirm
  <2>5. QED
    BY <2>3, <2>4 DEF ClaimInv
\* The row is new, so nobody has claimed it.
<1>3. ASSUME NEW c \in Calls, InsertConfirmation(c) PROVE ClaimInv'
  <2>1. \A d \in Calls : ~Claims(d, c)
    BY <1>3 DEF InsertConfirmation, ClaimInv, RowNotYet, ClaimedRow, Outcomes
  <2>2. \A d, k \in Calls : Claims(d, k)' => Claims(d, k)
    BY <1>t, <1>3 DEF InsertConfirmation, Claims, IsConfirm, ExecutionSteps
  <2>3. OneClaim' /\ ClaimedRow'
    BY <1>t, <1>3, <2>1, <2>2 DEF ClaimInv, OneClaim, ClaimedRow, InsertConfirmation
  <2>4. RowNotYet' /\ NotYetRun'
    BY <1>t, <1>3 DEF ClaimInv, RowNotYet, NotYetRun, InsertConfirmation, ExecutionSteps
  <2>5. QED
    BY <2>3, <2>4 DEF ClaimInv
\* The row was pending, so nobody had claimed it, and this step does not.
<1>4. ASSUME NEW c \in Calls, FirstClaim(c) PROVE ClaimInv'
  <2> DEFINE k0 == req[c].target
  <2>1. k0 \in Calls /\ confState[k0] = "pending" /\ pc[k0] \notin {"new", "insert_conf"}
    BY <1>t, <1>k, <1>4 DEF FirstClaim, Swap, ConfirmSteps, ClaimInv, RowNotYet
  <2>2. \A d \in Calls : ~Claims(d, k0)
    BY <2>1 DEF ClaimInv, ClaimedRow, Outcomes
  <2>3. \A d, k \in Calls : Claims(d, k)' => Claims(d, k)
    BY <1>t, <1>4 DEF FirstClaim, Swap, Claims, IsConfirm, ExecutionSteps
  <2>4. OneClaim' /\ ClaimedRow'
    BY <1>t, <1>4, <2>1, <2>2, <2>3 DEF ClaimInv, OneClaim, ClaimedRow, FirstClaim, Swap
  <2>5. RowNotYet' /\ NotYetRun'
    BY <1>t, <1>4, <2>1 DEF ClaimInv, RowNotYet, NotYetRun, FirstClaim, Swap, ExecutionSteps
  <2>6. QED
    BY <2>4, <2>5 DEF ClaimInv
\* The compare-and-swap found the row unclaimed: c becomes its only claimant.
<1>5. ASSUME NEW c \in Calls, Claim(c) PROVE ClaimInv'
  <2> DEFINE k0 == req[c].target
  <2>1. k0 \in Calls /\ confState[k0] \in {"pending", "first_confirmed"}
    BY <1>t, <1>k, <1>5 DEF Claim, Swap, Expected, ConfirmSteps
  <2>2. \A d \in Calls : ~Claims(d, k0)
    BY <2>1 DEF ClaimInv, ClaimedRow, Outcomes
  <2>3. \A d, k \in Calls : Claims(d, k)' => Claims(d, k) \/ (d = c /\ k = k0)
    BY <1>t, <1>5 DEF Claim, Swap, Claims, IsConfirm, ExecutionSteps
  <2>4. confState' = [confState EXCEPT ![k0] = "executing"]
    BY <1>5 DEF Claim, Swap
  <2>5. OneClaim' /\ ClaimedRow'
    BY <1>t, <2>1, <2>2, <2>3, <2>4 DEF ClaimInv, OneClaim, ClaimedRow
  <2>6. pc[k0] \notin {"new", "insert_conf"}
    BY <2>1 DEF ClaimInv, RowNotYet
  <2>7. RowNotYet' /\ NotYetRun'
    BY <1>t, <1>5, <2>1, <2>4, <2>6 DEF ClaimInv, RowNotYet, NotYetRun, Claim, ExecutionSteps
  <2>8. QED
    BY <2>5, <2>7 DEF ClaimInv
\* Only the claimant writes the outcome into its row.
<1>6. ASSUME NEW c \in Calls, SaveConfirmation(c) PROVE ClaimInv'
  <2> DEFINE k0 == req[c].target
  <2>1. k0 \in Calls /\ Claims(c, k0) /\ mem[c].outcome \in Outcomes
    BY <1>t, <1>k, <1>6 DEF SaveConfirmation, Claims, ExecutionSteps, ConfirmSteps, TypeInv,
                            HandlerOK
  <2>2. pc[k0] \notin {"new", "insert_conf"}
    BY <2>1 DEF ClaimInv, RowNotYet, ClaimedRow, Outcomes
  <2>3. \A d, k \in Calls : Claims(d, k)' => Claims(d, k)
    BY <1>t, <1>6 DEF SaveConfirmation, Claims, IsConfirm, ExecutionSteps
  <2>4. OneClaim' /\ ClaimedRow'
    BY <1>t, <1>6, <2>1, <2>3 DEF ClaimInv, OneClaim, ClaimedRow, SaveConfirmation
  <2>5. RowNotYet' /\ NotYetRun'
    BY <1>t, <1>6, <2>1, <2>2 DEF ClaimInv, RowNotYet, NotYetRun, SaveConfirmation,
                                  ExecutionSteps
  <2>6. QED
    BY <2>4, <2>5 DEF ClaimInv
<1>7. ASSUME NEW c \in Calls, AuditConfirmation(c) \/ Load(c) \/ Review(c) \/ LoseClaim(c)
                              \/ DatabaseError(c)
      PROVE ClaimInv'
  <2>1. /\ UNCHANGED <<req, confState, opState>>
        /\ pc[c] # "new"
        /\ pc'[c] \in {"review", "first_claim", "claim", "done"}
        /\ pc'[c] = "done" \/ pc[c] \in {"load", "review"}
        /\ \A d \in Calls : d # c => pc'[d] = pc[d]
    BY <1>t, <1>7 DEF AuditConfirmation, Load, Review, LoseClaim, DatabaseError
  <2>2. pc'[c] = "done" \/ opState'[c] = "absent"
    BY <2>1 DEF ClaimInv, NotYetRun, ExecutionSteps
  <2>3. QED
    BY <2>1, <2>2, ClaimFrame DEF ExecutionSteps
<1>8. ASSUME NEW c \in Calls, InsertOperation(c) \/ GatePasses(c) \/ GateRefuses(c)
                              \/ Spawn(c) \/ SpawnRefused(c) \/ Overrun(c) \/ Return(c)
                              \/ SaveOperation(c) \/ Audit(c)
      PROVE ClaimInv'
  <2>1. /\ UNCHANGED <<req, confState>>
        /\ pc[c] \in ExecutionSteps
        /\ pc'[c] \in ExecutionSteps \cup {"done"}
        /\ \A d \in Calls : d # c => pc'[d] = pc[d] /\ opState'[d] = opState[d]
    BY <1>t, <1>8 DEF InsertOperation, GatePasses, GateRefuses, Spawn, SpawnRefused, Overrun,
                      Return, SaveOperation, Audit, ExecutionSteps
  <2>2. QED
    BY <2>1, ClaimFrame DEF ExecutionSteps
<1>9. ASSUME UNCHANGED <<pc, req, confState, opState>> PROVE ClaimInv'
  BY <1>9 DEF ClaimInv, OneClaim, ClaimedRow, RowNotYet, NotYetRun, Claims, IsConfirm
<1>10. ASSUME NEW c \in Calls, HelperEnds(c) \/ HelperDies(c) \/ Expire(c) PROVE ClaimInv'
  BY <1>9, <1>10 DEF HelperEnds, HelperDies, Expire
<1>11. CASE Drift
  BY <1>9, <1>11 DEF Drift
<1>12. CASE PanelRestarts
  <2>1. /\ UNCHANGED <<req, confState, opState>>
        /\ \A d \in Calls : pc'[d] = pc[d] \/ pc'[d] = "done"
    BY <1>t, <1>12 DEF PanelRestarts
  <2>2. \A d, k \in Calls : Claims(d, k)' => Claims(d, k)
    BY <2>1 DEF Claims, IsConfirm, ExecutionSteps
  <2>3. QED
    BY <2>1, <2>2 DEF ClaimInv, OneClaim, ClaimedRow, RowNotYet, NotYetRun
<1>13. CASE UNCHANGED vars
  BY <1>9, <1>13 DEF vars
<1>14. QED
  BY <1>1, <1>2, <1>3, <1>4, <1>5, <1>6, <1>7, <1>8, <1>10, <1>11, <1>12, <1>13
     DEF Next, Call, Handler, Fault

\* However many requests, restarts and database errors there are, _execute
\* runs at most once for a confirmation.
THEOREM ExecutedOnceHolds == Spec => []ExecutedOnce
<1>1. ClaimInv => ExecutedOnce
  BY DEF ClaimInv, OneClaim, Claims, ExecutedOnce, ExecutesFor
<1>2. QED
  BY <1>1, ClaimInitially, ClaimStep, TypeCorrect, PTL DEF Spec

\* The helper's lock keeps root helper runs apart, also around a restart of the
\* panel that leaves one running.
THEOREM HelperSerializedHolds == Spec => []HelperSerialized
<1>1. Init => HelperSerialized
  BY DEF Init, HelperSerialized
<1>2. TypeInv /\ HelperSerialized /\ [Next]_vars => HelperSerialized'
  <2> SUFFICES ASSUME TypeInv, HelperSerialized, [Next]_vars PROVE HelperSerialized'
    OBVIOUS
  <2> USE DEF HelperSerialized
  <2>t. helper \in [Calls -> HelperStates]
    BY DEF TypeInv, TypeOK
  <2>1. ASSUME NEW c \in Calls, Spawn(c) PROVE HelperSerialized'
    BY <2>t, <2>1 DEF Spawn, LockHeld
  <2>2. ASSUME \A o \in Calls : helper'[o] = "running" => helper[o] = "running"
        PROVE  HelperSerialized'
    BY <2>2
  <2>3. ASSUME NEW c \in Calls, HelperEnds(c) \/ HelperDies(c) PROVE HelperSerialized'
    BY <2>t, <2>2, <2>3 DEF HelperEnds, HelperDies
  <2>4. CASE PanelRestarts
    BY <2>t, <2>2, <2>4 DEF PanelRestarts
  <2>5. CASE UNCHANGED helper
    BY <2>2, <2>5
  <2>6. ASSUME NEW c \in Calls,
               Submit(c) \/ Confirm(c) \/ InsertConfirmation(c) \/ AuditConfirmation(c)
               \/ Load(c) \/ Review(c) \/ FirstClaim(c) \/ Claim(c) \/ LoseClaim(c)
               \/ InsertOperation(c) \/ GatePasses(c) \/ GateRefuses(c) \/ SpawnRefused(c)
               \/ Overrun(c) \/ Return(c) \/ SaveOperation(c) \/ SaveConfirmation(c)
               \/ Audit(c) \/ Expire(c) \/ DatabaseError(c)
        PROVE  UNCHANGED helper
    BY <2>6 DEF Submit, Confirm, InsertConfirmation, AuditConfirmation, Load, Review,
                FirstClaim, Claim, LoseClaim, InsertOperation, GatePasses, GateRefuses,
                SpawnRefused, Overrun, Return, SaveOperation, SaveConfirmation, Audit,
                Expire, DatabaseError
  <2>7. QED
    BY <2>1, <2>3, <2>4, <2>5, <2>6 DEF Next, Call, Handler, Fault, Drift, vars
<1>3. QED
  BY <1>1, <1>2, TypeCorrect, PTL DEF Spec

-----------------------------------------------------------------------------
(***************************************************************************)
(* Two approvals.  TwoApprovals speaks of the operation row; its reasons   *)
(* lie in earlier steps of two requests: the owner is compared at Load,    *)
(* the flag and the name at Review, and the first approval was another     *)
(* request's.  Each is carried along until the row is there.               *)
(***************************************************************************)

Cleared(c) == pc[c] = "claim" \/ pc[c] \in ExecutionSteps \/ opState[c] # "absent"
Loaded(c) == pc[c] \in {"review", "first_claim"} \/ Cleared(c)
OwnTarget(c) == req[c].user = req[req[c].target].user
Signed(c) == req[req[c].target].risk = "high" => req[c].second /\ req[c].named

\* f is the first approval of k: it ended there and executed nothing.
Approves(f, k) ==
    /\ answer[f] = "second_confirmation_required"
    /\ IsConfirm(f) /\ req[f].target = k /\ req[f].user = req[k].user
    /\ opState[f] = "absent"

Approved1(k) ==
    confState[k] \in {"first_confirmed", "executing"} \cup Outcomes /\ req[k].risk = "high"

Answered == \A c \in Calls : answer[c] # "none" => pc[c] = "done"
Targeted == \A c \in Calls : IsConfirm(c) => pc[c] # "new" /\ pc[req[c].target] # "new"
Owned == \A c \in Calls : IsConfirm(c) /\ Loaded(c) => OwnTarget(c)
Entitled == \A c \in Calls : IsConfirm(c) /\ Cleared(c) => Signed(c)
FirstGiven == \A k \in Calls : Approved1(k) => \E f \in Calls : Approves(f, k)

ApprovalInv == Answered /\ Targeted /\ Owned /\ Entitled /\ FirstGiven

LEMMA ApprovalInitially == Init => ApprovalInv
BY DEF Init, ApprovalInv, Answered, Targeted, Owned, Entitled, FirstGiven, Approved1, IsConfirm,
       NoRequest, Outcomes

\* A step after which every request is what it was, an answer given stays, and
\* whatever is newly loaded, cleared or approved has its reason.
LEMMA ApprovalFrame ==
    ASSUME TypeInv, ApprovalInv, UNCHANGED req,
           \A d \in Calls : pc[d] # "new" => pc'[d] # "new",
           \A d \in Calls : answer'[d] # "none" => pc'[d] = "done",
           \A d \in Calls : answer[d] # "none" =>
               answer'[d] = answer[d] /\ opState'[d] = opState[d],
           \A d \in Calls : IsConfirm(d) /\ Loaded(d)' => Loaded(d) \/ OwnTarget(d),
           \A d \in Calls : IsConfirm(d) /\ Cleared(d)' => Cleared(d) \/ Signed(d),
           \A k \in Calls : Approved1(k)' => Approved1(k) \/ \E f \in Calls : Approves(f, k)'
    PROVE  ApprovalInv'
<1>t. req \in [Calls -> Requests]
  BY DEF TypeInv, TypeOK, Requests
<1>1. Answered'
  BY DEF Answered
<1>2. Targeted'
  <2> SUFFICES ASSUME NEW c \in Calls, IsConfirm(c)' PROVE pc'[c] # "new" /\ pc'[req'[c].target] # "new"
    BY DEF Targeted
  <2>1. IsConfirm(c) /\ req[c].target \in Calls
    BY <1>t, ConfirmShape DEF IsConfirm
  <2> QED
    BY <2>1 DEF ApprovalInv, Targeted
<1>3. Owned'
  BY DEF ApprovalInv, Owned, OwnTarget, IsConfirm
<1>4. Entitled'
  BY DEF ApprovalInv, Entitled, Signed, IsConfirm
<1>5. FirstGiven'
  <2> SUFFICES ASSUME NEW k \in Calls, Approved1(k)' PROVE \E f \in Calls : Approves(f, k)'
    BY DEF FirstGiven
  <2>1. CASE Approved1(k)
    <3>1. PICK f \in Calls : Approves(f, k)
      BY <2>1 DEF ApprovalInv, FirstGiven
    <3>2. Approves(f, k)'
      BY <3>1 DEF Approves, IsConfirm
    <3> QED
      BY <3>2
  <2> QED
    BY <2>1
<1> QED
  BY <1>1, <1>2, <1>3, <1>4, <1>5 DEF ApprovalInv

LEMMA ApprovalStep == TypeInv /\ ClaimInv /\ ApprovalInv /\ [Next]_vars => ApprovalInv'
<1> SUFFICES ASSUME TypeInv, ClaimInv, ApprovalInv, [Next]_vars PROVE ApprovalInv'
  OBVIOUS
<1> USE DEF Goto, Finish, rows, env
<1>t. /\ pc \in [Calls -> Steps] /\ req \in [Calls -> Requests]
      /\ opState \in [Calls -> OpStates] /\ confState \in [Calls -> ConfStates]
      /\ answer \in [Calls -> Answers]
  BY DEF TypeInv, TypeOK, Requests
<1>k. \A c \in Calls : IsConfirm(c) => req[c].target \in Calls
  BY <1>t, ConfirmShape DEF IsConfirm
<1>c. \A c \in Calls : pc[c] \in ConfirmSteps => IsConfirm(c)
  BY DEF TypeInv, HandlerOK
\* A new request: nobody speaks of its number yet, and it has done nothing.
<1>1. ASSUME NEW c \in Calls, Submit(c) \/ Confirm(c) PROVE ApprovalInv'
  <2>1. /\ pc[c] = "new" /\ pc'[c] \in {"insert_op", "insert_conf", "load"}
        /\ \A d \in Calls : d # c => pc'[d] = pc[d] /\ req'[d] = req[d]
        /\ UNCHANGED <<answer, opState, confState>>
    BY <1>t, <1>1 DEF Submit, Confirm
  <2>2. /\ confState[c] = "absent" /\ opState[c] = "absent" /\ answer[c] = "none"
        /\ ~IsConfirm(c) /\ \A d \in Calls : IsConfirm(d) => req[d].target # c
    BY <1>k, <2>1 DEF ClaimInv, RowNotYet, NotYetRun, ApprovalInv, Answered, Targeted,
                     ExecutionSteps
  <2>3. IsConfirm(c)' => /\ pc'[c] = "load" /\ req'[c].target \in Calls
                         /\ pc[req'[c].target] # "new"
    <3>1. CASE Submit(c)
      BY <1>t, <3>1 DEF Submit, Submits, IsConfirm
    <3>2. CASE Confirm(c)
      BY <1>t, <3>2 DEF Confirm, Confirms, ApprovalInv, Answered
    <3> QED
      BY <1>1, <3>1, <3>2
  <2>4. \A d \in Calls : d # c => /\ IsConfirm(d)' <=> IsConfirm(d)
                                  /\ IsConfirm(d) => req[d].target \in Calls /\ req[d].target # c
    BY <1>k, <2>1, <2>2 DEF IsConfirm
  <2>5. Answered'
    BY <2>1, <2>2 DEF ApprovalInv, Answered
  <2>6. Targeted'
    <3> SUFFICES ASSUME NEW d \in Calls, IsConfirm(d)'
                 PROVE  pc'[d] # "new" /\ pc'[req'[d].target] # "new"
      BY DEF Targeted
    <3>1. CASE d = c
      BY <2>1, <2>3, <3>1
    <3>2. CASE d # c
      BY <2>1, <2>4, <3>2 DEF ApprovalInv, Targeted
    <3> QED
      BY <3>1, <3>2
  <2>7. Owned' /\ Entitled'
    <3> SUFFICES ASSUME NEW d \in Calls, IsConfirm(d)'
                 PROVE  (Loaded(d)' => OwnTarget(d)') /\ (Cleared(d)' => Signed(d)')
      BY DEF Owned, Entitled
    <3>1. CASE d = c
      BY <2>1, <2>2, <2>3, <3>1 DEF Loaded, Cleared, ExecutionSteps
    <3>2. CASE d # c
      <4>1. /\ Loaded(d)' <=> Loaded(d)
            /\ Cleared(d)' <=> Cleared(d)
        BY <2>1, <3>2 DEF Loaded, Cleared
      <4>2. req'[d] = req[d] /\ req'[req'[d].target] = req[req[d].target]
        BY <2>1, <2>4, <3>2
      <4> QED
        BY <2>4, <3>2, <4>1, <4>2 DEF ApprovalInv, Owned, Entitled, OwnTarget, Signed
    <3> QED
      BY <3>1, <3>2
  <2>8. FirstGiven'
    <3> SUFFICES ASSUME NEW k \in Calls, Approved1(k)' PROVE \E f \in Calls : Approves(f, k)'
      BY DEF FirstGiven
    <3>1. k # c
      BY <2>1, <2>2 DEF Approved1, Outcomes
    <3>2. PICK f \in Calls : Approves(f, k)
      BY <2>1, <3>1 DEF ApprovalInv, FirstGiven, Approved1
    <3>3. Approves(f, k)'
      BY <2>1, <2>2, <3>1, <3>2 DEF Approves, IsConfirm
    <3> QED
      BY <3>3
  <2> QED
    BY <2>5, <2>6, <2>7, <2>8 DEF ApprovalInv
\* Steps of one handler: c moves on, the others stay.
<1>2. ASSUME NEW c \in Calls, UNCHANGED req,
             \A d \in Calls : d # c =>
                 pc'[d] = pc[d] /\ answer'[d] = answer[d] /\ opState'[d] = opState[d],
             pc[c] \notin {"new", "done"}, pc'[c] # "new",
             answer'[c] = answer[c] \/ pc'[c] = "done",
             IsConfirm(c) /\ Loaded(c)' => Loaded(c) \/ OwnTarget(c),
             IsConfirm(c) /\ Cleared(c)' => Cleared(c) \/ Signed(c),
             \A k \in Calls : Approved1(k)' => Approved1(k) \/ \E f \in Calls : Approves(f, k)'
      PROVE  ApprovalInv'
  <2>1. answer[c] = "none"
    BY <1>2 DEF ApprovalInv, Answered
  <2>2. \A d \in Calls : pc[d] # "new" => pc'[d] # "new"
    BY <1>2
  <2>3. \A d \in Calls : answer'[d] # "none" => pc'[d] = "done"
    BY <1>2, <2>1 DEF ApprovalInv, Answered
  <2>4. \A d \in Calls : d # c => (Loaded(d)' <=> Loaded(d)) /\ (Cleared(d)' <=> Cleared(d))
    BY <1>2 DEF Loaded, Cleared
  <2> QED
    BY <1>2, <2>1, <2>2, <2>3, <2>4, ApprovalFrame
<1>3. ASSUME UNCHANGED <<req, confState>> PROVE \A k \in Calls : Approved1(k)' => Approved1(k)
  BY <1>3 DEF Approved1
<1>4. ASSUME NEW c \in Calls, AuditConfirmation(c) \/ LoseClaim(c) \/ DatabaseError(c)
      PROVE  ApprovalInv'
  <2>1. /\ UNCHANGED <<req, confState, opState>>
        /\ pc[c] \notin {"new", "done"} /\ pc'[c] = "done"
        /\ \A d \in Calls : d # c => pc'[d] = pc[d] /\ answer'[d] = answer[d]
    BY <1>t, <1>4 DEF AuditConfirmation, LoseClaim, DatabaseError
  <2>2. (Loaded(c)' => Loaded(c)) /\ (Cleared(c)' => Cleared(c))
    BY <2>1 DEF Loaded, Cleared, ExecutionSteps
  <2> QED
    BY <1>2, <1>3, <2>1, <2>2
<1>5. ASSUME NEW c \in Calls, Load(c) PROVE ApprovalInv'
  <2>1. /\ UNCHANGED <<req, confState, opState>>
        /\ pc[c] = "load" /\ pc'[c] \in {"review", "done"}
        /\ answer'[c] = answer[c] \/ pc'[c] = "done"
        /\ \A d \in Calls : d # c => pc'[d] = pc[d] /\ answer'[d] = answer[d]
        /\ pc'[c] = "review" => req[req[c].target].user = req[c].user
    BY <1>t, <1>5 DEF Load
  <2>2. (Loaded(c)' => Loaded(c) \/ OwnTarget(c)) /\ (Cleared(c)' => Cleared(c))
    BY <2>1 DEF Loaded, Cleared, OwnTarget, ExecutionSteps
  <2> QED
    BY <1>2, <1>3, <2>1, <2>2
<1>6. ASSUME NEW c \in Calls, Review(c) PROVE ApprovalInv'
  <2>1. /\ UNCHANGED <<req, confState, opState>>
        /\ pc[c] = "review" /\ pc'[c] \in {"first_claim", "claim", "done"}
        /\ answer'[c] = answer[c] \/ pc'[c] = "done"
        /\ \A d \in Calls : d # c => pc'[d] = pc[d] /\ answer'[d] = answer[d]
        /\ pc'[c] = "claim" => MayClaim(c)
    BY <1>t, <1>6 DEF Review
  <2>2. (Loaded(c)' => Loaded(c)) /\ (Cleared(c)' => Cleared(c) \/ Signed(c))
    BY <2>1 DEF Loaded, Cleared, Signed, MayClaim, ExecutionSteps
  <2> QED
    BY <1>2, <1>3, <2>1, <2>2
<1>7. ASSUME NEW c \in Calls, InsertConfirmation(c) PROVE ApprovalInv'
  <2>1. /\ UNCHANGED <<req, answer, opState>>
        /\ pc[c] = "insert_conf" /\ pc'[c] = "audit_conf"
        /\ confState' = [confState EXCEPT ![c] = "pending"]
        /\ \A d \in Calls : d # c => pc'[d] = pc[d]
    BY <1>t, <1>7 DEF InsertConfirmation
  <2>2. (Loaded(c)' => Loaded(c)) /\ (Cleared(c)' => Cleared(c))
    BY <2>1 DEF Loaded, Cleared, ExecutionSteps
  <2>3. \A k \in Calls : Approved1(k)' => Approved1(k)
    BY <1>t, <2>1 DEF Approved1, Outcomes
  <2> QED
    BY <1>2, <2>1, <2>2, <2>3
\* The first approval: c itself is the request that gave it.
<1>8. ASSUME NEW c \in Calls, FirstClaim(c) PROVE ApprovalInv'
  <2> DEFINE k0 == req[c].target
  <2>0. IsConfirm(c) /\ k0 \in Calls /\ pc[c] = "first_claim"
    BY <1>k, <1>c, <1>8 DEF FirstClaim, ConfirmSteps
  <2>1. /\ UNCHANGED <<req, opState>>
        /\ pc'[c] = "done" /\ answer'[c] = "second_confirmation_required"
        /\ confState' = [confState EXCEPT ![k0] = "first_confirmed"]
        /\ \A d \in Calls : d # c => pc'[d] = pc[d] /\ answer'[d] = answer[d]
    BY <1>t, <1>8 DEF FirstClaim, Swap
  <2>2. (Loaded(c)' => Loaded(c)) /\ (Cleared(c)' => Cleared(c))
    BY <2>0, <2>1 DEF Loaded, Cleared, ExecutionSteps
  <2>3. opState[c] = "absent" /\ req[c].user = req[k0].user
    BY <2>0 DEF ClaimInv, NotYetRun, ExecutionSteps, ApprovalInv, Owned, Loaded, OwnTarget
  <2>4. Approves(c, k0)'
    BY <2>0, <2>1, <2>3 DEF Approves, IsConfirm
  <2>5. \A k \in Calls : Approved1(k)' => Approved1(k) \/ k = k0
    BY <1>t, <2>1 DEF Approved1
  <2> QED
    BY <1>2, <2>0, <2>1, <2>2, <2>4, <2>5
\* A high-risk row was approved before.
<1>9. ASSUME NEW c \in Calls, Claim(c) PROVE ApprovalInv'
  <2> DEFINE k0 == req[c].target
  <2>1. /\ UNCHANGED <<req, opState, answer>>
        /\ pc[c] = "claim" /\ pc'[c] = "insert_op"
        /\ confState' = [confState EXCEPT ![k0] = "executing"]
        /\ req[k0].risk = "high" => confState[k0] = "first_confirmed"
        /\ \A d \in Calls : d # c => pc'[d] = pc[d]
    BY <1>t, <1>9 DEF Claim, Swap, Expected
  <2>2. (Loaded(c)' => Loaded(c)) /\ (Cleared(c)' => Cleared(c))
    BY <2>1 DEF Loaded, Cleared
  <2>3. \A k \in Calls : Approved1(k)' => Approved1(k)
    BY <1>t, <2>1 DEF Approved1
  <2> QED
    BY <1>2, <2>1, <2>2, <2>3
\* The outcome is written into a row that was claimed, and so was approved.
<1>10. ASSUME NEW c \in Calls, SaveConfirmation(c) PROVE ApprovalInv'
  <2> DEFINE k0 == req[c].target
  <2>1. /\ UNCHANGED <<req, opState, answer>>
        /\ pc[c] = "save_conf" /\ pc'[c] = "audit"
        /\ confState' = [confState EXCEPT ![k0] = mem[c].outcome]
        /\ \A d \in Calls : d # c => pc'[d] = pc[d]
    BY <1>t, <1>10 DEF SaveConfirmation
  <2>2. (Loaded(c)' => Loaded(c)) /\ (Cleared(c)' => Cleared(c))
    BY <2>1 DEF Loaded, Cleared, ExecutionSteps
  <2>3. k0 \in Calls /\ confState[k0] \in Outcomes \cup {"executing"}
    BY <1>k, <1>c, <2>1 DEF ConfirmSteps, ClaimInv, ClaimedRow, Claims, ExecutionSteps
  <2>4. \A k \in Calls : Approved1(k)' => Approved1(k)
    BY <1>t, <2>1, <2>3 DEF Approved1
  <2> QED
    BY <1>2, <2>1, <2>2, <2>4
<1>11. ASSUME NEW c \in Calls, InsertOperation(c) \/ GatePasses(c) \/ GateRefuses(c)
                              \/ Spawn(c) \/ SpawnRefused(c) \/ Overrun(c) \/ Return(c)
                              \/ SaveOperation(c) \/ Audit(c)
       PROVE  ApprovalInv'
  <2>1. /\ UNCHANGED <<req, confState>>
        /\ pc[c] \in ExecutionSteps /\ pc'[c] \in ExecutionSteps \cup {"done"}
        /\ answer'[c] = answer[c] \/ pc'[c] = "done"
        /\ \A d \in Calls : d # c =>
               pc'[d] = pc[d] /\ answer'[d] = answer[d] /\ opState'[d] = opState[d]
    BY <1>t, <1>11 DEF InsertOperation, GatePasses, GateRefuses, Spawn, SpawnRefused, Overrun,
                      Return, SaveOperation, Audit, ExecutionSteps
  <2>2. Loaded(c) /\ Cleared(c) /\ pc[c] \notin {"new", "done"} /\ pc'[c] # "new"
    BY <2>1 DEF Loaded, Cleared, ExecutionSteps
  <2> QED
    BY <1>2, <1>3, <2>1, <2>2
<1>12. ASSUME UNCHANGED <<req, confState, opState, answer>>,
              \A d \in Calls : pc'[d] = pc[d] \/ (pc[d] # "new" /\ pc'[d] = "done")
       PROVE  ApprovalInv'
  <2>1. \A d \in Calls : (Loaded(d)' => Loaded(d)) /\ (Cleared(d)' => Cleared(d))
    BY <1>12 DEF Loaded, Cleared, ExecutionSteps
  <2>2. \A d \in Calls : answer'[d] # "none" => pc'[d] = "done"
    BY <1>12 DEF ApprovalInv, Answered
  <2>3. \A d \in Calls : pc[d] # "new" => pc'[d] # "new"
    BY <1>12
  <2> QED
    BY <1>3, <1>12, <2>1, <2>2, <2>3, ApprovalFrame
<1>13. ASSUME NEW c \in Calls, HelperEnds(c) \/ HelperDies(c) \/ Expire(c) PROVE ApprovalInv'
  <2>1. /\ UNCHANGED <<req, confState, opState, answer>>
        /\ \A d \in Calls : pc'[d] = pc[d] \/ (pc[d] # "new" /\ pc'[d] = "done")
    BY <1>13 DEF HelperEnds, HelperDies, Expire
  <2> QED
    BY <1>12, <2>1
<1>14. CASE Drift
  <2>1. /\ UNCHANGED <<req, confState, opState, answer>>
        /\ \A d \in Calls : pc'[d] = pc[d] \/ (pc[d] # "new" /\ pc'[d] = "done")
    BY <1>14 DEF Drift
  <2> QED
    BY <1>12, <2>1
<1>15. CASE PanelRestarts
  <2>1. /\ UNCHANGED <<req, confState, opState, answer>>
        /\ \A d \in Calls : pc'[d] = pc[d] \/ (pc[d] # "new" /\ pc'[d] = "done")
    BY <1>t, <1>15 DEF PanelRestarts, InFlight
  <2> QED
    BY <1>12, <2>1
<1>16. CASE UNCHANGED vars
  <2>1. /\ UNCHANGED <<req, confState, opState, answer>>
        /\ \A d \in Calls : pc'[d] = pc[d] \/ (pc[d] # "new" /\ pc'[d] = "done")
    BY <1>16 DEF vars
  <2> QED
    BY <1>12, <2>1
<1> QED
  BY <1>1, <1>4, <1>5, <1>6, <1>7, <1>8, <1>9, <1>10, <1>11, <1>13, <1>14, <1>15, <1>16
     DEF Next, Call, Handler, Fault

\* operations.py:164-212: a high-risk confirmation is executed only after two
\* requests of its owner, for any number of users, requests and faults.
THEOREM TwoApprovalsHolds == Spec => []TwoApprovals
<1>1. ClaimInv /\ ApprovalInv => TwoApprovals
  <2> SUFFICES ASSUME ClaimInv, ApprovalInv, NEW k \in Calls, NEW o \in Calls, ExecutesFor(o, k)
               PROVE  /\ req[o].user = req[k].user
                      /\ req[k].risk = "high" =>
                           /\ req[o].second /\ req[o].named
                           /\ \E first \in Calls \ {o} :
                                /\ answer[first] = "second_confirmation_required"
                                /\ req[first].target = k
                                /\ req[first].user = req[k].user
    BY DEF TwoApprovals
  <2>1. IsConfirm(o) /\ req[o].target = k /\ opState[o] # "absent" /\ Cleared(o) /\ Loaded(o)
    BY DEF ExecutesFor, Cleared, Loaded
  <2>2. OwnTarget(o) /\ Signed(o)
    BY <2>1 DEF ApprovalInv, Owned, Entitled
  <2>3. confState[k] \in Outcomes \cup {"executing"}
    BY <2>1 DEF ClaimInv, ClaimedRow, Claims
  <2>4. ASSUME req[k].risk = "high" PROVE \E f \in Calls : Approves(f, k)
    BY <2>3, <2>4 DEF ApprovalInv, FirstGiven, Approved1
  <2> QED
    BY <2>1, <2>2, <2>4 DEF OwnTarget, Signed, Approves
<1>2. TypeInv /\ ClaimInv /\ ApprovalInv /\ [Next]_vars => ClaimInv' /\ ApprovalInv'
  BY ClaimStep, ApprovalStep
<1> QED
  BY <1>1, <1>2, ClaimInitially, ApprovalInitially, TypeCorrect, PTL DEF Spec

-----------------------------------------------------------------------------
(***************************************************************************)
(* No false success.  Rows, audit and answer are written one after the     *)
(* other from one local; Truth says of each step what is already so, and   *)
(* that it stays so rests on a row having one claimant.                    *)
(***************************************************************************)

Truth(c) ==
    /\ pc[c] = "insert_op" => opState[c] = "absent"
    /\ pc[c] \in {"gate", "spawn", "wait", "overdue", "save_op"} => opState[c] = "executing"
    /\ pc[c] \in {"save_conf", "audit"} => opState[c] = mem[c].outcome
    /\ pc[c] \in {"save_op", "save_conf", "audit"} /\ mem[c].outcome = "succeeded"
          => helper[c] = "ok"
    /\ opState[c] = "succeeded" => helper[c] = "ok"
    /\ pc[c] = "audit" /\ IsConfirm(c) => confState[req[c].target] = mem[c].outcome
    /\ answer[c] \in Outcomes =>
          /\ opState[c] = answer[c]
          /\ <<c, answer[c]>> \in audited
          /\ IsConfirm(c) => confState[req[c].target] = answer[c]

Told(k) ==
    confState[k] \in Outcomes => \E o \in Calls : ExecutesFor(o, k) /\ opState[o] = confState[k]

TruthInv == (\A c \in Calls : Truth(c)) /\ (\A k \in Calls : Told(k))

LEMMA TruthInitially == Init => TruthInv
BY DEF Init, TruthInv, Truth, Told, Outcomes

\* A step of one call c that writes into no row another call has claimed, and
\* changes no outcome of its own.
LEMMA TruthFrame ==
    ASSUME TypeInv, TruthInv, NEW c \in Calls, UNCHANGED req, audited \subseteq audited',
           \A d \in Calls : d # c =>
               /\ pc'[d] = pc[d] /\ opState'[d] = opState[d] /\ answer'[d] = answer[d]
               /\ helper'[d] = helper[d] /\ mem'[d].outcome = mem[d].outcome,
           \A d, k \in Calls : d # c /\ Claims(d, k) => confState'[k] = confState[k],
           Truth(c)',
           opState[c] \in Outcomes => opState'[c] = opState[c],
           \A k \in Calls : confState'[k] \in Outcomes =>
               confState'[k] = confState[k] \/ (ExecutesFor(c, k)' /\ opState'[c] = confState'[k])
    PROVE  TruthInv'
<1>k. \A d \in Calls : IsConfirm(d) => req[d].target \in Calls
  BY ConfirmShape DEF IsConfirm, TypeInv, TypeOK, Requests
<1>1. ASSUME NEW d \in Calls, d # c PROVE Truth(d)'
  <2>0. Truth(d)
    BY DEF TruthInv
  <2>1. ASSUME IsConfirm(d), pc[d] = "audit" \/ answer[d] \in Outcomes
        PROVE  confState'[req[d].target] = confState[req[d].target]
    <3>1. Claims(d, req[d].target)
      BY <2>0, <2>1 DEF Truth, Claims, ExecutionSteps, Outcomes
    <3> QED
      BY <1>k, <1>1, <2>1, <3>1
  <2> QED
    BY <1>1, <2>0, <2>1 DEF Truth, IsConfirm
<1>2. ASSUME NEW k \in Calls PROVE Told(k)'
  <2>1. CASE confState'[k] \in Outcomes /\ confState'[k] = confState[k]
    <3>1. PICK o \in Calls : ExecutesFor(o, k) /\ opState[o] = confState[k]
      BY <2>1 DEF TruthInv, Told
    <3>2. opState'[o] = opState[o]
      BY <2>1, <3>1
    <3> QED
      BY <2>1, <3>1, <3>2 DEF Told, ExecutesFor, IsConfirm
  <2> QED
    BY <2>1 DEF Told
<1> QED
  BY <1>1, <1>2 DEF TruthInv

LEMMA TruthStep == TypeInv /\ ClaimInv /\ ApprovalInv /\ TruthInv /\ [Next]_vars => TruthInv'
<1> SUFFICES ASSUME TypeInv, ClaimInv, ApprovalInv, TruthInv, [Next]_vars PROVE TruthInv'
  OBVIOUS
<1> USE DEF Goto, Finish, rows, env
<1>t. /\ pc \in [Calls -> Steps] /\ req \in [Calls -> Requests]
      /\ opState \in [Calls -> OpStates] /\ confState \in [Calls -> ConfStates]
      /\ answer \in [Calls -> Answers] /\ helper \in [Calls -> HelperStates]
      /\ mem \in [Calls -> Memory]
  BY DEF TypeInv, TypeOK, Requests
<1>k. \A c \in Calls : IsConfirm(c) => req[c].target \in Calls
  BY <1>t, ConfirmShape DEF IsConfirm
<1>c. \A c \in Calls : pc[c] \in ConfirmSteps => IsConfirm(c)
  BY DEF TypeInv, HandlerOK
<1>a. \A c \in Calls : pc[c] # "done" => answer[c] = "none"
  BY DEF ApprovalInv, Answered
<1>m. \A c \in Calls, o \in Outcomes :
        /\ [mem[c] EXCEPT !.outcome = o].outcome = o
        /\ \A s \in ConfStates : [mem[c] EXCEPT !.state = s].outcome = mem[c].outcome
        /\ \A b \in BOOLEAN : /\ [mem[c] EXCEPT !.late = b].outcome = mem[c].outcome
                              /\ [mem[c] EXCEPT !.moved = b].outcome = mem[c].outcome
  BY <1>t DEF Memory
<1>n. NoMemory.outcome = "none"
  BY DEF NoMemory
\* A new request has written nothing and nobody has its number.
<1>1. ASSUME NEW c \in Calls, Submit(c) \/ Confirm(c) PROVE TruthInv'
  <2>1. /\ pc[c] = "new" /\ pc'[c] \in {"insert_op", "insert_conf", "load"}
        /\ \A d \in Calls : d # c => pc'[d] = pc[d] /\ req'[d] = req[d]
        /\ UNCHANGED <<answer, mem, helper, audited, opState, confState>>
    BY <1>t, <1>1 DEF Submit, Confirm
  <2>2. opState[c] = "absent" /\ answer[c] = "none"
    BY <1>a, <2>1 DEF ClaimInv, NotYetRun, ExecutionSteps
  <2>3. ASSUME NEW d \in Calls PROVE Truth(d)'
    <3>1. CASE d = c
      BY <2>1, <2>2, <3>1 DEF Truth, Outcomes
    <3>2. CASE d # c
      <4>1. (IsConfirm(d)' <=> IsConfirm(d)) /\ Truth(d)
        BY <2>1, <3>2 DEF IsConfirm, TruthInv
      <4> QED
        BY <2>1, <3>2, <4>1 DEF Truth
    <3> QED
      BY <3>1, <3>2
  <2>4. ASSUME NEW k \in Calls PROVE Told(k)'
    <3>1. \A o \in Calls : ExecutesFor(o, k) => ExecutesFor(o, k)'
      BY <2>1, <2>2 DEF ExecutesFor, IsConfirm
    <3> QED
      BY <2>1, <3>1 DEF TruthInv, Told
  <2> QED
    BY <2>3, <2>4 DEF TruthInv
\* A row nobody has claimed moves towards its execution.
<1>2. ASSUME NEW c \in Calls, InsertConfirmation(c) \/ FirstClaim(c) \/ Claim(c) PROVE TruthInv'
  <2> DEFINE k0 == IF pc[c] = "insert_conf" THEN c ELSE req[c].target
  <2>1. /\ UNCHANGED <<req, opState, helper, audited>>
        /\ pc[c] \in {"insert_conf", "first_claim", "claim"}
        /\ pc'[c] \in {"audit_conf", "done", "insert_op"}
        /\ answer'[c] \in {answer[c], "second_confirmation_required"}
        /\ \A d \in Calls : d # c => pc'[d] = pc[d] /\ answer'[d] = answer[d] /\ mem'[d] = mem[d]
    BY <1>t, <1>2 DEF InsertConfirmation, FirstClaim, Claim
  <2>2. /\ \A k \in Calls : k # k0 => confState'[k] = confState[k]
        /\ k0 \in Calls /\ confState[k0] \in {"absent", "pending", "first_confirmed"}
        /\ confState'[k0] \notin Outcomes
    BY <1>t, <1>k, <1>c, <1>2 DEF InsertConfirmation, FirstClaim, Claim, Swap, Expected,
       ConfirmSteps, Outcomes, ClaimInv, RowNotYet
  <2>3. opState[c] = "absent" /\ answer[c] = "none"
    BY <1>a, <2>1 DEF ClaimInv, NotYetRun, ExecutionSteps
  <2>4. \A d, k \in Calls : Claims(d, k) => confState'[k] = confState[k]
    BY <2>2 DEF ClaimInv, ClaimedRow, Outcomes
  <2>5. Truth(c)'
    BY <2>1, <2>3 DEF Truth, Outcomes
  <2>6. \A k \in Calls : confState'[k] \in Outcomes => confState'[k] = confState[k]
    BY <2>2
  <2> QED
    BY <2>1, <2>3, <2>4, <2>5, <2>6, TruthFrame
\* Steps before _execute, and those that end it by an exception.
<1>3. ASSUME NEW c \in Calls, AuditConfirmation(c) \/ Load(c) \/ Review(c) \/ LoseClaim(c)
                              \/ DatabaseError(c)
      PROVE  TruthInv'
  <2>1. /\ UNCHANGED <<req, opState, confState, helper>> /\ audited \subseteq audited'
        /\ pc[c] # "done" /\ pc'[c] \in {"review", "first_claim", "claim", "done"}
        /\ answer'[c] \notin Outcomes
        /\ \A d \in Calls : d # c => pc'[d] = pc[d] /\ answer'[d] = answer[d] /\ mem'[d] = mem[d]
    BY <1>t, <1>a, <1>3 DEF AuditConfirmation, Load, Review, LoseClaim, DatabaseError, Outcomes
  <2>2. Truth(c)'
    BY <2>1 DEF Truth, TruthInv
  <2> QED
    BY <2>1, <2>2, TruthFrame
\* The steps of _execute up to the verdict.
<1>4. ASSUME NEW c \in Calls, InsertOperation(c) \/ GatePasses(c) \/ GateRefuses(c)
                              \/ Spawn(c) \/ SpawnRefused(c) \/ Overrun(c) \/ Return(c)
      PROVE  TruthInv'
  <2>1. /\ UNCHANGED <<req, answer, confState, audited>>
        /\ pc[c] \in {"insert_op", "gate", "spawn", "wait", "overdue"}
        /\ pc'[c] \in {"gate", "spawn", "wait", "overdue", "save_op"}
        /\ \A d \in Calls : d # c => /\ pc'[d] = pc[d] /\ opState'[d] = opState[d]
                                     /\ helper'[d] = helper[d] /\ mem'[d] = mem[d]
    BY <1>t, <1>4 DEF InsertOperation, GatePasses, GateRefuses, Spawn, SpawnRefused, Overrun,
                      Return
  <2>2. opState'[c] = "executing" /\ opState[c] \notin Outcomes
    BY <1>t, <1>4 DEF InsertOperation, GatePasses, GateRefuses, Spawn, SpawnRefused, Overrun,
                      Return, TruthInv, Truth, Outcomes
  <2>3. pc'[c] = "save_op" /\ mem'[c].outcome = "succeeded" => helper'[c] = "ok"
    <3>1. CASE InsertOperation(c) \/ GatePasses(c) \/ Spawn(c) \/ Overrun(c)
      BY <1>t, <3>1 DEF InsertOperation, GatePasses, Spawn, Overrun
    <3>2. CASE GateRefuses(c) \/ SpawnRefused(c)
      BY <1>t, <1>m, <3>2 DEF GateRefuses, SpawnRefused, Outcomes
    <3>3. CASE Return(c)
      BY <1>t, <1>m, <3>3 DEF Return, Verdict, Outcomes
    <3> QED
      BY <1>4, <3>1, <3>2, <3>3
  <2>4. Truth(c)'
    BY <1>a, <2>1, <2>2, <2>3 DEF Truth, Outcomes
  <2> QED
    BY <2>1, <2>2, <2>4, TruthFrame
<1>5. ASSUME NEW c \in Calls, SaveOperation(c) PROVE TruthInv'
  <2>1. /\ UNCHANGED <<req, mem, answer, confState, audited, helper>>
        /\ pc[c] = "save_op" /\ pc'[c] \in {"save_conf", "audit"}
        /\ pc'[c] = "audit" => ~IsConfirm(c)
        /\ opState'[c] = mem[c].outcome
        /\ \A d \in Calls : d # c => pc'[d] = pc[d] /\ opState'[d] = opState[d]
    BY <1>t, <1>5 DEF SaveOperation
  <2>2. Truth(c) /\ answer[c] = "none"
    BY <1>a, <2>1 DEF TruthInv
  <2>3. Truth(c)' /\ opState[c] \notin Outcomes
    BY <2>1, <2>2 DEF Truth, Outcomes, IsConfirm
  <2> QED
    BY <2>1, <2>3, TruthFrame
\* Only the claimant of the row writes the outcome into it.
<1>6. ASSUME NEW c \in Calls, SaveConfirmation(c) PROVE TruthInv'
  <2> DEFINE k0 == req[c].target
  <2>1. /\ UNCHANGED <<req, mem, answer, opState, audited, helper>>
        /\ pc[c] = "save_conf" /\ pc'[c] = "audit"
        /\ confState' = [confState EXCEPT ![k0] = mem[c].outcome]
        /\ \A d \in Calls : d # c => pc'[d] = pc[d]
    BY <1>t, <1>6 DEF SaveConfirmation
  <2>2. IsConfirm(c) /\ k0 \in Calls /\ Claims(c, k0)
    BY <1>k, <1>c, <2>1 DEF ConfirmSteps, Claims, ExecutionSteps
  <2>3. \A d, k \in Calls : d # c /\ Claims(d, k) => confState'[k] = confState[k]
    BY <1>t, <2>1, <2>2 DEF ClaimInv, OneClaim
  <2>4. Truth(c) /\ answer[c] = "none" /\ mem[c].outcome \in Outcomes
    BY <1>a, <2>1 DEF TruthInv, TypeInv, HandlerOK
  <2>5. Truth(c)'
    BY <1>t, <2>1, <2>2, <2>4 DEF Truth, Outcomes, IsConfirm
  <2>6. ExecutesFor(c, k0)' /\ opState'[c] = confState'[k0]
    BY <1>t, <2>1, <2>2, <2>4 DEF Truth, ExecutesFor, IsConfirm, Outcomes
  <2>7. \A k \in Calls : k # k0 => confState'[k] = confState[k]
    BY <1>t, <2>1, <2>2
  <2> QED
    BY <2>1, <2>3, <2>5, <2>6, <2>7, TruthFrame
<1>7. ASSUME NEW c \in Calls, Audit(c) PROVE TruthInv'
  <2>1. /\ UNCHANGED <<req, opState, confState, helper>>
        /\ audited' = audited \cup {<<c, mem[c].outcome>>}
        /\ pc[c] = "audit" /\ pc'[c] = "done" /\ answer'[c] = mem[c].outcome
        /\ \A d \in Calls : d # c => pc'[d] = pc[d] /\ answer'[d] = answer[d] /\ mem'[d] = mem[d]
    BY <1>t, <1>7 DEF Audit
  <2>2. Truth(c)
    BY DEF TruthInv
  <2>3. Truth(c)'
    BY <2>1, <2>2 DEF Truth, IsConfirm
  <2> QED
    BY <2>1, <2>3, TruthFrame
\* A helper that left stays what it is.
<1>8. ASSUME NEW c \in Calls, HelperEnds(c) \/ HelperDies(c) PROVE TruthInv'
  <2>1. /\ UNCHANGED <<pc, req, mem, answer, opState, confState, audited>>
        /\ helper[c] = "running"
        /\ \A d \in Calls : d # c => helper'[d] = helper[d]
    BY <1>t, <1>8 DEF HelperEnds, HelperDies
  <2>2. Truth(c)'
    BY <2>1 DEF TruthInv, Truth, IsConfirm
  <2> QED
    BY <2>1, <2>2, TruthFrame
<1>9. ASSUME UNCHANGED <<req, answer, opState, confState, audited>>,
             \A d \in Calls : \/ pc'[d] = "done"
                              \/ pc'[d] = pc[d] /\ mem'[d].outcome = mem[d].outcome,
             \A d \in Calls : helper'[d] = helper[d] \/ helper[d] = "running"
      PROVE  TruthInv'
  <2>1. ASSUME NEW d \in Calls PROVE Truth(d)'
    <3>1. Truth(d)
      BY DEF TruthInv
    <3>2. CASE pc'[d] = "done"
      BY <1>9, <3>1, <3>2 DEF Truth, IsConfirm
    <3>3. CASE pc'[d] = pc[d] /\ mem'[d].outcome = mem[d].outcome
      BY <1>9, <3>1, <3>3 DEF Truth, IsConfirm
    <3> QED
      BY <1>9, <3>2, <3>3
  <2>2. \A k \in Calls : Told(k)'
    BY <1>9 DEF TruthInv, Told, ExecutesFor, IsConfirm
  <2> QED
    BY <2>1, <2>2 DEF TruthInv
<1>10. ASSUME NEW c \in Calls, Expire(c) PROVE TruthInv'
  <2>1. UNCHANGED <<pc, req, mem, answer, opState, confState, audited, helper>>
    BY <1>10 DEF Expire
  <2> QED
    BY <1>9, <2>1
<1>11. CASE Drift
  <2>1. UNCHANGED <<pc, req, answer, opState, confState, audited, helper>>
    BY <1>11 DEF Drift
  <2>2. \A d \in Calls : mem'[d].outcome = mem[d].outcome
    BY <1>t, <1>11 DEF Drift, Memory
  <2> QED
    BY <1>9, <2>1, <2>2
<1>12. CASE PanelRestarts
  <2>1. /\ UNCHANGED <<req, answer, opState, confState, audited>>
        /\ \A d \in Calls : pc'[d] = pc[d] \/ pc'[d] = "done"
        /\ \A d \in Calls : pc'[d] # "done" => pc[d] = "new" /\ pc'[d] = "new"
        /\ \A d \in Calls : helper'[d] = helper[d] \/ helper[d] = "running"
    BY <1>t, <1>12 DEF PanelRestarts, InFlight
  <2>2. ASSUME NEW d \in Calls PROVE Truth(d)'
    <3>1. Truth(d)
      BY DEF TruthInv
    <3> QED
      BY <2>1, <3>1 DEF Truth, IsConfirm
  <2>3. \A k \in Calls : Told(k)'
    BY <2>1 DEF TruthInv, Told, ExecutesFor, IsConfirm
  <2> QED
    BY <2>2, <2>3 DEF TruthInv
<1>13. CASE UNCHANGED vars
  <2>1. UNCHANGED <<pc, req, mem, answer, opState, confState, audited, helper>>
    BY <1>13 DEF vars
  <2> QED
    BY <1>9, <2>1
<1> QED
  BY <1>1, <1>2, <1>3, <1>4, <1>5, <1>6, <1>7, <1>8, <1>10, <1>11, <1>12, <1>13
     DEF Next, Call, Handler, Fault

\* _execute (operations.py:223-285): operation, confirmation, audit and answer
\* agree, and none says succeeded unless the helper ended well, for any number
\* of requests, faults and restarts.
THEOREM NoFalseSuccessHolds == Spec => []NoFalseSuccess
<1>1. TruthInv => NoFalseSuccess
  BY DEF TruthInv, Truth, Told, NoFalseSuccess
<1>2. /\ Init => ClaimInv /\ ApprovalInv /\ TruthInv
      /\ TypeInv /\ ClaimInv /\ ApprovalInv /\ TruthInv /\ [Next]_vars
            => ClaimInv' /\ ApprovalInv' /\ TruthInv'
  BY ClaimInitially, ApprovalInitially, TruthInitially, ClaimStep, ApprovalStep, TruthStep
<1> QED
  BY <1>1, <1>2, TypeCorrect, PTL DEF Spec

-----------------------------------------------------------------------------
(***************************************************************************)
(* What a request found out stays true while it works: the confirmation it *)
(* names was finished before it came, and the structure of the server      *)
(* changes for no request in flight without that being recorded.           *)
(***************************************************************************)

Reviewed(c) == pc[c] \in {"first_claim", "claim"} \cup ExecutionSteps
RunSteps == {"wait", "overdue", "save_op", "save_conf", "audit", "done"}

Settled == \A c \in Calls : IsConfirm(c) => pc[req[c].target] = "done"
Ran == \A c \in Calls : helper[c] # "idle" => opState[c] # "absent" /\ pc[c] \in RunSteps
Window ==
    \A c \in Calls :
        InFlight(c) /\ IsConfirm(c) /\ ~mem[c].moved =>
            /\ Reviewed(c) => confFp[req[c].target] = fp
            /\ pc[c] = "spawn" \/ helper[c] # "idle" => fp = Approved

RowInv == TypeInv /\ ClaimInv /\ ApprovalInv /\ TruthInv
WindowInv == Settled /\ Ran /\ Window

\* The rows of the three tables are true of the calls, at every step.
LEMMA RowsHold == Spec => []RowInv
<1>1. Init => ClaimInv /\ ApprovalInv /\ TruthInv
  BY ClaimInitially, ApprovalInitially, TruthInitially
<1>2. TypeInv /\ ClaimInv /\ ApprovalInv /\ TruthInv /\ [Next]_vars
         => ClaimInv' /\ ApprovalInv' /\ TruthInv'
  BY ClaimStep, ApprovalStep, TruthStep
<1> QED
  BY <1>1, <1>2, TypeCorrect, PTL DEF Spec, RowInv

LEMMA WindowInitially == Init => WindowInv
BY DEF Init, WindowInv, Settled, Ran, Window, IsConfirm, NoRequest, InFlight

LEMMA SettledStep == RowInv /\ Settled /\ [Next]_vars => Settled'
<1> SUFFICES ASSUME RowInv, Settled, [Next]_vars PROVE Settled'
  OBVIOUS
<1> USE DEF Goto, Finish, RowInv
<1>t. pc \in [Calls -> Steps] /\ req \in [Calls -> Requests]
  BY DEF TypeInv, TypeOK, Requests
<1>k. \A c \in Calls : IsConfirm(c) => req[c].target \in Calls
  BY <1>t, ConfirmShape DEF IsConfirm
<1>1. ASSUME UNCHANGED req, \A d \in Calls : pc[d] = "done" => pc'[d] = "done"
      PROVE  Settled'
  BY <1>k, <1>1 DEF Settled, IsConfirm
<1>2. ASSUME NEW c \in Calls, Submit(c) \/ Confirm(c) PROVE Settled'
  <2>1. /\ pc[c] = "new"
        /\ \A d \in Calls : d # c => pc'[d] = pc[d] /\ req'[d] = req[d]
    BY <1>t, <1>2 DEF Submit, Confirm
  <2>2. IsConfirm(c)' => req'[c].target \in Calls /\ pc[req'[c].target] = "done"
    <3>1. CASE Submit(c)
      BY <1>t, <3>1 DEF Submit, Submits, IsConfirm
    <3>2. CASE Confirm(c)
      BY <1>t, <3>2 DEF Confirm, Confirms, ApprovalInv, Answered
    <3> QED
      BY <1>2, <3>1, <3>2
  <2> QED
    BY <1>k, <2>1, <2>2 DEF Settled, IsConfirm
<1>3. ASSUME NEW c \in Calls, Handler(c) \/ Overrun(c) \/ DatabaseError(c) PROVE Settled'
  <2>1. UNCHANGED req /\ pc[c] # "done" /\ \A d \in Calls : d # c => pc'[d] = pc[d]
    BY <1>t, <1>3 DEF Handler, InsertConfirmation, AuditConfirmation, Load, Review, FirstClaim,
       Claim, LoseClaim, InsertOperation, GatePasses, GateRefuses, Spawn, SpawnRefused, Return,
       SaveOperation, SaveConfirmation, Audit, Overrun, DatabaseError
  <2> QED
    BY <1>1, <2>1
<1>4. ASSUME NEW c \in Calls, HelperEnds(c) \/ HelperDies(c) \/ Expire(c) PROVE Settled'
  BY <1>1, <1>4 DEF HelperEnds, HelperDies, Expire
<1>5. CASE Drift
  BY <1>1, <1>5 DEF Drift
<1>6. CASE PanelRestarts
  BY <1>1, <1>6 DEF PanelRestarts, InFlight
<1>7. CASE UNCHANGED vars
  BY <1>1, <1>7 DEF vars
<1> QED
  BY <1>2, <1>3, <1>4, <1>5, <1>6, <1>7 DEF Next, Call, Fault

LEMMA RanStep == RowInv /\ Ran /\ [Next]_vars => Ran'
<1> SUFFICES ASSUME RowInv, Ran, [Next]_vars PROVE Ran'
  OBVIOUS
<1> USE DEF Goto, Finish, RowInv, rows
<1>t. /\ pc \in [Calls -> Steps] /\ opState \in [Calls -> OpStates]
      /\ helper \in [Calls -> HelperStates]
  BY DEF TypeInv, TypeOK
<1>1. ASSUME \A d \in Calls : /\ helper'[d] # "idle" => helper[d] # "idle"
                              /\ opState[d] # "absent" => opState'[d] # "absent"
                              /\ pc[d] \in RunSteps => pc'[d] \in RunSteps
      PROVE  Ran'
  BY <1>1 DEF Ran
<1>2. ASSUME NEW c \in Calls, Submit(c) \/ Confirm(c) \/ InsertConfirmation(c)
                   \/ AuditConfirmation(c) \/ Load(c) \/ Review(c) \/ FirstClaim(c) \/ Claim(c)
                   \/ LoseClaim(c) \/ GatePasses(c) \/ GateRefuses(c) \/ SpawnRefused(c)
                   \/ Overrun(c) \/ Return(c) \/ SaveConfirmation(c) \/ Audit(c)
                   \/ DatabaseError(c) \/ Expire(c)
      PROVE  Ran'
  <2>1. UNCHANGED <<helper, opState>> /\ \A d \in Calls : d # c => pc'[d] = pc[d]
    BY <1>t, <1>2 DEF Submit, Confirm, InsertConfirmation, AuditConfirmation, Load, Review,
       FirstClaim, Claim, LoseClaim, GatePasses, GateRefuses, SpawnRefused, Overrun, Return,
       SaveConfirmation, Audit, DatabaseError, Expire
  <2>2. pc[c] \in RunSteps => pc'[c] \in RunSteps
    BY <1>t, <1>2 DEF Submit, Confirm, InsertConfirmation, AuditConfirmation, Load, Review,
       FirstClaim, Claim, LoseClaim, GatePasses, GateRefuses, SpawnRefused, Overrun, Return,
       SaveConfirmation, Audit, DatabaseError, Expire, RunSteps
  <2> QED
    BY <1>1, <2>1, <2>2
<1>3. ASSUME NEW c \in Calls, InsertOperation(c) \/ SaveOperation(c) PROVE Ran'
  <2>1. /\ UNCHANGED helper
        /\ \A d \in Calls : d # c => pc'[d] = pc[d] /\ opState'[d] = opState[d]
        /\ opState'[c] # "absent"
        /\ pc[c] \in RunSteps => pc'[c] \in RunSteps
    BY <1>t, <1>3 DEF InsertOperation, SaveOperation, RunSteps, TypeInv, HandlerOK, Outcomes
  <2> QED
    BY <1>1, <2>1
\* The operation row is there before the helper is started.
<1>4. ASSUME NEW c \in Calls, Spawn(c) PROVE Ran'
  <2>1. /\ UNCHANGED opState /\ pc'[c] = "wait" /\ opState[c] = "executing"
        /\ \A d \in Calls : d # c => pc'[d] = pc[d] /\ helper'[d] = helper[d]
    BY <1>t, <1>4 DEF Spawn, TruthInv, Truth
  <2> QED
    BY <2>1 DEF Ran, RunSteps
<1>5. ASSUME NEW c \in Calls, HelperEnds(c) \/ HelperDies(c) PROVE Ran'
  BY <1>t, <1>1, <1>5 DEF HelperEnds, HelperDies
<1>6. CASE Drift
  BY <1>1, <1>6 DEF Drift
<1>7. CASE PanelRestarts
  BY <1>t, <1>1, <1>7 DEF PanelRestarts, RunSteps
<1>8. CASE UNCHANGED vars
  BY <1>1, <1>8 DEF vars
<1> QED
  BY <1>2, <1>3, <1>4, <1>5, <1>6, <1>7, <1>8 DEF Next, Call, Handler, Fault

LEMMA WindowStep == RowInv /\ WindowInv /\ [Next]_vars => Window'
<1> SUFFICES ASSUME RowInv, WindowInv, [Next]_vars PROVE Window'
  OBVIOUS
<1> USE DEF Goto, Finish, RowInv, rows, env, WindowInv
<1>t. /\ pc \in [Calls -> Steps] /\ req \in [Calls -> Requests]
      /\ mem \in [Calls -> Memory] /\ confFp \in [Calls -> Fingerprints]
      /\ helper \in [Calls -> HelperStates]
  BY DEF TypeInv, TypeOK, Requests
<1>k. \A c \in Calls : IsConfirm(c) => req[c].target \in Calls
  BY <1>t, ConfirmShape DEF IsConfirm
<1>m. \A c \in Calls : /\ \A o \in Outcomes : [mem[c] EXCEPT !.outcome = o].moved = mem[c].moved
                       /\ \A s \in ConfStates : [mem[c] EXCEPT !.state = s].moved = mem[c].moved
                       /\ \A b \in BOOLEAN : [mem[c] EXCEPT !.late = b].moved = mem[c].moved
                       /\ [mem[c] EXCEPT !.moved = TRUE].moved
  BY <1>t DEF Memory
<1>1. ASSUME UNCHANGED <<req, fp>>,
             \A d \in Calls : IsConfirm(d) => confFp'[req[d].target] = confFp[req[d].target],
             \A d \in Calls : InFlight(d)' =>
                 /\ InFlight(d) /\ mem'[d].moved = mem[d].moved
                 /\ Reviewed(d)' => Reviewed(d)
                 /\ pc'[d] = "spawn" => pc[d] = "spawn"
                 /\ helper'[d] # "idle" => helper[d] # "idle"
      PROVE  Window'
  BY <1>1 DEF Window, IsConfirm
<1>2. ASSUME NEW c \in Calls, Submit(c) \/ Confirm(c) PROVE Window'
  <2>1. /\ pc[c] = "new" /\ pc'[c] \in {"insert_op", "insert_conf", "load"}
        /\ \A d \in Calls : d # c => pc'[d] = pc[d] /\ req'[d] = req[d]
        /\ UNCHANGED <<mem, confFp, fp, helper>>
    BY <1>t, <1>2 DEF Submit, Confirm
  <2>2. IsConfirm(c)' => pc'[c] = "load"
    BY <1>t, <1>2 DEF Submit, Submits, Confirm, IsConfirm
  <2>3. helper[c] = "idle"
    BY <2>1 DEF Ran, RunSteps
  <2> SUFFICES ASSUME NEW d \in Calls, (InFlight(d) /\ IsConfirm(d) /\ ~mem[d].moved)'
               PROVE  /\ Reviewed(d)' => confFp'[req'[d].target] = fp'
                      /\ pc'[d] = "spawn" \/ helper'[d] # "idle" => fp' = Approved
    BY DEF Window
  <2>4. CASE d = c
    BY <2>1, <2>2, <2>3, <2>4 DEF Reviewed, ExecutionSteps
  <2>5. CASE d # c
    BY <2>1, <2>5 DEF Window, Reviewed, InFlight, IsConfirm
  <2> QED
    BY <2>4, <2>5
\* The confirmation of a request was inserted before the request came.
<1>3. ASSUME NEW c \in Calls, InsertConfirmation(c) PROVE Window'
  <2>1. /\ UNCHANGED <<req, mem, fp, helper>>
        /\ pc[c] = "insert_conf" /\ pc'[c] = "audit_conf"
        /\ \A d \in Calls : d # c => pc'[d] = pc[d] /\ confFp'[d] = confFp[d]
    BY <1>t, <1>3 DEF InsertConfirmation
  <2>2. \A d \in Calls : IsConfirm(d) => req[d].target # c
    BY <2>1 DEF Settled
  <2> QED
    BY <1>1, <1>k, <2>1, <2>2 DEF Reviewed, InFlight, ExecutionSteps
<1>4. ASSUME NEW c \in Calls, Review(c) \/ GatePasses(c) \/ Spawn(c) PROVE Window'
  <2>1. /\ UNCHANGED <<req, fp, confFp>> /\ pc[c] \in {"review", "gate", "spawn"}
        /\ \A d \in Calls : d # c => /\ pc'[d] = pc[d] /\ mem'[d] = mem[d]
                                     /\ helper'[d] = helper[d]
    BY <1>t, <1>4 DEF Review, GatePasses, Spawn
  <2>2. ASSUME (InFlight(c) /\ IsConfirm(c) /\ ~mem[c].moved)'
        PROVE  /\ Reviewed(c)' => confFp[req[c].target] = fp
               /\ pc'[c] = "spawn" \/ helper'[c] # "idle" => fp = Approved
    <3>0. IsConfirm(c) /\ InFlight(c)
      BY <2>1, <2>2 DEF IsConfirm, InFlight
    <3>1. CASE Review(c)
      <4>1. helper'[c] = "idle" /\ pc'[c] # "spawn"
        BY <1>t, <3>1 DEF Review, Ran, RunSteps
      <4>2. Reviewed(c)' => confFp[req[c].target] = fp
        BY <1>t, <3>1 DEF Review, SameStructure, Reviewed, ExecutionSteps
      <4> QED
        BY <4>1, <4>2
    <3>2. CASE GatePasses(c)
      BY <1>t, <2>2, <3>0, <3>2 DEF GatePasses, Window, Reviewed, ExecutionSteps
    <3>3. CASE Spawn(c)
      BY <1>t, <2>2, <3>0, <3>3 DEF Spawn, Window, Reviewed, ExecutionSteps
    <3> QED
      BY <1>4, <3>1, <3>2, <3>3
  <2> SUFFICES ASSUME NEW d \in Calls, (InFlight(d) /\ IsConfirm(d) /\ ~mem[d].moved)'
               PROVE  /\ Reviewed(d)' => confFp'[req'[d].target] = fp'
                      /\ pc'[d] = "spawn" \/ helper'[d] # "idle" => fp' = Approved
    BY DEF Window
  <2>3. CASE d = c
    BY <2>1, <2>2, <2>3
  <2>4. CASE d # c
    BY <2>1, <2>4 DEF Window, Reviewed, InFlight, IsConfirm
  <2> QED
    BY <2>3, <2>4
<1>5. ASSUME NEW c \in Calls, AuditConfirmation(c) \/ Load(c) \/ FirstClaim(c) \/ Claim(c)
                              \/ LoseClaim(c) \/ InsertOperation(c) \/ GateRefuses(c)
                              \/ SpawnRefused(c) \/ Overrun(c) \/ Return(c) \/ SaveOperation(c)
                              \/ SaveConfirmation(c) \/ Audit(c) \/ DatabaseError(c)
      PROVE  Window'
  <2>1. /\ UNCHANGED <<req, fp, confFp, helper>> /\ InFlight(c)
        /\ \A d \in Calls : d # c => pc'[d] = pc[d] /\ mem'[d] = mem[d]
    BY <1>t, <1>5 DEF AuditConfirmation, Load, FirstClaim, Claim, LoseClaim, InsertOperation,
       GateRefuses, SpawnRefused, Overrun, Return, SaveOperation, SaveConfirmation, Audit,
       DatabaseError, InFlight
  <2>2. pc'[c] # "spawn" /\ (Reviewed(c)' => Reviewed(c))
    BY <1>t, <1>5 DEF AuditConfirmation, Load, FirstClaim, Claim, LoseClaim, InsertOperation,
       GateRefuses, SpawnRefused, Overrun, Return, SaveOperation, SaveConfirmation, Audit,
       DatabaseError, Reviewed, ExecutionSteps
  <2>3. pc'[c] = "done" \/ mem'[c].moved = mem[c].moved
    <3>1. CASE Load(c)
      <4>1. req[c].target \in Calls
        BY <3>1, <1>k DEF Load, TypeInv, HandlerOK, ConfirmSteps
      <4> DEFINE value == confState[req[c].target]
      <4>2. value \in ConfStates
        BY <4>1 DEF TypeInv, TypeOK
      <4>3. pc'[c] = "done" \/ mem'[c] = [mem[c] EXCEPT !.state = value]
        BY <1>t, <3>1 DEF Load
      <4>4. [mem[c] EXCEPT !.state = value].moved = mem[c].moved
        BY <1>m, <4>2
      <4> QED
        BY <4>3, <4>4
    <3>2. CASE GateRefuses(c) \/ SpawnRefused(c) \/ Return(c)
      BY <1>t, <1>m, <3>2 DEF GateRefuses, SpawnRefused, Return, Verdict, Outcomes
    <3>3. CASE AuditConfirmation(c) \/ FirstClaim(c) \/ Claim(c) \/ LoseClaim(c)
               \/ InsertOperation(c) \/ Overrun(c) \/ SaveOperation(c) \/ SaveConfirmation(c)
               \/ Audit(c) \/ DatabaseError(c)
      BY <1>t, <3>3 DEF AuditConfirmation, FirstClaim, Claim, LoseClaim, InsertOperation,
         Overrun, SaveOperation, SaveConfirmation, Audit, DatabaseError
    <3> QED
      BY <1>5, <3>1, <3>2, <3>3
  <2> QED
    BY <1>1, <2>1, <2>2, <2>3 DEF Reviewed, InFlight
<1>6. ASSUME NEW c \in Calls, HelperEnds(c) \/ HelperDies(c) \/ Expire(c) PROVE Window'
  <2>1. /\ UNCHANGED <<pc, req, mem, confFp, fp>>
        /\ \A d \in Calls : helper'[d] # "idle" => helper[d] # "idle"
    BY <1>t, <1>6 DEF HelperEnds, HelperDies, Expire
  <2> QED
    BY <1>1, <2>1 DEF Reviewed, InFlight
\* The change is recorded with every request in flight.
<1>7. CASE Drift
  <2>1. UNCHANGED pc /\ \A d \in Calls : InFlight(d) => mem'[d].moved
    BY <1>t, <1>m, <1>7 DEF Drift
  <2> QED
    BY <2>1 DEF Window, InFlight
<1>8. CASE PanelRestarts
  <2>1. \A d \in Calls : ~InFlight(d)'
    BY <1>t, <1>8 DEF PanelRestarts, InFlight
  <2> QED
    BY <2>1 DEF Window
<1>9. CASE UNCHANGED vars
  BY <1>1, <1>9 DEF vars, Reviewed, InFlight
<1> QED
  BY <1>2, <1>3, <1>4, <1>5, <1>6, <1>7, <1>8, <1>9 DEF Next, Call, Handler, Fault

\* operations.py:185-199 and the gate of the adapter: what was reviewed under one
\* structure is executed under another only if it changed during the request, for
\* any number of requests, changes, faults and restarts.
THEOREM StaleReviewOnlyInWindowHolds == Spec => []StaleReviewOnlyInWindow
<1>1. RowInv /\ WindowInv => StaleReviewOnlyInWindow
  BY DEF WindowInv, Window, Ran, RunSteps, Reviewed, ExecutionSteps, InFlight,
         StaleReviewOnlyInWindow
<1>2. RowInv /\ WindowInv /\ [Next]_vars => WindowInv'
  BY SettledStep, RanStep, WindowStep DEF WindowInv
<1> QED
  BY <1>1, <1>2, WindowInitially, RowsHold, PTL DEF Spec

\* The steps of a call that leave every confirmation row in its state.
ConfirmationKept(c) ==
    \/ Submit(c) \/ Confirm(c) \/ AuditConfirmation(c) \/ Load(c) \/ Review(c) \/ LoseClaim(c)
    \/ InsertOperation(c) \/ GatePasses(c) \/ GateRefuses(c) \/ Spawn(c) \/ SpawnRefused(c)
    \/ Return(c) \/ SaveOperation(c) \/ Audit(c)
    \/ HelperEnds(c) \/ Overrun(c) \/ Expire(c) \/ DatabaseError(c) \/ HelperDies(c)

LEMMA KeptByThese == ASSUME NEW c \in Calls, ConfirmationKept(c) PROVE UNCHANGED confState
BY DEF ConfirmationKept, Submit, Confirm, AuditConfirmation, Load, Review, LoseClaim,
       InsertOperation, GatePasses, GateRefuses, Spawn, SpawnRefused, Return, SaveOperation,
       Audit, HelperEnds, Overrun, Expire, DatabaseError, HelperDies, rows

\* confirm refuses what has expired (operations.py:153-221): once the requests
\* that stamped their time before are gone, the row is as it was, for any number
\* of requests, restarts and database errors.
THEOREM ExpiredIsClosedHolds == Spec => ExpiredIsClosed
<1> DEFINE Closed ==
      \A k \in Calls :
         /\ expired[k]
         /\ confState[k] \in {"pending", "first_confirmed"}
         /\ \A c \in Calls : ~StampedFor(c, k)
         => confState'[k] = confState[k]
<1>1. TypeInv /\ ClaimInv /\ [Next]_vars => [Closed]_vars
  <2> SUFFICES ASSUME TypeInv, ClaimInv, [Next]_vars, NEW k \in Calls,
                      confState[k] \in {"pending", "first_confirmed"},
                      \A c \in Calls : ~StampedFor(c, k)
               PROVE  confState'[k] = confState[k]
    OBVIOUS
  <2>t. confState \in [Calls -> ConfStates] /\ req \in [Calls -> Requests]
    BY DEF TypeInv, TypeOK, Requests
  <2>c. \A c \in Calls : pc[c] \in ConfirmSteps => IsConfirm(c) /\ req[c].target \in Calls
    BY <2>t, ConfirmShape DEF TypeInv, HandlerOK, IsConfirm
  <2>1. ASSUME NEW c \in Calls, InsertConfirmation(c) PROVE confState'[k] = confState[k]
    BY <2>t, <2>1 DEF InsertConfirmation, ClaimInv, RowNotYet
  <2>2. ASSUME NEW c \in Calls, FirstClaim(c) \/ Claim(c) PROVE confState'[k] = confState[k]
    BY <2>t, <2>c, <2>2 DEF FirstClaim, Claim, Swap, StampedFor, ConfirmSteps
  <2>3. ASSUME NEW c \in Calls, SaveConfirmation(c) PROVE confState'[k] = confState[k]
    <3>1. req[c].target # k
      BY <2>c, <2>3 DEF SaveConfirmation, ConfirmSteps, ClaimInv, ClaimedRow, Claims,
                        ExecutionSteps, Outcomes
    <3> QED
      BY <2>t, <2>3, <3>1 DEF SaveConfirmation
  <2>4. ASSUME NEW c \in Calls, ConfirmationKept(c) PROVE confState'[k] = confState[k]
    BY <2>4, KeptByThese
  <2> QED
    BY <2>1, <2>2, <2>3, <2>4
       DEF Next, Call, Handler, Fault, Drift, PanelRestarts, ConfirmationKept, vars, rows
<1> QED
  BY <1>1, ClaimInitially, ClaimStep, TypeCorrect, PTL DEF Spec, ExpiredIsClosed

-----------------------------------------------------------------------------
(***************************************************************************)
(* The rows and the helper implement ConfirmationLifecycle: every step of  *)
(* a request, of the helper, of the clock and of a restart is one step of  *)
(* one confirmation or none.                                               *)
(***************************************************************************)

Frozen ==
    \A c \in Calls : pc[c] = "insert_conf" => ~IsConfirm(c) /\ req[c].risk \in Lifecycle!Risks
ApprovesHigh == \A c \in Calls : pc[c] = "first_claim" => req[req[c].target].risk = "high"
Held ==
    \A c \in Calls :
        IsConfirm(c) /\ pc[c] \in ExecutionSteps \ {"audit"}
            => confState[req[c].target] = "executing"

LaunchInv == Settled /\ Ran /\ Frozen /\ ApprovesHigh /\ Held

LEMMA LaunchInitially == Init => LaunchInv
BY DEF Init, LaunchInv, Settled, Ran, Frozen, ApprovesHigh, Held, IsConfirm, NoRequest

LEMMA FrozenStep == RowInv /\ LaunchInv /\ [Next]_vars => Frozen' /\ ApprovesHigh'
<1> SUFFICES ASSUME RowInv, LaunchInv, [Next]_vars PROVE Frozen' /\ ApprovesHigh'
  OBVIOUS
<1> USE DEF Goto, Finish, RowInv, LaunchInv
<1>t. pc \in [Calls -> Steps] /\ req \in [Calls -> Requests]
  BY DEF TypeInv, TypeOK, Requests
<1>k. \A c \in Calls : pc[c] \in ConfirmSteps =>
          IsConfirm(c) /\ req[c].target \in Calls /\ pc[req[c].target] = "done"
  BY <1>t, ConfirmShape DEF TypeInv, HandlerOK, IsConfirm, Settled
<1>1. ASSUME UNCHANGED req,
             \A d \in Calls : pc'[d] = "insert_conf" => pc[d] = "insert_conf",
             \A d \in Calls : pc'[d] = "first_claim" =>
                 pc[d] = "first_claim" \/ req[req[d].target].risk = "high"
      PROVE  Frozen' /\ ApprovesHigh'
  BY <1>1 DEF Frozen, ApprovesHigh, IsConfirm
<1>2. ASSUME NEW c \in Calls, Submit(c) \/ Confirm(c) PROVE Frozen' /\ ApprovesHigh'
  <2>1. /\ pc[c] = "new" /\ pc'[c] \in {"insert_op", "insert_conf", "load"}
        /\ \A d \in Calls : d # c => pc'[d] = pc[d] /\ req'[d] = req[d]
    BY <1>t, <1>2 DEF Submit, Confirm
  <2>2. pc'[c] = "insert_conf" => ~IsConfirm(c)' /\ req'[c].risk \in Lifecycle!Risks
    BY <1>t, <1>2 DEF Submit, Submits, Confirm, IsConfirm, Risks, Lifecycle!Risks
  <2>3. Frozen'
    BY <2>1, <2>2 DEF Frozen, IsConfirm
  <2>4. ApprovesHigh'
    BY <1>k, <2>1 DEF ApprovesHigh, ConfirmSteps
  <2> QED
    BY <2>3, <2>4
<1>3. ASSUME NEW c \in Calls, Handler(c) \/ Overrun(c) \/ DatabaseError(c)
      PROVE  Frozen' /\ ApprovesHigh'
  <2>1. /\ UNCHANGED req /\ \A d \in Calls : d # c => pc'[d] = pc[d]
        /\ pc'[c] # "insert_conf"
        /\ pc'[c] = "first_claim" => req[req[c].target].risk = "high"
    BY <1>t, <1>3 DEF Handler, InsertConfirmation, AuditConfirmation, Load, Review, FirstClaim,
       Claim, LoseClaim, InsertOperation, GatePasses, GateRefuses, Spawn, SpawnRefused, Return,
       SaveOperation, SaveConfirmation, Audit, Overrun, DatabaseError, MayApprove
  <2> QED
    BY <1>1, <2>1
<1>4. ASSUME NEW c \in Calls, HelperEnds(c) \/ HelperDies(c) \/ Expire(c)
      PROVE  Frozen' /\ ApprovesHigh'
  BY <1>1, <1>4 DEF HelperEnds, HelperDies, Expire
<1>5. CASE Drift
  BY <1>1, <1>5 DEF Drift
<1>6. CASE PanelRestarts
  BY <1>t, <1>1, <1>6 DEF PanelRestarts, InFlight
<1>7. CASE UNCHANGED vars
  BY <1>1, <1>7 DEF vars
<1> QED
  BY <1>2, <1>3, <1>4, <1>5, <1>6, <1>7 DEF Next, Call, Fault

LEMMA HeldStep == RowInv /\ LaunchInv /\ [Next]_vars => Held'
<1> SUFFICES ASSUME RowInv, LaunchInv, [Next]_vars PROVE Held'
  OBVIOUS
<1> USE DEF Goto, Finish, RowInv, LaunchInv
<1>t. /\ pc \in [Calls -> Steps] /\ req \in [Calls -> Requests]
      /\ confState \in [Calls -> ConfStates]
  BY DEF TypeInv, TypeOK, Requests
<1>k. \A c \in Calls : IsConfirm(c) => req[c].target \in Calls
  BY <1>t, ConfirmShape DEF IsConfirm
<1>c. \A c \in Calls : pc[c] \in ConfirmSteps => IsConfirm(c)
  BY DEF TypeInv, HandlerOK
<1>1. ASSUME UNCHANGED req,
             \A d \in Calls : IsConfirm(d) /\ pc'[d] \in ExecutionSteps \ {"audit"} =>
                 /\ pc[d] \in ExecutionSteps \ {"audit"}
                 /\ confState[req[d].target] = "executing" =>
                        confState'[req[d].target] = "executing"
      PROVE  Held'
  BY <1>1 DEF Held, IsConfirm
<1>2. ASSUME NEW c \in Calls, Submit(c) \/ Confirm(c) PROVE Held'
  <2>1. /\ UNCHANGED confState
        /\ \A d \in Calls : d # c => pc'[d] = pc[d] /\ req'[d] = req[d]
        /\ IsConfirm(c)' => pc'[c] = "load"
    BY <1>t, <1>2, KeptByThese DEF Submit, Submits, Confirm, IsConfirm, ConfirmationKept
  <2> QED
    BY <2>1 DEF Held, IsConfirm, ExecutionSteps
\* A row in execution is not new, and not waiting to be claimed.
<1>3. ASSUME NEW c \in Calls, InsertConfirmation(c) \/ FirstClaim(c) PROVE Held'
  <2>1. /\ UNCHANGED req /\ \A d \in Calls : d # c => pc'[d] = pc[d]
        /\ pc'[c] \notin ExecutionSteps
        /\ \A k \in Calls : confState[k] = "executing" => confState'[k] = "executing"
    BY <1>t, <1>k, <1>c, <1>3 DEF InsertConfirmation, FirstClaim, Swap, ExecutionSteps,
       ConfirmSteps, ClaimInv, RowNotYet
  <2> QED
    BY <1>1, <1>k, <2>1
<1>4. ASSUME NEW c \in Calls, Claim(c) PROVE Held'
  <2>1. /\ UNCHANGED req /\ \A d \in Calls : d # c => pc'[d] = pc[d]
        /\ IsConfirm(c) /\ confState' = [confState EXCEPT ![req[c].target] = "executing"]
    BY <1>t, <1>c, <1>4 DEF Claim, Swap, ConfirmSteps
  <2> QED
    BY <1>t, <1>k, <2>1 DEF Held, IsConfirm
\* The row belongs to the request that writes its outcome.
<1>5. ASSUME NEW c \in Calls, SaveConfirmation(c) PROVE Held'
  <2> DEFINE k0 == req[c].target
  <2>1. /\ UNCHANGED req /\ \A d \in Calls : d # c => pc'[d] = pc[d]
        /\ pc[c] = "save_conf" /\ pc'[c] = "audit" /\ IsConfirm(c)
        /\ \A k \in Calls : k # k0 => confState'[k] = confState[k]
    BY <1>t, <1>c, <1>5 DEF SaveConfirmation, ConfirmSteps
  <2>2. \A d \in Calls : IsConfirm(d) /\ pc[d] \in ExecutionSteps /\ d # c => req[d].target # k0
    BY <1>k, <2>1 DEF ClaimInv, OneClaim, Claims, ExecutionSteps
  <2> QED
    BY <1>1, <1>k, <2>1, <2>2
<1>6. ASSUME NEW c \in Calls, ConfirmationKept(c), ~Submit(c), ~Confirm(c) PROVE Held'
  <2>1. UNCHANGED <<req, confState>> /\ \A d \in Calls : d # c => pc'[d] = pc[d]
    BY <1>t, <1>6, KeptByThese DEF ConfirmationKept, AuditConfirmation, Load, Review, LoseClaim,
       InsertOperation, GatePasses, GateRefuses, Spawn, SpawnRefused, Return, SaveOperation,
       Audit, HelperEnds, Overrun, Expire, DatabaseError, HelperDies
  <2>2. IsConfirm(c) /\ pc'[c] \in ExecutionSteps \ {"audit"} =>
            pc[c] \in ExecutionSteps \ {"audit"}
    BY <1>t, <1>6 DEF ConfirmationKept, AuditConfirmation, Load, Review, LoseClaim,
       InsertOperation, GatePasses, GateRefuses, Spawn, SpawnRefused, Return, SaveOperation,
       Audit, HelperEnds, Overrun, Expire, DatabaseError, HelperDies, ExecutionSteps
  <2> QED
    BY <1>1, <2>1, <2>2
<1>7. CASE Drift
  BY <1>1, <1>7 DEF Drift, rows
<1>8. CASE PanelRestarts
  BY <1>t, <1>1, <1>8 DEF PanelRestarts, InFlight, rows, ExecutionSteps
<1>9. CASE UNCHANGED vars
  BY <1>1, <1>9 DEF vars, rows
<1> QED
  BY <1>2, <1>3, <1>4, <1>5, <1>6, <1>7, <1>8, <1>9
     DEF Next, Call, Handler, Fault, ConfirmationKept

LEMMA LaunchStep == RowInv /\ LaunchInv /\ [Next]_vars => LaunchInv'
BY SettledStep, RanStep, FrozenStep, HeldStep DEF LaunchInv

\* The four variables of ConfirmationLifecycle, as Operations has them.
Levels == [k \in Calls |-> IF confState[k] = "absent" THEN "none" ELSE req[k].risk]
Effects == {p \in Launches : helper[p[2]] = "ok"}

\* What a step leaves alone of what Launches is made of.
LEMMA LaunchesKept ==
    ASSUME \A d \in Calls : helper[d] # "idle" \/ helper'[d] # "idle" =>
               req'[d] = req[d] /\ (helper'[d] # "idle" <=> helper[d] # "idle")
    PROVE  Launches' = Launches
BY DEF Launches, IsConfirm

LEMMA EffectsKept ==
    ASSUME Launches' = Launches,
           \A d \in Calls : helper'[d] = "ok" <=> helper[d] = "ok"
    PROVE  Effects' = Effects
<1> SUFFICES ASSUME NEW p \in Launches PROVE helper'[p[2]] = "ok" <=> helper[p[2]] = "ok"
  BY DEF Effects
<1> QED
  BY DEF Launches

LEMMA LevelsKept ==
    ASSUME UNCHANGED req,
           \A k \in Calls : confState'[k] = "absent" <=> confState[k] = "absent"
    PROVE  Levels' = Levels
BY DEF Levels

LEMMA LifecycleStep == RowInv /\ LaunchInv /\ [Next]_vars => [Lifecycle!Next]_(Lifecycle!vars)
<1> SUFFICES ASSUME RowInv, LaunchInv, [Next]_vars
             PROVE  Lifecycle!Next \/ UNCHANGED <<confState, Levels, Launches, Effects>>
  BY DEF Lifecycle!vars, Levels, Effects
<1> USE DEF Goto, Finish, RowInv, LaunchInv
<1>t. /\ pc \in [Calls -> Steps] /\ req \in [Calls -> Requests]
      /\ confState \in [Calls -> ConfStates] /\ helper \in [Calls -> HelperStates]
      /\ mem \in [Calls -> Memory]
  BY DEF TypeInv, TypeOK, Requests
<1>k. \A c \in Calls : IsConfirm(c) => req[c].target \in Calls
  BY <1>t, ConfirmShape DEF IsConfirm
<1>c. \A c \in Calls : pc[c] \in ConfirmSteps => IsConfirm(c)
  BY DEF TypeInv, HandlerOK
<1>l. \A k \in Calls : Levels[k] = IF confState[k] = "absent" THEN "none" ELSE req[k].risk
  BY DEF Levels
\* A launched run belongs to the confirmation its request names.
<1>p. \A k, o \in Calls : <<k, o>> \in Launches <=>
          IsConfirm(o) /\ req[o].target = k /\ helper[o] # "idle"
  BY DEF Launches
<1>1. ASSUME NEW c \in Calls, Submit(c) \/ Confirm(c)
      PROVE  UNCHANGED <<confState, Levels, Launches, Effects>>
  <2>1. /\ pc[c] = "new" /\ UNCHANGED <<confState, helper>>
        /\ \A d \in Calls : d # c => req'[d] = req[d]
    BY <1>t, <1>1, KeptByThese DEF Submit, Confirm, ConfirmationKept
  <2>2. helper[c] = "idle" /\ confState[c] = "absent"
    BY <2>1 DEF Ran, RunSteps, ClaimInv, RowNotYet
  <2>3. Launches' = Launches
    BY <2>1, <2>2, LaunchesKept
  <2>4. Levels' = Levels
    BY <2>1, <2>2 DEF Levels
  <2> QED
    BY <2>1, <2>3, <2>4, EffectsKept
<1>2. ASSUME NEW c \in Calls, InsertConfirmation(c)
      PROVE  \E level \in Lifecycle!Risks : Lifecycle!Create(c, level)
  <2>1. /\ confState[c] = "absent" /\ confState' = [confState EXCEPT ![c] = "pending"]
        /\ req[c].risk \in Lifecycle!Risks /\ UNCHANGED <<req, helper>>
    BY <1>2 DEF InsertConfirmation, ClaimInv, RowNotYet, Frozen
  <2>2. Levels' = [Levels EXCEPT ![c] = req[c].risk]
    BY <1>t, <2>1 DEF Levels
  <2>3. Launches' = Launches /\ Effects' = Effects
    BY <2>1, LaunchesKept, EffectsKept
  <2> QED
    BY <2>1, <2>2, <2>3 DEF Lifecycle!Create, Levels, Effects
<1>3. ASSUME NEW c \in Calls, FirstClaim(c) PROVE Lifecycle!Approve(req[c].target)
  <2> DEFINE k0 == req[c].target
  <2>1. /\ k0 \in Calls /\ confState[k0] = "pending" /\ UNCHANGED <<req, helper>>
        /\ confState' = [confState EXCEPT ![k0] = "first_confirmed"]
        /\ req[k0].risk = "high"
    BY <1>k, <1>c, <1>3 DEF FirstClaim, Swap, ConfirmSteps, ApprovesHigh
  <2>2. Levels' = Levels /\ Levels[k0] = "high"
    BY <1>t, <1>l, <2>1, LevelsKept
  <2>3. Launches' = Launches /\ Effects' = Effects
    BY <2>1, LaunchesKept, EffectsKept
  <2> QED
    BY <2>1, <2>2, <2>3 DEF Lifecycle!Approve, Levels, Effects
<1>4. ASSUME NEW c \in Calls, Claim(c) PROVE Lifecycle!Claim(req[c].target)
  <2> DEFINE k0 == req[c].target
  <2>1. /\ k0 \in Calls /\ UNCHANGED <<req, helper>>
        /\ confState[k0] = IF req[k0].risk = "high" THEN "first_confirmed" ELSE "pending"
        /\ confState' = [confState EXCEPT ![k0] = "executing"]
    BY <1>k, <1>c, <1>4 DEF Claim, Swap, Expected, ConfirmSteps
  <2>2. Levels' = Levels /\ Levels[k0] = req[k0].risk
    BY <1>t, <1>l, <2>1, LevelsKept
  <2>3. Launches' = Launches /\ Effects' = Effects
    BY <2>1, LaunchesKept, EffectsKept
  <2> QED
    BY <2>1, <2>2, <2>3 DEF Lifecycle!Claim, Levels, Effects
\* Nobody else has claimed the row, so nobody else was launched for it.
<1>5. ASSUME NEW c \in Calls, Spawn(c)
      PROVE  \/ IsConfirm(c) /\ Lifecycle!Launch(req[c].target, c)
             \/ UNCHANGED <<confState, Levels, Launches, Effects>>
  <2> DEFINE k0 == req[c].target
  <2>1. /\ pc[c] = "spawn" /\ UNCHANGED <<req, confState>>
        /\ helper' = [helper EXCEPT ![c] = "running"]
    BY <1>5 DEF Spawn, rows
  <2>2. helper[c] = "idle" /\ Levels' = Levels
    BY <2>1, LevelsKept DEF Ran, RunSteps
  <2>3. CASE IsConfirm(c)
    <3>1. k0 \in Calls /\ confState[k0] = "executing" /\ Claims(c, k0)
      BY <1>k, <2>1, <2>3 DEF Held, ExecutionSteps, Claims
    <3>2. \A other \in Calls : <<k0, other>> \notin Launches
      BY <1>p, <2>2, <3>1 DEF Ran, ClaimInv, OneClaim, Claims
    <3>3. Launches' = Launches \cup {<<k0, c>>}
      <4>1. \A k, o \in Calls : <<k, o>> \in Launches' <=>
                                    <<k, o>> \in Launches \/ (k = k0 /\ o = c)
        <5> TAKE k, o \in Calls
        <5>1. <<k, o>> \in Launches' <=>
                  req[o].kind = "confirm" /\ req[o].target = k /\ helper'[o] # "idle"
          BY <2>1 DEF Launches, IsConfirm
        <5>2. helper'[o] # "idle" <=> helper[o] # "idle" \/ o = c
          BY <1>t, <2>1
        <5>3. <<k, o>> \in Launches <=>
                  req[o].kind = "confirm" /\ req[o].target = k /\ helper[o] # "idle"
          BY DEF Launches, IsConfirm
        <5> QED
          BY <2>3, <5>1, <5>2, <5>3 DEF IsConfirm
      <4> QED
        BY <3>1, <4>1 DEF Launches
    <3>4. Effects' = Effects
      <4>1. \A p \in Launches : helper'[p[2]] = "ok" <=> helper[p[2]] = "ok"
        BY <1>t, <2>1, <2>2 DEF Launches
      <4>2. helper'[c] # "ok"
        BY <1>t, <2>1
      <4> QED
        BY <3>3, <4>1, <4>2 DEF Effects
    <3> QED
      BY <2>1, <2>2, <2>3, <3>1, <3>2, <3>3, <3>4 DEF Lifecycle!Launch, Levels, Effects
  <2>4. CASE ~IsConfirm(c)
    <3>1. Launches' = Launches
      BY <1>t, <2>1, <2>4 DEF Launches, IsConfirm
    <3>2. Effects' = Effects
      BY <1>t, <2>1, <2>2, <3>1, EffectsKept
    <3> QED
      BY <2>1, <2>2, <3>1, <3>2
  <2> QED
    BY <2>3, <2>4
<1>6. ASSUME NEW c \in Calls, HelperEnds(c)
      PROVE  \/ IsConfirm(c) /\ Lifecycle!Effect(req[c].target, c)
             \/ UNCHANGED <<confState, Levels, Launches, Effects>>
  <2> DEFINE k0 == req[c].target
  <2>1. PICK verdict \in {"ok", "failed"} : helper' = [helper EXCEPT ![c] = verdict]
    BY <1>6 DEF HelperEnds
  <2>2. helper[c] = "running" /\ UNCHANGED <<req, confState>> /\ Levels' = Levels
    BY <1>6, LevelsKept DEF HelperEnds, rows
  <2>3. Launches' = Launches
    BY <1>t, <2>1, <2>2, LaunchesKept
  <2>4. CASE IsConfirm(c) /\ verdict = "ok"
    <3>1. k0 \in Calls /\ <<k0, c>> \in Launches
      BY <1>k, <1>p, <2>2, <2>4
    <3>2. \A p \in Launches : helper'[p[2]] = "ok" <=> helper[p[2]] = "ok" \/ p = <<k0, c>>
      BY <1>t, <2>1, <2>2, <2>4 DEF Launches
    <3>3. Effects' = Effects \cup {<<k0, c>>}
      BY <2>3, <3>1, <3>2 DEF Effects
    <3> QED
      BY <2>2, <2>3, <2>4, <3>1, <3>3 DEF Lifecycle!Effect, Levels, Effects
  <2>5. CASE ~(IsConfirm(c) /\ verdict = "ok")
    <3>1. \A p \in Launches : helper'[p[2]] = "ok" <=> helper[p[2]] = "ok"
      BY <1>t, <2>1, <2>2, <2>5 DEF Launches
    <3>2. Effects' = Effects
      BY <2>3, <3>1 DEF Effects
    <3> QED
      BY <2>2, <2>3, <3>2
  <2> QED
    BY <2>4, <2>5
\* The request that reports success ran the helper itself.
<1>7. ASSUME NEW c \in Calls, SaveConfirmation(c)
      PROVE  Lifecycle!Succeed(req[c].target) \/ Lifecycle!Fail(req[c].target)
  <2> DEFINE k0 == req[c].target
  <2>1. /\ pc[c] = "save_conf" /\ UNCHANGED <<req, helper>>
        /\ confState' = [confState EXCEPT ![k0] = mem[c].outcome]
    BY <1>7 DEF SaveConfirmation
  <2>2. /\ IsConfirm(c) /\ k0 \in Calls /\ confState[k0] = "executing"
        /\ mem[c].outcome \in Outcomes
    BY <1>k, <1>c, <2>1 DEF ConfirmSteps, Held, ExecutionSteps, TypeInv, HandlerOK
  <2>3. Levels' = Levels
    BY <1>t, <2>1, <2>2, LevelsKept DEF Outcomes
  <2>4. Launches' = Launches /\ Effects' = Effects
    BY <2>1, LaunchesKept, EffectsKept
  <2>5. mem[c].outcome = "succeeded" => <<k0, c>> \in Effects
    BY <1>p, <2>1, <2>2 DEF TruthInv, Truth, Effects
  <2> QED
    BY <2>1, <2>2, <2>3, <2>4, <2>5
       DEF Lifecycle!Succeed, Lifecycle!Fail, Levels, Effects, Outcomes
<1>8. ASSUME UNCHANGED <<confState, req>>,
             \A d \in Calls : \/ helper'[d] = helper[d]
                              \/ helper[d] = "running" /\ helper'[d] \in {"running", "killed"}
      PROVE  UNCHANGED <<confState, Levels, Launches, Effects>>
  <2>1. \A d \in Calls : /\ helper'[d] # "idle" <=> helper[d] # "idle"
                         /\ helper'[d] = "ok" <=> helper[d] = "ok"
    BY <1>8
  <2>2. Launches' = Launches
    BY <1>8, <2>1, LaunchesKept
  <2>3. Levels' = Levels
    BY <1>8, LevelsKept
  <2> QED
    BY <1>8, <2>1, <2>2, <2>3, EffectsKept
<1>9. ASSUME NEW c \in Calls, ConfirmationKept(c), ~Submit(c), ~Confirm(c), ~Spawn(c),
             ~HelperEnds(c)
      PROVE  UNCHANGED <<confState, Levels, Launches, Effects>>
  <2>1. UNCHANGED <<confState, req>>
    BY <1>9, KeptByThese DEF ConfirmationKept, AuditConfirmation, Load, Review, LoseClaim,
       InsertOperation, GatePasses, GateRefuses, SpawnRefused, Return, SaveOperation, Audit,
       Overrun, Expire, DatabaseError, HelperDies
  <2>2. \A d \in Calls : \/ helper'[d] = helper[d]
                         \/ helper[d] = "running" /\ helper'[d] \in {"running", "killed"}
    BY <1>t, <1>9 DEF ConfirmationKept, AuditConfirmation, Load, Review, LoseClaim,
       InsertOperation, GatePasses, GateRefuses, SpawnRefused, Return, SaveOperation, Audit,
       Overrun, Expire, DatabaseError, HelperDies
  <2> QED
    BY <1>8, <2>1, <2>2
<1>10. CASE Drift
  BY <1>8, <1>10 DEF Drift, rows
<1>11. CASE PanelRestarts
  BY <1>t, <1>8, <1>11 DEF PanelRestarts, rows
<1>12. CASE UNCHANGED vars
  BY <1>8, <1>12 DEF vars, rows
<1>13. ASSUME NEW c \in Calls, Call(c) \/ Fault(c) \/ Expire(c)
       PROVE  Lifecycle!Next \/ UNCHANGED <<confState, Levels, Launches, Effects>>
  <2>1. CASE InsertConfirmation(c)
    BY <1>2, <2>1 DEF Lifecycle!Next
  <2>2. CASE FirstClaim(c) \/ Claim(c) \/ SaveConfirmation(c)
    <3>1. req[c].target \in Calls
      BY <1>k, <1>c, <2>2 DEF FirstClaim, Claim, SaveConfirmation, ConfirmSteps
    <3> QED
      BY <1>3, <1>4, <1>7, <2>2, <3>1 DEF Lifecycle!Next
  <2>3. CASE Spawn(c) \/ HelperEnds(c)
    BY <1>5, <1>6, <1>k, <2>3 DEF Lifecycle!Next
  <2> QED
    BY <1>1, <1>9, <1>13, <2>1, <2>2, <2>3 DEF Call, Handler, Fault, ConfirmationKept
<1> QED
  BY <1>10, <1>11, <1>12, <1>13 DEF Next

\* The operation service keeps the promise of ConfirmationLifecycle: for any
\* number of requests, users, faults and restarts a confirmation is approved,
\* claimed, launched at most once and reported as what its run did.
THEOREM LifecycleSpecHolds == Spec => LifecycleSpec
<1>1. Init => Lifecycle!Init
  BY DEF Init, Lifecycle!Init, Launches
<1>2. RowInv /\ LaunchInv /\ [Next]_vars => LaunchInv'
  BY LaunchStep
<1> QED
  BY <1>1, <1>2, LaunchInitially, LifecycleStep, RowsHold, PTL
     DEF Spec, LifecycleSpec, Lifecycle!Spec
=============================================================================
