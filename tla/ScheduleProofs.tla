--------------------------- MODULE ScheduleProofs ---------------------------
(* Theorems about Schedule, for every set of schedules and number of calls. *)
EXTENDS Schedule, TLAPS

\* What the files and systemd hold at each step of a call.
Progress ==
    /\ pc \in Working => result = "none"
    /\ pc \in Working => ~broken
    /\ pc = "save" => saved = Nothing
    /\ pc \in Working \ {"save"} => saved = before
    /\ pc \in {"save", "write_timer", "undo_reload", "undo_restart"} => file = before
    /\ pc = "write_service" => file["timer"] = want
    /\ pc \in {"reload", "restart"} => file = Both(want)
    /\ pc = "undo_service" => file["timer"] = before["timer"]
    /\ pc \in {"restart", "undo_restart"} => loaded = file

ScheduleInv == TypeOK /\ Progress /\ OldScheduleRecoverable /\ VerdictMatchesSchedule

USE DEF Dropins, Contents, Both, Errors, Goto, Leave, Caught, AtomicRootFile,
        RollbackDone, RollbackFails

\* Two drop-ins that agree with a pair are the pair.
LEMMA PairByParts ==
    ASSUME NEW S, NEW f \in [Dropins -> S], NEW g \in [Dropins -> S],
           f["timer"] = g["timer"], f["service"] = g["service"]
    PROVE  f = g
  OBVIOUS

LEMMA InitInv == Init => ScheduleInv
<1> SUFFICES ASSUME Init PROVE ScheduleInv
  OBVIOUS
<1>1. /\ pc = "idle" /\ saved = Nothing /\ want \in Schedules /\ error = "failed"
      /\ broken = FALSE /\ result = "none" /\ calls = 0
  BY DEF Init
<1>2. /\ file \in Pairs /\ loaded \in Pairs /\ before \in Pairs
      /\ armed \in Contents \cup {Inactive} /\ file = before
  BY DEF Init, Pairs
<1>0. broken \in BOOLEAN
  BY <1>1
<1>3. TypeOK
  BY <1>0, <1>1, <1>2, BoundsAssumption DEF TypeOK, Nothing, Missing, Steps, Working, Results
<1> QED
  BY <1>1, <1>2, <1>3 DEF ScheduleInv, Progress, OldScheduleRecoverable,
     VerdictMatchesSchedule, Working

\* Types are kept by every step.  What the rollback writes is an earlier drop-in,
\* since the recovery point is complete by then.
LEMMA NextType == ScheduleInv /\ [Next]_vars => TypeOK'
<1> SUFFICES ASSUME TypeOK, Progress, [Next]_vars PROVE TypeOK'
  BY DEF ScheduleInv
<1> USE BoundsAssumption DEF TypeOK, Pairs, Nothing, Missing, Inactive, Steps, Working, Results
<1>1. ASSUME NEW s \in Schedules, Begin(s) PROVE TypeOK'
  <2>1. broken' \in BOOLEAN
    BY <1>1, Zenon DEF Begin
  <2> QED
    BY <1>1, <2>1 DEF Begin, state
<1>2. CASE Save
  BY <1>2 DEF Save, state, call
<1>3. CASE Write("write_timer", "timer", "write_service")
  BY <1>3 DEF Write, call
<1>4. CASE Write("write_service", "service", "reload")
  BY <1>4 DEF Write, call
<1>5. CASE Reload
  BY <1>5 DEF Reload, DaemonReload, call
<1>6. CASE Restart
  BY <1>6 DEF Restart, RestartTimer, call
<1>7. CASE Undo("undo_timer", "timer", "undo_service")
  BY <1>7 DEF Undo, call, Progress
<1>8. CASE Undo("undo_service", "service", "undo_reload")
  BY <1>8 DEF Undo, call, Progress
<1>9. CASE UndoReload
  <2>1. broken' \in BOOLEAN
    BY <1>9, Zenon DEF UndoReload
  <2>2. loaded' \in {loaded, file} /\ armed' \in {armed, loaded'["timer"]} /\ UNCHANGED file
    BY <1>9 DEF UndoReload, DaemonReload
  <2>3. loaded' \in Pairs /\ armed' \in Contents \cup {Inactive}
    BY <2>2
  <2> QED
    BY <1>9, <2>1, <2>2, <2>3 DEF UndoReload, call
<1>10. CASE UndoRestart
  BY <1>10 DEF UndoRestart, RestartTimer, call
<1>11. CASE SomeoneReloads
  BY <1>11 DEF SomeoneReloads, DaemonReload, call
<1>12. CASE Die
  BY <1>12 DEF Die, state, call
<1>13. CASE UNCHANGED vars
  BY <1>13 DEF vars, state, call
<1> QED
  BY <1>1, <1>2, <1>3, <1>4, <1>5, <1>6, <1>7, <1>8, <1>9, <1>10, <1>11, <1>12, <1>13
     DEF Next, Helper

\* What a call has written and loaded by each step, and what follows for the
\* recovery point and the verdict.
LEMMA NextProgress == ScheduleInv /\ [Next]_vars => (Progress /\ OldScheduleRecoverable
                                                     /\ VerdictMatchesSchedule)'
<1> SUFFICES ASSUME TypeOK, Progress, OldScheduleRecoverable, VerdictMatchesSchedule, [Next]_vars
             PROVE  (Progress /\ OldScheduleRecoverable /\ VerdictMatchesSchedule)'
  BY DEF ScheduleInv
<1> USE DEF TypeOK, Pairs, Progress, OldScheduleRecoverable, VerdictMatchesSchedule, InForce,
            Steps, Working, Results
<1>1. ASSUME NEW s \in Schedules, Begin(s) PROVE (Progress /\ OldScheduleRecoverable
                                                   /\ VerdictMatchesSchedule)'
  BY <1>1 DEF Begin, state
<1>2. CASE Save
  BY <1>2 DEF Save, state, call
<1>3. CASE Write("write_timer", "timer", "write_service")
  BY <1>3 DEF Write, call
<1>4. CASE Write("write_service", "service", "reload")
  BY <1>4 DEF Write, call
<1>5. CASE Reload
  BY <1>5 DEF Reload, DaemonReload, call
<1>6. CASE Restart
  BY <1>6 DEF Restart, RestartTimer, call
<1>7. CASE Undo("undo_timer", "timer", "undo_service")
  BY <1>7 DEF Undo, call
<1>8. CASE Undo("undo_service", "service", "undo_reload")
  BY <1>8 DEF Undo, call
<1>9. CASE UndoReload
  BY <1>9 DEF UndoReload, DaemonReload, call
<1>10. CASE UndoRestart
  BY <1>10 DEF UndoRestart, RestartTimer, call
<1>11. CASE SomeoneReloads
  BY <1>11 DEF SomeoneReloads, DaemonReload, call
<1>12. CASE Die
  BY <1>12 DEF Die, state, call
<1>13. CASE UNCHANGED vars
  BY <1>13 DEF vars, state, call
<1> QED
  BY <1>1, <1>2, <1>3, <1>4, <1>5, <1>6, <1>7, <1>8, <1>9, <1>10, <1>11, <1>12, <1>13
     DEF Next, Helper

LEMMA ScheduleInvHolds == Spec => []ScheduleInv
<1>1. ScheduleInv /\ [Next]_vars => ScheduleInv'
  BY NextType, NextProgress DEF ScheduleInv
<1> QED
  BY InitInv, <1>1, PTL DEF Spec

\* set_backup_schedule: a success is in force everywhere; whatever else is reported,
\* the earlier schedule is, unless the rollback failed, which is no ordinary failure.
THEOREM VerdictMatchesScheduleHolds == Spec => []VerdictMatchesSchedule
<1>1. ScheduleInv => VerdictMatchesSchedule
  BY DEF ScheduleInv
<1> QED
  BY ScheduleInvHolds, <1>1, PTL

\* set_backup_schedule: whatever happens to a call, the recovery point has the pair
\* its changes replaced.
THEOREM OldScheduleRecoverableHolds == Spec => []OldScheduleRecoverable
<1>1. ScheduleInv => OldScheduleRecoverable
  BY DEF ScheduleInv
<1> QED
  BY ScheduleInvHolds, <1>1, PTL
=============================================================================
