------------------------------ MODULE Schedule ------------------------------
(***************************************************************************)
(* set_backup_schedule of the root helper (helper/mc_panel_action.py): two *)
(* systemd drop-ins, the time of the backup timer and the retention of the *)
(* backup service, are replaced one after the other, loaded and applied;   *)
(* whatever fails puts the earlier pair back.                              *)
(***************************************************************************)
EXTENDS Naturals

CONSTANTS
    Schedules,      \* the schedules an owner may ask for
    NoDropin,       \* content of a drop-in that does not exist
    CanDie,         \* the helper may be killed between two steps
    MaxCalls        \* bound on the calls, one after the other

ASSUME NoDropinAssumption == NoDropin \notin Schedules
ASSUME BoundsAssumption == CanDie \in BOOLEAN /\ MaxCalls \in Nat

VARIABLES
    pc,         \* the step the helper is about to take
    file,       \* file[d]: the schedule drop-in d was written for
    loaded,     \* what systemd read at its last daemon-reload
    armed,      \* the drop-in the running timer counts by
    before,     \* file when the call started
    saved,      \* the copies at the call's recovery point
    want,       \* the schedule asked for
    error,      \* the exception on its way out of the try block
    broken,     \* a step of this call's rollback failed
    result,     \* what the helper reports
    calls

state == <<file, loaded, armed>>
call == <<before, want>>
vars == <<pc, state, call, saved, error, broken, result, calls>>

Dropins == {"timer", "service"}
Contents == Schedules \cup {NoDropin}
Pairs == [Dropins -> Contents]
Both(c) == [d \in Dropins |-> c]
Missing == "missing"
Nothing == Both(Missing)
Inactive == "inactive"

\* The error of a system command or of a check, and any other exception.
Errors == {"failed", "internal"}
Results == Errors \cup {"none", "ok", "rollback_failed"}
Working == {"save", "write_timer", "write_service", "reload", "restart",
            "undo_timer", "undo_service", "undo_reload", "undo_restart"}
Steps == Working \cup {"idle", "dead"}

Goto(step) == pc' = step
Leave(text) == Goto("idle") /\ result' = text

-----------------------------------------------------------------------------
Init ==
    /\ pc = "idle"
    /\ \E c \in Contents : file = Both(c) /\ loaded = Both(c) /\ before = Both(c) /\ armed = c
    /\ saved = Nothing
    /\ want \in Schedules
    /\ error = "failed"
    /\ broken = FALSE
    /\ result = "none"
    /\ calls = 0

\* The panel hands a confirmed schedule to a helper; the lock keeps others out.
Begin(s) ==
    /\ pc \in {"idle", "dead"}
    /\ calls < MaxCalls
    /\ Goto("save")
    /\ before' = file /\ want' = s
    /\ saved' = Nothing
    /\ broken' = FALSE
    /\ result' = "none"
    /\ calls' = calls + 1
    /\ UNCHANGED <<state, error>>

\* Variant: a copy of the first drop-in has to do.
SaveTimerOnly ==
    /\ pc = "save"
    /\ saved' = [file EXCEPT !["service"] = NoDropin]
    /\ Goto("write_timer")
    /\ UNCHANGED <<state, call, error, broken, result, calls>>

\* The recovery point is new for each call and complete before anything changes.
Save ==
    /\ pc = "save"
    /\ \/ saved' = file /\ Goto("write_timer") /\ UNCHANGED result
       \/ \E e \in Errors : Leave(e) /\ UNCHANGED saved
    /\ UNCHANGED <<state, call, error, broken, calls>>

\* _atomic_root_file: the drop-in is replaced, or an error leaves it alone.
AtomicRootFile(d, c) == file' = [file EXCEPT ![d] = c]

\* An exception in the try block: remembered, and the old pair comes back.
Caught == error' \in Errors /\ Goto("undo_timer")

Write(step, d, next) ==
    /\ pc = step
    /\ \/ AtomicRootFile(d, want) /\ Goto(next) /\ UNCHANGED error
       \/ Caught /\ UNCHANGED file
    /\ UNCHANGED <<loaded, armed, call, saved, broken, result, calls>>

\* systemctl daemon-reload; one that fails or times out may have been done.  A
\* running timer may count by the new drop-in at once.
DaemonReload(ok) ==
    /\ loaded' \in IF ok THEN {file} ELSE {loaded, file}
    /\ armed' \in {armed} \cup (IF armed = Inactive THEN {} ELSE {loaded'["timer"]})
    /\ UNCHANGED file

\* systemctl restart of the timer; one that fails may leave it stopped.
RestartTimer(ok) ==
    /\ armed' \in IF ok THEN {loaded["timer"]} ELSE {armed, loaded["timer"], Inactive}
    /\ UNCHANGED <<file, loaded>>

Reload ==
    /\ pc = "reload"
    /\ \E ok \in BOOLEAN :
         /\ DaemonReload(ok)
         /\ IF ok THEN Goto("restart") /\ UNCHANGED error ELSE Caught
    /\ UNCHANGED <<call, saved, broken, result, calls>>

Restart ==
    /\ pc = "restart"
    /\ \E ok \in BOOLEAN :
         /\ RestartTimer(ok)
         /\ IF ok THEN Leave("ok") /\ UNCHANGED error ELSE Caught /\ UNCHANGED result
    /\ UNCHANGED <<call, saved, broken, calls>>

-----------------------------------------------------------------------------
(* The except block *)

\* Variant: only the first drop-in is put back.
UndoTimerOnly(step, d, next) ==
    /\ pc = step
    /\ AtomicRootFile("timer", saved["timer"]) /\ Goto(next)
    /\ UNCHANGED <<loaded, armed, call, saved, error, broken, result, calls>>

RollbackDone == UNCHANGED broken
RollbackFails == broken' = TRUE /\ (Leave("rollback_failed") \/ Leave("internal"))

\* _restore_schedule_dropins.  Its error, rollback_failed for incomplete copies
\* and an OSError otherwise, is caught by nothing.
Undo(step, d, next) ==
    /\ pc = step
    /\ \/ AtomicRootFile(d, saved[d]) /\ Goto(next) /\ RollbackDone /\ UNCHANGED result
       \/ RollbackFails /\ UNCHANGED file
    /\ UNCHANGED <<loaded, armed, call, saved, error, calls>>

\* A HelperError of the two commands becomes rollback_failed, another exception
\* stays what it is.
UndoReload ==
    /\ pc = "undo_reload"
    /\ \E ok \in BOOLEAN :
         /\ DaemonReload(ok)
         /\ \/ ok /\ Goto("undo_restart") /\ RollbackDone /\ UNCHANGED result
            \/ ~ok /\ RollbackFails
    /\ UNCHANGED <<call, saved, error, calls>>

UndoRestart ==
    /\ pc = "undo_restart"
    /\ \E ok \in BOOLEAN :
         /\ RestartTimer(ok)
         /\ \/ ok /\ Leave(error) /\ RollbackDone
            \/ ~ok /\ RollbackFails
    /\ UNCHANGED <<call, saved, error, calls>>

-----------------------------------------------------------------------------
\* Anybody on the host may reload systemd, and load half of a change.
SomeoneReloads ==
    /\ DaemonReload(TRUE)
    /\ UNCHANGED <<pc, call, saved, error, broken, result, calls>>

Die ==
    /\ CanDie
    /\ pc \in Working
    /\ Goto("dead")
    /\ UNCHANGED <<state, call, saved, error, broken, result, calls>>

Helper ==
    \/ Save
    \/ Write("write_timer", "timer", "write_service")
    \/ Write("write_service", "service", "reload")
    \/ Reload \/ Restart
    \/ Undo("undo_timer", "timer", "undo_service")
    \/ Undo("undo_service", "service", "undo_reload")
    \/ UndoReload \/ UndoRestart

Next == (\E s \in Schedules : Begin(s)) \/ Helper \/ SomeoneReloads \/ Die

Spec == Init /\ [][Next]_vars

-----------------------------------------------------------------------------
TypeOK ==
    /\ pc \in Steps
    /\ file \in Pairs /\ loaded \in Pairs /\ before \in Pairs
    /\ armed \in Contents \cup {Inactive}
    /\ saved \in [Dropins -> Contents \cup {Missing}]
    /\ want \in Schedules
    /\ error \in Errors
    /\ broken \in BOOLEAN
    /\ result \in Results
    /\ calls \in 0 .. MaxCalls

\* A schedule that files, systemd and the running timer agree on.
InForce(pair) == file = pair /\ loaded = pair /\ armed = pair["timer"]

\* RECOVERY.md:34, any failing step brings the earlier pair back.  A change that
\* succeeds is in force in both drop-ins, in systemd and in the running timer.  One
\* that ends otherwise, with whatever verdict, has left the files as they were and,
\* once its recovery point was complete, the earlier pair in force everywhere,
\* also when somebody else reloads systemd meanwhile, unless a step of the
\* rollback itself failed; and that is never reported as an ordinary failure.
VerdictMatchesSchedule ==
    /\ result = "ok" => InForce(Both(want))
    /\ result \notin {"none", "ok"} /\ ~broken =>
          file = before /\ (saved # Nothing => InForce(before))
    /\ broken => result \in {"rollback_failed", "internal"}
    /\ result = "rollback_failed" => broken

\* RECOVERY.md:34, a rollback that cannot be verified is reported as
\* rollback_failed: no other failure leaves drop-ins that the call has changed.
HalfPairIsReported ==
    pc = "idle" /\ result \notin {"none", "ok"} /\ file # before => result = "rollback_failed"

\* RECOVERY.md:34: the earlier drop-ins are copied before either is changed.  As
\* long as the files differ from what the call found, also after a rollback that
\* failed or a helper that was killed, the recovery point has both.
OldScheduleRecoverable == file # before => saved = before
=============================================================================
