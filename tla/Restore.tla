------------------------------- MODULE Restore -------------------------------
(***************************************************************************)
(* restore_backup of the root helper (helper/mc_panel_action.py) with its  *)
(* rollback: the current data of the Minecraft server is set aside and     *)
(* replaced, target by target, by the data of a verified archive, while    *)
(* the service is stopped; whatever fails afterwards puts the original     *)
(* data back.  One step per system command and per rename, so that the     *)
(* service changes state, and the helper dies, between any two of them.    *)
(***************************************************************************)
EXTENDS Naturals, FiniteSets

CONSTANTS
    Targets,        \* the restorable names under the server root
    CanDie,         \* the helper may be killed between two steps
    TimerRuns       \* the scheduled backup, outside the helper's lock, may run

ASSUME FlagsAssumption == CanDie \in BOOLEAN /\ TimerRuns \in BOOLEAN

VARIABLES
    pc,         \* the step the helper is about to take
    svc,        \* state of the Minecraft unit
    at,         \* at[d][t]: which data of target t directory d holds
    present,    \* targets the server had when the call started
    incoming,   \* targets found in the archive
    moved,      \* moved_old
    installed,  \* installed_new
    safety,     \* the safety backup: none, or made and verified
    stopped,    \* the helper asked systemd to stop the server
    errors,     \* errors of _rollback_restore
    result,     \* what the helper reports when it leaves
    disturbed   \* history: the timer's backup started the server, and no later
                \* is-active of the helper has seen that it did

unit == <<svc, disturbed>>
data == <<at, moved, installed>>
input == <<present, incoming>>
vars == <<pc, unit, data, input, safety, stopped, errors, result>>

Directories == {"root", "recovery", "staging", "failed_new"}
Data == {"none", "old", "new"}
Services == {"inactive", "activating", "active", "deactivating"}
Steps == {"preflight", "safety", "verify", "stop", "stop_check", "recover", "recover_start",
          "stage", "install", "start", "ready", "rb_stop", "rb_check", "rb_new", "rb_old",
          "rb_start", "rb_ready", "done", "dead"}
\* "failed" is the error that was met, reported after what recovers from it;
\* "escaped" is the internal_error of an exception that passes the recovery by,
\* since only a HelperError is caught there.
Results == {"none", "ok", "failed", "rollback_failed", "escaped"}

\* Java runs, and may write its files, in every state but this one.
JavaGone == svc = "inactive"

\* systemctl is-active: the transitional states are not active.
IsActive == svc = "active"

\* os.replace(from/t, to/t) overwrites what it finds.
Rename(t, from, to) ==
    at' = [at EXCEPT ![to][t] = at[from][t], ![from][t] = "none"]

Goto(step) == pc' = step

\* Variant for the sensitivity runs, like every definition whose comment calls it
\* one: the recovery point is cleaned up too.
LeaveClean(text) ==
    /\ Goto("done")
    /\ result' = text
    /\ at' = [at EXCEPT !["staging"] = [t \in Targets |-> "none"],
                        !["recovery"] = [t \in Targets |-> "none"]]

\* Leaving restore_backup runs its finally clause: the staging tree is removed.
Leave(text) ==
    /\ Goto("done")
    /\ result' = text
    /\ at' = [at EXCEPT !["staging"] = [t \in Targets |-> "none"]]

-----------------------------------------------------------------------------
\* What the helper finds on the disk, and its empty locals.
InitData ==
    /\ pc = "preflight"
    /\ present \in SUBSET Targets
    /\ incoming \in (SUBSET Targets) \ {{}}
    /\ at = [d \in Directories |-> [t \in Targets |->
                IF d = "root" /\ t \in present THEN "old" ELSE "none"]]
    /\ moved = {} /\ installed = {}
    /\ safety = "none"
    /\ stopped = FALSE
    /\ errors = {}
    /\ result = "none"
    /\ disturbed = FALSE

Init == InitData /\ svc = "active"

\* Archive lookup and verification, recovery root, symlinks, disk space.
Preflight ==
    /\ pc = "preflight"
    /\ \/ Goto("safety") /\ UNCHANGED <<at, result>>
       \/ Leave("failed")
    /\ UNCHANGED <<unit, moved, installed, input, safety, stopped, errors>>

\* The cold-backup command stops the server, archives it and starts it again.
\* A command that fails, or is killed at its timeout, may leave the server
\* anywhere on that way; _run raises and nothing here starts it again.
SafetyBackup ==
    /\ pc = "safety"
    /\ svc' \in {"active", "activating", "inactive"}
    /\ \/ Goto("verify") /\ UNCHANGED <<at, result>>
       \/ Leave("failed")
    /\ UNCHANGED <<moved, installed, input, safety, stopped, errors, disturbed>>

\* The new archive is found, verified and recorded, and the target archive is
\* still the file that was verified.
VerifySafety ==
    /\ pc = "verify"
    /\ \/ Goto("stop") /\ safety' = "verified" /\ UNCHANGED <<at, result>>
       \/ Leave("failed") /\ UNCHANGED safety
    /\ UNCHANGED <<unit, moved, installed, input, stopped, errors>>

\* Variant: systemd's own name of the state is kept.
SystemctlStopRaw(ok) == svc' = IF ok THEN "dead" ELSE svc

\* systemctl stop: done, refused, or still going on when the 180 s are over.
\* ok says whether _run returned.
SystemctlStop(ok) ==
    IF ok THEN svc' = "inactive"
          ELSE svc' \in {svc, "inactive"} \cup (IF JavaGone THEN {} ELSE {"deactivating"})

\* systemctl start: done, or failed with the unit down or still on its way.
SystemctlStart(ok) ==
    IF ok THEN svc' = "active" ELSE svc' \in {svc, "inactive", "activating"}

\* Variant: the exit code of systemctl stop is not looked at.
AfterAnyStop(ok) == "stop_check"
AfterStop(ok) == IF ok THEN "stop_check" ELSE "recover"

\* An error of the operating system around the command is not a HelperError.
Stop ==
    /\ pc = "stop"
    /\ stopped' = TRUE
    /\ \/ \E ok \in BOOLEAN :
            SystemctlStop(ok) /\ Goto(AfterStop(ok)) /\ UNCHANGED <<at, result>>
       \/ SystemctlStop(FALSE) /\ Leave("escaped")
    /\ UNCHANGED <<moved, installed, input, safety, errors, disturbed>>

\* An is-active that finds the unit not active: of a start by the timer it has
\* then seen all but one that is still under way.
FoundNotActive ==
    /\ ~IsActive
    /\ disturbed' = (disturbed /\ svc = "activating")

\* is-active may itself fail, which counts as a failed stop.
StopCheck ==
    /\ pc = "stop_check"
    /\ \/ FoundNotActive /\ Goto("stage")
       \/ Goto("recover") /\ UNCHANGED disturbed
    /\ UNCHANGED <<svc, data, input, safety, stopped, errors, result>>

\* Variant: the error of the stop is reported at once.
RecoverNothing ==
    /\ pc = "recover"
    /\ Leave("failed")
    /\ UNCHANGED <<unit, moved, installed, input, safety, stopped, errors>>

\* The stop failed: a server that is not active is started again, and only then
\* is the original error reported.
Recover ==
    /\ pc = "recover"
    /\ \/ IsActive /\ Leave("failed")
       \/ ~IsActive /\ Goto("recover_start") /\ UNCHANGED <<at, result>>
       \/ Leave("rollback_failed")
    /\ UNCHANGED <<unit, moved, installed, input, safety, stopped, errors>>

RecoverStart ==
    /\ pc = "recover_start"
    /\ \E ok, answers \in BOOLEAN :
         /\ SystemctlStart(ok)
         /\ \/ Leave(IF ok /\ answers THEN "failed" ELSE "rollback_failed")
            \/ ~ok /\ Leave("escaped")
    /\ UNCHANGED <<moved, installed, input, safety, stopped, errors, disturbed>>

-----------------------------------------------------------------------------
(* The guarded block: every exception below leads to _rollback_restore. *)

Raise == Goto("rb_stop") /\ UNCHANGED data

\* Staging and recovery directories, extraction, owner; the extraction refuses
\* an archive that is no longer the verified file.
Stage ==
    /\ pc = "stage"
    /\ \/ /\ at' = [at EXCEPT !["staging"] =
                        [t \in Targets |-> IF t \in incoming THEN "new" ELSE "none"]]
          /\ Goto("install")
          /\ UNCHANGED <<moved, installed>>
       \/ Raise
    /\ UNCHANGED <<unit, input, safety, stopped, errors, result>>

\* Setting the current data of a target aside.
SetAside(t) ==
    /\ pc = "install"
    /\ at["staging"][t] # "none"
    /\ at["root"][t] # "none"
    /\ moved \subseteq installed
    /\ Rename(t, "root", "recovery")
    /\ moved' = moved \cup {t}
    /\ Goto("install")
    /\ UNCHANGED <<unit, installed, input, safety, stopped, errors, result>>

\* A target is finished before the next one is set aside.
PutInPlace(t) ==
    /\ pc = "install"
    /\ at["staging"][t] # "none"
    /\ at["root"][t] = "none"
    /\ moved \ installed \subseteq {t}
    /\ Rename(t, "staging", "root")
    /\ installed' = installed \cup {t}
    /\ Goto("install")
    /\ UNCHANGED <<unit, moved, input, safety, stopped, errors, result>>

InstallFails ==
    /\ pc = "install"
    /\ Raise
    /\ UNCHANGED <<unit, input, safety, stopped, errors, result>>

\* Variant: the loop ends at the first target in place.
SomeInstalled == installed # {}
AllInstalled == \A t \in Targets : at["staging"][t] = "none"

Start ==
    /\ pc = "install"
    /\ AllInstalled
    /\ \E ok \in BOOLEAN : SystemctlStart(ok) /\ Goto(IF ok THEN "ready" ELSE "rb_stop")
    /\ UNCHANGED <<data, input, safety, stopped, errors, result, disturbed>>

\* is-active and the game port within 240 s.
Ready ==
    /\ pc = "ready"
    /\ \E answers \in BOOLEAN :
         IF IsActive /\ answers
           THEN Leave("ok") /\ UNCHANGED <<moved, installed>>
           ELSE Raise /\ UNCHANGED result
    /\ UNCHANGED <<unit, input, safety, stopped, errors>>

-----------------------------------------------------------------------------
(* _rollback_restore *)

\* A failed stop is written down and the rollback goes on; an exception other
\* than HelperError ends it.
RollbackStop ==
    /\ pc = "rb_stop"
    /\ \/ \E ok \in BOOLEAN :
            /\ SystemctlStop(ok)
            /\ errors' = IF ok THEN errors ELSE errors \cup {"stop"}
            /\ Goto("rb_check") /\ UNCHANGED <<at, result>>
       \/ SystemctlStop(FALSE) /\ Leave("rollback_failed") /\ UNCHANGED errors
    /\ UNCHANGED <<moved, installed, input, safety, stopped, disturbed>>

\* A server that is still active keeps the files it runs on.
RollbackCheck ==
    /\ pc = "rb_check"
    /\ \/ FoundNotActive /\ Goto("rb_new") /\ UNCHANGED <<at, result>>
       \/ Leave("rollback_failed") /\ UNCHANGED disturbed
    /\ UNCHANGED <<svc, moved, installed, input, safety, stopped, errors>>

RemoveNew(t) ==
    /\ pc = "rb_new"
    /\ t \in installed /\ at["root"][t] # "none"
    /\ Rename(t, "root", "failed_new")
    /\ Goto("rb_new")
    /\ UNCHANGED <<unit, moved, installed, input, safety, stopped, errors, result>>

NewRemoved ==
    /\ pc = "rb_new"
    /\ \A t \in installed : at["root"][t] = "none"
    /\ Goto("rb_old")
    /\ UNCHANGED <<unit, data, input, safety, stopped, errors, result>>

PutBack(t) ==
    /\ pc = "rb_old"
    /\ t \in moved /\ at["recovery"][t] # "none"
    /\ Rename(t, "recovery", "root")
    /\ Goto("rb_old")
    /\ UNCHANGED <<unit, moved, installed, input, safety, stopped, errors, result>>

OldBack ==
    /\ pc = "rb_old"
    /\ \A t \in moved : at["recovery"][t] = "none"
    /\ Goto("rb_start")
    /\ UNCHANGED <<unit, data, input, safety, stopped, errors, result>>

\* An OSError ends the moves; the server is started on what is there.
MoveFails ==
    /\ pc \in {"rb_new", "rb_old"}
    /\ errors' = errors \cup {"restore"}
    /\ Goto("rb_start")
    /\ UNCHANGED <<unit, data, input, safety, stopped, result>>

RollbackStart ==
    /\ pc = "rb_start"
    /\ \/ \E ok \in BOOLEAN :
            /\ SystemctlStart(ok)
            /\ errors' = IF ok THEN errors ELSE errors \cup {"start"}
            /\ Goto("rb_ready") /\ UNCHANGED <<at, result>>
       \/ SystemctlStart(FALSE) /\ Leave("rollback_failed") /\ UNCHANGED errors
    /\ UNCHANGED <<moved, installed, input, safety, stopped, disturbed>>

\* Variant: what went wrong before the last check is forgotten.
CleanAtLast(answers) == IsActive /\ answers
Clean(answers) == errors = {} /\ IsActive /\ answers

\* Variant: a rollback that could not be verified is tried again.
RollbackRetry ==
    /\ pc = "rb_ready"
    /\ \E answers \in BOOLEAN :
         IF Clean(answers) THEN Leave("failed") ELSE Goto("rb_stop") /\ UNCHANGED <<at, result>>
    /\ UNCHANGED <<unit, moved, installed, input, safety, stopped, errors>>

RollbackReady ==
    /\ pc = "rb_ready"
    /\ \E answers \in BOOLEAN :
         Leave(IF Clean(answers) THEN "failed" ELSE "rollback_failed")
    /\ UNCHANGED <<unit, moved, installed, input, safety, stopped, errors>>

-----------------------------------------------------------------------------
(* Around the helper *)

\* A unit on its way arrives: Java comes up or gives up, or has gone.
ServiceSettles ==
    /\ \/ svc = "activating" /\ svc' \in {"active", "inactive"}
       \/ svc = "deactivating" /\ svc' = "inactive"
    /\ UNCHANGED <<pc, data, input, safety, stopped, errors, result, disturbed>>

\* The backup timer runs the same cold-backup command without the lock: it stops
\* the server, archives it and starts it again.
TimerStops ==
    /\ TimerRuns
    /\ svc = "active" /\ svc' = "inactive"
    /\ UNCHANGED <<pc, data, input, safety, stopped, errors, result, disturbed>>

TimerStarts ==
    /\ TimerRuns
    /\ svc = "inactive" /\ svc' \in {"activating", "active"}
    /\ disturbed' = TRUE
    /\ UNCHANGED <<pc, data, input, safety, stopped, errors, result>>

\* The helper belongs to the panel's unit: systemd kills it with the unit.  No
\* clause of the code runs any more, and no start of anything looks for it.
Die ==
    /\ CanDie
    /\ pc \notin {"done", "dead"}
    /\ Goto("dead")
    /\ UNCHANGED <<unit, data, input, safety, stopped, errors, result>>

Helper ==
    \/ Preflight \/ SafetyBackup \/ VerifySafety
    \/ Stop \/ StopCheck \/ Recover \/ RecoverStart
    \/ Stage \/ InstallFails \/ Start \/ Ready
    \/ RollbackStop \/ RollbackCheck \/ NewRemoved \/ OldBack \/ MoveFails
    \/ RollbackStart \/ RollbackReady
    \/ \E t \in Targets : SetAside(t) \/ PutInPlace(t) \/ RemoveNew(t) \/ PutBack(t)

Next == Helper \/ ServiceSettles \/ TimerStops \/ TimerStarts \/ Die

Spec == Init /\ [][Next]_vars

-----------------------------------------------------------------------------
TypeOK ==
    /\ pc \in Steps
    /\ svc \in Services
    /\ at \in [Directories -> [Targets -> Data]]
    /\ present \subseteq Targets /\ incoming \subseteq Targets
    /\ moved \subseteq Targets /\ installed \subseteq Targets
    /\ safety \in {"none", "verified"}
    /\ stopped \in BOOLEAN
    /\ errors \subseteq {"stop", "restore", "start"}
    /\ result \in Results
    /\ disturbed \in BOOLEAN

Original == at["root"] = [t \in Targets |-> IF t \in present THEN "old" ELSE "none"]
Restored == at["root"] = [t \in Targets |-> IF t \in incoming THEN "new"
                                            ELSE IF t \in present THEN "old" ELSE "none"]
SetAsideData == \A t \in present \cap incoming : at["recovery"][t] = "old"

\* RECOVERY.md: no failing step deletes the old world.  At every instant, also
\* after the helper was killed between two renames, the data the server had is
\* whole: each target is in place or at the recovery point.
OldDataKept ==
    \A t \in present : at["root"][t] = "old" \/ at["recovery"][t] = "old"

\* The verdict and the disk agree.  Success: every target of the archive is in
\* place and what it replaced is at the recovery point.  Any failure other
\* than rollback_failed: the server has exactly the data it started with.
VerdictMatchesData ==
    /\ result = "ok" => Restored /\ SetAsideData
    /\ result \in {"failed", "escaped"} => Original

\* A restore that stopped the server does not leave it down in silence: at the
\* instant it leaves the server is active, also when a step failed, unless it
\* reports rollback_failed, or an exception that is no HelperError came out of
\* the stop itself (helper:899) or of the start that recovers from it: nothing
\* catches that one, and the server may be down.
Leaves == pc # "done" /\ pc' = "done"
ServerBackAfterStop ==
    [][Leaves /\ stopped' /\ result' \notin {"rollback_failed", "escaped"}
          => svc' = "active"]_vars

\* RECOVERY.md:5: no failure of the panel may bring Minecraft down.  A restore
\* that did not report rollback_failed left the server active.
NoFailureBringsServerDown ==
    pc = "done" /\ result = "failed" => svc \in {"active", "activating"}

\* RECOVERY.md:64: the data is touched after Java is gone, and behind a verified
\* safety backup.  The helper asks is-active once (helper:900) and renames after
\* the extraction; the timer's backup takes no lock, so Java is gone unless that
\* backup started it after the question, or was still starting it at the time.
InstallsOnStoppedServer ==
    [][at'["root"] # at["root"] /\ pc = "install"
          => safety = "verified" /\ (JavaGone \/ disturbed)]_vars

\* Java never runs, nor starts, nor is still stopping, on a mixture of old and new
\* data: while it is not gone the server has the data it started with or the
\* whole of the archive.  Excepted are a rollback that already has an error to
\* report, and a server the timer's backup started where no is-active saw it.
RunsOnWholeData ==
    JavaGone \/ disturbed \/ errors # {} \/ Original \/ Restored
=============================================================================
