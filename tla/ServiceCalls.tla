----------------------------- MODULE ServiceCalls -----------------------------
(***************************************************************************)
(* The calls of the root helper that start, stop or restart the Minecraft  *)
(* server or let the backup command do so (helper/mc_panel_action.py):     *)
(* start_server, stop_server, restart_server, create_backup, and           *)
(* restore_backup, which is module Restore.  One call per behaviour: the   *)
(* helper's lock keeps the next one out.  The unit moves by systemctl, by  *)
(* the backup command, by itself when it is on its way, and Java may crash *)
(* at any instant.                                                         *)
(***************************************************************************)
EXTENDS Restore

VARIABLES
    call,           \* the operation the helper was started for
    step,           \* the step a call other than restore is about to take
    backupError,    \* the exception create_backup holds while it recovers
    report          \* what such a call reports

local == <<call, step, backupError, report>>
restore == <<pc, data, input, safety, stopped, errors, result>>
callVars == <<vars, local>>

ServiceActions == {"start", "stop", "restart", "backup"}
CallSteps == {"command", "port", "active", "stopped", "reset", "archive",
              "ensure", "ensure_start", "ensure_active", "ensure_port", "done", "dead"}
\* "internal_error" is reported for an exception that is not a HelperError, where
\* that makes a difference: create_backup recovers only from a HelperError.
ReportTexts == {"none", "ok", "failed", "service_recovery_failed", "internal_error"}

Continue(next) == step' = next /\ UNCHANGED report
Report(text) == step' = "done" /\ report' = text

\* Variant: the game port is not asked.
PortNotAsked == TRUE

\* Java may answer on the game port unless it is gone; it need not in time.
PortMayAnswer == ~JavaGone

-----------------------------------------------------------------------------
CallInit ==
    /\ InitData
    /\ call \in ServiceActions \cup {"restore"}
    /\ IF call = "restore" THEN svc = "active" ELSE svc \in Services
    /\ call # "restore" => present = {} /\ incoming = Targets
    /\ step = "command"
    /\ backupError = FALSE
    /\ report = "none"

\* systemctl restart: done, or failed anywhere on its way.
SystemctlRestart(ok) ==
    IF ok THEN svc' = "active" ELSE svc' \in Services

\* The exit code of systemctl is the first thing start, stop and restart obey.
Command ==
    /\ step = "command" /\ call \in {"start", "stop", "restart"}
    /\ \E ok \in BOOLEAN :
         /\ \/ call = "start" /\ SystemctlStart(ok)
            \/ call = "stop" /\ SystemctlStop(ok)
            \/ call = "restart" /\ SystemctlRestart(ok)
         /\ IF ok THEN Continue(IF call = "stop" THEN "stopped" ELSE "port")
                  ELSE Report("failed")
    /\ UNCHANGED <<call, backupError, disturbed>>

\* The game port within 180 s, then is-active, in this order.
WaitPort ==
    /\ step = "port"
    /\ \/ PortMayAnswer /\ Continue("active")
       \/ Report("failed")
    /\ UNCHANGED <<unit, call, backupError>>

CheckActive ==
    /\ step = "active"
    /\ \/ IsActive /\ Report("ok")
       \/ Report("failed")
    /\ UNCHANGED <<unit, call, backupError>>

\* stop_server looks at the unit again and clears its failed state.
CheckStopped ==
    /\ step = "stopped"
    /\ \/ FoundNotActive /\ Continue("reset")
       \/ Report("failed") /\ UNCHANGED disturbed
    /\ UNCHANGED <<svc, call, backupError>>

ResetFailed ==
    /\ step = "reset"
    /\ Report("ok") \/ Report("failed")
    /\ UNCHANGED <<unit, call, backupError>>

-----------------------------------------------------------------------------
(* create_backup and _ensure_minecraft_ready *)

\* Variant: the error of the backup is reported at once.
ReportError(error) == IF error THEN Report("failed") ELSE Continue("ensure")

\* With or without a new archive, the server has to be up before create_backup
\* leaves; an error is held until then.
ThenEnsure(error) == Continue("ensure")

\* The backup command stops the server, archives it and starts it again.  Only a
\* HelperError is caught, here and in the next step: an error of the operating
\* system leaves create_backup at once.
BackupCommand ==
    /\ step = "command" /\ call = "backup"
    /\ svc' \in {svc, "active", "activating", "inactive"}
    /\ \/ Continue("archive") /\ UNCHANGED backupError
       \/ backupError' = TRUE /\ ThenEnsure(TRUE)
       \/ Report("internal_error") /\ UNCHANGED backupError
    /\ UNCHANGED <<call, disturbed>>

\* The new archive is looked for, verified and recorded.
NewArchive ==
    /\ step = "archive"
    /\ \/ \E error \in BOOLEAN : backupError' = error /\ ThenEnsure(error)
       \/ Report("internal_error") /\ UNCHANGED backupError
    /\ UNCHANGED <<unit, call>>

NotReady == Report("service_recovery_failed")

Ensure ==
    /\ step = "ensure"
    /\ \/ IsActive /\ Continue("ensure_active")
       \/ ~IsActive /\ Continue("ensure_start")
       \/ NotReady
    /\ UNCHANGED <<unit, call, backupError>>

EnsureStart ==
    /\ step = "ensure_start"
    /\ \/ SystemctlStart(TRUE) /\ Continue("ensure_active")
       \/ SystemctlStart(FALSE) /\ (NotReady \/ Report("internal_error"))
    /\ UNCHANGED <<call, backupError, disturbed>>

EnsureActive ==
    /\ step = "ensure_active"
    /\ \/ IsActive /\ Continue("ensure_port")
       \/ NotReady
    /\ UNCHANGED <<unit, call, backupError>>

EnsurePort ==
    /\ step = "ensure_port"
    /\ \/ PortMayAnswer /\ Report(IF backupError THEN "failed" ELSE "ok")
       \/ NotReady
    /\ UNCHANGED <<unit, call, backupError>>

-----------------------------------------------------------------------------
(* Around the helper.  A restore is judged without crashes of Java, all calls
   with the scheduled backup beside them. *)

\* Java crashes; the unit may say that systemd is to restart it.
Crash ==
    /\ call # "restore"
    /\ svc = "active"
    /\ svc' \in {"inactive", "activating"}
    /\ UNCHANGED <<disturbed, restore, local>>

\* A unit on its way arrives, as in Restore.
Settle ==
    /\ ServiceSettles
    /\ UNCHANGED local

Timer ==
    /\ TimerStops \/ TimerStarts
    /\ UNCHANGED local

\* The helper is killed with the panel's unit, as in Restore.
Killed ==
    \/ call = "restore" /\ Die /\ UNCHANGED local
    \/ /\ CanDie /\ call # "restore"
       /\ step \notin {"done", "dead"} /\ step' = "dead"
       /\ UNCHANGED <<vars, call, backupError, report>>

ServiceCall ==
    \/ Command \/ WaitPort \/ CheckActive \/ CheckStopped \/ ResetFailed
    \/ BackupCommand \/ NewArchive
    \/ Ensure \/ EnsureStart \/ EnsureActive \/ EnsurePort

Work ==
    \/ call = "restore" /\ Helper /\ UNCHANGED local
    \/ call # "restore" /\ ServiceCall /\ UNCHANGED restore

CallNext ==
    \/ Work \/ Settle \/ Crash \/ Timer \/ Killed

\* Every command the helper runs and every wait has a timeout; systemd finishes
\* what it began.
CallSpec ==
    CallInit /\ [][CallNext]_callVars /\ WF_callVars(Work) /\ WF_callVars(Settle)

-----------------------------------------------------------------------------
\* The restore and the rest of a call keep to their values.
CallTypeOK ==
    /\ TypeOK
    /\ call \in ServiceActions \cup {"restore"}
    /\ step \in CallSteps
    /\ backupError \in BOOLEAN
    /\ report \in ReportTexts

\* The instant at which a call other than restore answers.
Reports(text) == report = "none" /\ report' = text
ServerUp == svc \in {"active", "activating"}

\* The answer is true when it is given: a start, a restart or a backup that
\* reports success leaves Java up, though it may have crashed, or the timer's
\* backup stopped it, between any two of the checks; a stop leaves it down,
\* unless that backup started it where the last is-active did not see it.
VerdictMatchesService ==
    [][Reports("ok") => IF call = "stop" THEN JavaGone \/ disturbed ELSE ServerUp]_callVars

\* RECOVERY.md:5: no failure of the panel may bring Minecraft down.  The backup
\* command stops the server.  Whichever step of create_backup then raised a
\* HelperError, the server is up when the error is reported, or the report is
\* service_recovery_failed.  Of an exception of another kind, which
\* create_backup does not catch (helper:476), the property says nothing: it is
\* reported as internal_error, and the server may be down without a word.
CaughtBackupErrorLeavesServerUp ==
    [][call = "backup" /\ Reports("failed") => ServerUp]_callVars

\* Every call of the helper ends with a verdict, through every recovery, unless
\* it is killed.
Left == IF call = "restore" THEN pc \in {"done", "dead"} ELSE step \in {"done", "dead"}
CallTerminates == <>Left
=============================================================================
