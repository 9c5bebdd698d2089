---------------------------- MODULE RestoreProofs ----------------------------
(***************************************************************************)
(* Theorems about Restore, for every set of restorable targets and every   *)
(* order in which the helper takes them, with or without a killed helper   *)
(* and a scheduled backup beside it; and about ServiceCalls, the calls     *)
(* that move the service, Java crashing at any instant.                    *)
(***************************************************************************)
EXTENDS ServiceCalls, TLAPS

\* The type of the variables the renames touch; the rest of TypeOK is not
\* needed below.
Placed ==
    /\ at \in [Directories -> [Targets -> Data]]
    /\ present \subseteq Targets /\ incoming \subseteq Targets
    /\ moved \subseteq Targets /\ installed \subseteq Targets

BeforeStage == {"preflight", "safety", "verify", "stop", "stop_check", "recover",
                "recover_start", "stage"}
BeforePutBack == {"install", "ready", "rb_stop", "rb_check", "rb_new"}

\* Before the archive is extracted nothing has moved.
Untouched ==
    pc \in BeforeStage =>
        /\ moved = {} /\ installed = {}
        /\ \A t \in Targets : at["root"][t] # "new" /\ at["staging"][t] = "none"

\* New data is staged for targets not yet installed, and only new data; what is
\* under the root in its stead is then the old data or nothing.
StagedApart ==
    \A t \in Targets :
        at["staging"][t] # "none" =>
            at["staging"][t] = "new" /\ at["root"][t] # "new" /\ t \notin installed

\* Until the rollback puts data back, an installed target is not the old one.
InstalledIsNew ==
    pc \in BeforePutBack => \A t \in installed : at["root"][t] # "old"

RecoveryIsOld == \A t \in Targets : at["recovery"][t] \in {"none", "old"}

KeptInv ==
    Placed /\ Untouched /\ StagedApart /\ InstalledIsNew /\ RecoveryIsOld /\ OldDataKept

LEMMA KeptInitially == Init => KeptInv
BY DEF Init, InitData, KeptInv, Placed, Untouched, StagedApart, InstalledIsNew, RecoveryIsOld,
       OldDataKept, Directories, Data, BeforeStage, BeforePutBack

\* One rename: the two directories it touches, and everything it leaves alone.
LEMMA RenameEffect ==
    ASSUME Placed, NEW t \in Targets, NEW from \in Directories, NEW to \in Directories,
           from # to, Rename(t, from, to)
    PROVE  /\ at' \in [Directories -> [Targets -> Data]]
           /\ at'[to][t] = at[from][t]
           /\ at'[from][t] = "none"
           /\ \A u \in Targets : u # t => \A d \in Directories : at'[d][u] = at[d][u]
           /\ \A d \in Directories \ {from, to} : at'[d][t] = at[d][t]
<1>1. at[from][t] \in Data /\ "none" \in Data
  BY DEF Placed, Data
<1>2. QED
  BY <1>1 DEF Rename, Placed

\* Leaving empties the staging tree and nothing else.
LEMMA LeaveEffect ==
    ASSUME Placed, NEW text, Leave(text)
    PROVE  /\ pc' = "done"
           /\ at' \in [Directories -> [Targets -> Data]]
           /\ \A u \in Targets : at'["staging"][u] = "none"
           /\ \A d \in Directories \ {"staging"} : at'[d] = at[d]
BY DEF Leave, Goto, Placed, Directories, Data

LEMMA KeptByLeaving ==
    ASSUME KeptInv, NEW text, Leave(text), UNCHANGED <<moved, installed, input>>
    PROVE  KeptInv'
<1>1. Placed
  BY DEF KeptInv
<1>2. /\ pc' = "done"
      /\ at' \in [Directories -> [Targets -> Data]]
      /\ \A u \in Targets : at'["staging"][u] = "none"
      /\ at'["root"] = at["root"] /\ at'["recovery"] = at["recovery"]
  BY <1>1, LeaveEffect DEF Directories
<1>3. QED
  BY <1>2 DEF KeptInv, Placed, Untouched, StagedApart, InstalledIsNew, RecoveryIsOld,
              OldDataKept, input, BeforeStage, BeforePutBack

\* Any step that moves no data and does not go back to an earlier phase.
LEMMA KeptByStanding ==
    ASSUME KeptInv, UNCHANGED <<at, moved, installed, input>>,
           pc' \in BeforeStage => pc \in BeforeStage,
           pc' \in BeforePutBack => pc \in BeforePutBack \cup BeforeStage
    PROVE  KeptInv'
BY DEF KeptInv, Placed, Untouched, StagedApart, InstalledIsNew, RecoveryIsOld, OldDataKept,
       input

LEMMA KeptStep == KeptInv /\ [Next]_vars => KeptInv'
<1> SUFFICES ASSUME KeptInv, [Next]_vars PROVE KeptInv'
  OBVIOUS
<1> USE DEF Goto, data
<1>p. Placed /\ {"root", "recovery", "staging", "failed_new"} \subseteq Directories
  BY DEF KeptInv, Directories
<1>1. CASE \E text \in Results : Leave(text) /\ UNCHANGED <<moved, installed, input>>
  BY <1>1, KeptByLeaving
<1>2. CASE Preflight \/ SafetyBackup \/ VerifySafety \/ Recover \/ RollbackCheck
           \/ Stop \/ RollbackStop \/ RollbackStart
  BY <1>2, KeptByLeaving, KeptByStanding
     DEF Preflight, SafetyBackup, VerifySafety, Recover, RollbackCheck, Stop, AfterStop,
         RollbackStop, RollbackStart, BeforeStage, BeforePutBack
<1>3. CASE StopCheck \/ Start \/ OldBack \/ NewRemoved \/ MoveFails \/ InstallFails
  BY <1>3, KeptByStanding
     DEF StopCheck, Start, OldBack, NewRemoved, MoveFails,
         InstallFails, Raise, BeforeStage, BeforePutBack
<1>4. CASE RecoverStart \/ RollbackReady
  BY <1>4, KeptByLeaving DEF RecoverStart, RollbackReady
<1>5. CASE Ready
  BY <1>5, KeptByLeaving, KeptByStanding DEF Ready, Raise, BeforeStage, BeforePutBack
\* Extraction fills the staging tree while nothing has moved yet.
<1>6. CASE Stage
  <2>1. CASE Raise
    BY <1>6, <2>1, KeptByStanding DEF Stage, Raise, BeforeStage, BeforePutBack
  <2>2. CASE at' = [at EXCEPT !["staging"] =
                      [t \in Targets |-> IF t \in incoming THEN "new" ELSE "none"]]
             /\ Goto("install") /\ UNCHANGED <<moved, installed>>
    <3>1. /\ at' \in [Directories -> [Targets -> Data]]
          /\ at'["root"] = at["root"] /\ at'["recovery"] = at["recovery"]
          /\ \A t \in Targets : at'["staging"][t] \in {"none", "new"}
      BY <1>p, <2>2 DEF Placed, Directories, Data
    <3>2. pc = "stage" /\ pc' = "install" /\ UNCHANGED <<moved, installed, input>>
      BY <1>6, <2>2 DEF Stage
    <3>3. QED
      BY <3>1, <3>2 DEF KeptInv, Placed, Untouched, StagedApart, InstalledIsNew,
                        RecoveryIsOld, OldDataKept, input, BeforeStage, BeforePutBack
  <2>3. QED
    BY <1>6, <2>1, <2>2 DEF Stage
\* What is set aside is old, and the recovery point holds nothing of t yet.
<1>7. ASSUME NEW t \in Targets, SetAside(t) PROVE KeptInv'
  <2>1. /\ at' \in [Directories -> [Targets -> Data]]
        /\ at'["recovery"][t] = at["root"][t] /\ at'["root"][t] = "none"
        /\ at'["staging"][t] = at["staging"][t]
        /\ \A u \in Targets : u # t => \A d \in Directories : at'[d][u] = at[d][u]
    BY <1>p, <1>7, RenameEffect DEF SetAside
  <2>2. /\ pc = "install" /\ pc' = "install"
        /\ at["root"][t] = "old"
        /\ moved' = moved \cup {t}
        /\ UNCHANGED <<installed, input>>
    BY <1>p, <1>7 DEF SetAside, KeptInv, StagedApart, Placed, Data, Directories
  <2>3. \A u \in Targets : u # t =>
           /\ at'["root"][u] = at["root"][u] /\ at'["recovery"][u] = at["recovery"][u]
           /\ at'["staging"][u] = at["staging"][u]
    BY <1>p, <2>1
  <2>4. Placed' /\ Untouched'
    BY <1>p, <2>1, <2>2 DEF Placed, Untouched, input, BeforeStage
  <2>5. StagedApart'
    BY <2>1, <2>2, <2>3 DEF KeptInv, StagedApart
  <2>6. InstalledIsNew'
    BY <1>p, <2>1, <2>2, <2>3 DEF KeptInv, Placed, InstalledIsNew, BeforePutBack
  <2>7. RecoveryIsOld'
    BY <2>1, <2>2, <2>3 DEF KeptInv, RecoveryIsOld
  <2>8. OldDataKept'
    BY <1>p, <2>1, <2>2, <2>3 DEF KeptInv, Placed, OldDataKept, input
  <2>9. QED
    BY <2>4, <2>5, <2>6, <2>7, <2>8 DEF KeptInv
\* Nothing is under the root, so the old data, if any, is at the recovery point.
<1>8. ASSUME NEW t \in Targets, PutInPlace(t) PROVE KeptInv'
  <2>1. /\ at' \in [Directories -> [Targets -> Data]]
        /\ at'["root"][t] = at["staging"][t] /\ at'["staging"][t] = "none"
        /\ at'["recovery"][t] = at["recovery"][t]
        /\ \A u \in Targets : u # t => \A d \in Directories : at'[d][u] = at[d][u]
    BY <1>p, <1>8, RenameEffect DEF PutInPlace
  <2>2. /\ pc = "install" /\ pc' = "install"
        /\ at["root"][t] = "none" /\ at["staging"][t] = "new"
        /\ installed' = installed \cup {t}
        /\ UNCHANGED <<moved, input>>
    BY <1>8 DEF PutInPlace, KeptInv, StagedApart
  <2>3. \A u \in Targets : u # t =>
           /\ at'["root"][u] = at["root"][u] /\ at'["recovery"][u] = at["recovery"][u]
           /\ at'["staging"][u] = at["staging"][u]
    BY <1>p, <2>1
  <2>4. Placed' /\ Untouched'
    BY <1>p, <2>1, <2>2 DEF Placed, Untouched, input, BeforeStage
  <2>5. StagedApart'
    BY <2>1, <2>2, <2>3 DEF KeptInv, StagedApart
  <2>6. InstalledIsNew'
    BY <1>p, <2>1, <2>2, <2>3 DEF KeptInv, Placed, InstalledIsNew, BeforePutBack
  <2>7. RecoveryIsOld'
    BY <2>1, <2>2, <2>3 DEF KeptInv, RecoveryIsOld
  <2>8. OldDataKept'
    BY <1>p, <2>1, <2>2, <2>3 DEF KeptInv, Placed, OldDataKept, input
  <2>9. QED
    BY <2>4, <2>5, <2>6, <2>7, <2>8 DEF KeptInv
\* What leaves the root for failed-new-data is not the old data.
<1>9. ASSUME NEW t \in Targets, RemoveNew(t) PROVE KeptInv'
  <2>1. /\ at' \in [Directories -> [Targets -> Data]]
        /\ at'["root"][t] = "none"
        /\ at'["recovery"][t] = at["recovery"][t] /\ at'["staging"][t] = at["staging"][t]
        /\ \A u \in Targets : u # t => \A d \in Directories : at'[d][u] = at[d][u]
    BY <1>p, <1>9, RenameEffect DEF RemoveNew
  <2>2. /\ pc = "rb_new" /\ pc' = "rb_new"
        /\ at["root"][t] # "old"
        /\ UNCHANGED <<moved, installed, input>>
    BY <1>9 DEF RemoveNew, KeptInv, InstalledIsNew, BeforePutBack
  <2>3. \A u \in Targets : u # t =>
           /\ at'["root"][u] = at["root"][u] /\ at'["recovery"][u] = at["recovery"][u]
           /\ at'["staging"][u] = at["staging"][u]
    BY <1>p, <2>1
  <2>4. Placed' /\ Untouched'
    BY <1>p, <2>1, <2>2 DEF Placed, Untouched, input, BeforeStage
  <2>5. StagedApart'
    BY <2>1, <2>2, <2>3 DEF KeptInv, StagedApart
  <2>6. InstalledIsNew'
    BY <1>p, <2>1, <2>2, <2>3 DEF KeptInv, Placed, InstalledIsNew, BeforePutBack
  <2>7. RecoveryIsOld'
    BY <2>1, <2>2, <2>3 DEF KeptInv, RecoveryIsOld
  <2>8. OldDataKept'
    BY <1>p, <2>1, <2>2, <2>3 DEF KeptInv, Placed, OldDataKept, input
  <2>9. QED
    BY <2>4, <2>5, <2>6, <2>7, <2>8 DEF KeptInv
<1>10. ASSUME NEW t \in Targets, PutBack(t) PROVE KeptInv'
  <2>1. /\ at' \in [Directories -> [Targets -> Data]]
        /\ at'["root"][t] = at["recovery"][t] /\ at'["recovery"][t] = "none"
        /\ at'["staging"][t] = at["staging"][t]
        /\ \A u \in Targets : u # t => \A d \in Directories : at'[d][u] = at[d][u]
    BY <1>p, <1>10, RenameEffect DEF PutBack
  <2>2. /\ pc = "rb_old" /\ pc' = "rb_old"
        /\ at["recovery"][t] = "old"
        /\ UNCHANGED <<moved, installed, input>>
    BY <1>10 DEF PutBack, KeptInv, RecoveryIsOld
  <2>3. Placed' /\ Untouched' /\ InstalledIsNew'
    BY <2>1, <2>2 DEF KeptInv, Placed, Untouched, InstalledIsNew, input, BeforeStage, BeforePutBack
  <2>4. StagedApart'
    BY <1>p, <2>1, <2>2 DEF KeptInv, StagedApart
  <2>5. RecoveryIsOld'
    BY <1>p, <2>1, <2>2 DEF KeptInv, RecoveryIsOld
  <2>6. OldDataKept'
    BY <1>p, <2>1, <2>2 DEF KeptInv, Placed, OldDataKept, input
  <2>7. QED
    BY <2>3, <2>4, <2>5, <2>6 DEF KeptInv
<1>11. CASE ServiceSettles \/ TimerStops \/ TimerStarts \/ Die \/ UNCHANGED vars
  BY <1>11, KeptByStanding
     DEF ServiceSettles, TimerStops, TimerStarts, Die, vars, BeforeStage, BeforePutBack
<1>12. QED
  BY <1>2, <1>3, <1>4, <1>5, <1>6, <1>7, <1>8, <1>9, <1>10, <1>11 DEF Next, Helper

\* At every instant of a restore, also right after the helper was killed, each
\* target the server had is in place or at the recovery point.
THEOREM OldDataKeptHolds == Spec => []OldDataKept
<1>1. KeptInv => OldDataKept
  BY DEF KeptInv
<1>2. QED
  BY <1>1, KeptInitially, KeptStep, PTL DEF Spec

-----------------------------------------------------------------------------
(***************************************************************************)
(* The verdict.  It is given in one step and speaks of every target; Phase *)
(* says how far each of them has come at each step of the helper, forward  *)
(* and back.                                                               *)
(***************************************************************************)

OldOf(t) == IF t \in present THEN "old" ELSE "none"

Untaken(t) ==
    at["root"][t] = OldOf(t) /\ at["recovery"][t] = "none" /\ t \notin moved /\ t \notin installed
Aside(t) ==
    /\ at["root"][t] = "none" /\ at["recovery"][t] = "old"
    /\ t \in moved /\ t \notin installed /\ t \in present /\ t \in incoming
Swapped(t, root) ==
    /\ at["root"][t] = root /\ at["recovery"][t] = OldOf(t)
    /\ t \in installed /\ t \in incoming /\ (t \in moved <=> t \in present)
Back(t) ==
    at["root"][t] = OldOf(t) /\ at["recovery"][t] = "none" /\ t \in moved

Waiting(t) ==
    Untaken(t) /\ at["staging"][t] = IF t \in incoming THEN "new" ELSE "none"

Phase ==
    \A t \in Targets :
        /\ pc \in BeforeStage => Untaken(t) /\ at["staging"][t] = "none"
        /\ pc = "install" => \/ Waiting(t)
                             \/ Aside(t) /\ at["staging"][t] = "new"
                             \/ Swapped(t, "new") /\ at["staging"][t] = "none"
        /\ pc = "ready" => (Untaken(t) /\ t \notin incoming) \/ Swapped(t, "new")
        /\ pc \in {"rb_stop", "rb_check"} => Untaken(t) \/ Aside(t) \/ Swapped(t, "new")
        /\ pc = "rb_new" =>
              Untaken(t) \/ Aside(t) \/ Swapped(t, "new") \/ Swapped(t, "none")
        /\ pc = "rb_old" => Untaken(t) \/ Aside(t) \/ Swapped(t, "none") \/ Back(t)
        /\ pc \in {"rb_start", "rb_ready"} /\ errors = {} => at["root"][t] = OldOf(t)

NoVerdictYet == pc # "done" => result = "none"

VerdictInv == Placed /\ Phase /\ NoVerdictYet /\ VerdictMatchesData

LEMMA VerdictInitially == Init => VerdictInv
BY DEF Init, InitData, VerdictInv, Placed, Phase, NoVerdictYet, VerdictMatchesData, Untaken,
       OldOf, Directories, Data, BeforeStage

\* Where the data of every target is what the server had, it is Original.
LEMMA OriginalByTarget ==
    ASSUME Placed, \A t \in Targets : at["root"][t] = OldOf(t)
    PROVE  Original
BY DEF Placed, Directories, Original, OldOf

\* Leaving with a verdict that is true of the data.
LEMMA VerdictGiven ==
    ASSUME VerdictInv, NEW text \in Results, Leave(text), UNCHANGED <<moved, installed, input>>,
           text = "ok" => Restored /\ SetAsideData,
           text \in {"failed", "escaped"} => Original
    PROVE  VerdictInv'
<1>1. Placed
  BY DEF VerdictInv
<1>2. /\ pc' = "done" /\ result' = text
      /\ at' \in [Directories -> [Targets -> Data]]
      /\ at'["root"] = at["root"] /\ at'["recovery"] = at["recovery"]
  BY <1>1, LeaveEffect DEF Directories, Leave
<1>3. Placed' /\ Phase' /\ NoVerdictYet'
  BY <1>1, <1>2 DEF Placed, Phase, NoVerdictYet, input, BeforeStage
<1>4. VerdictMatchesData'
  BY <1>2 DEF VerdictMatchesData, Restored, SetAsideData, Original, input
<1> QED
  BY <1>3, <1>4 DEF VerdictInv

\* A step that moves no data and gives no verdict, to a phase that holds.
LEMMA VerdictStanding ==
    ASSUME VerdictInv, UNCHANGED <<at, moved, installed, input, result>>,
           pc' # "done" => pc # "done",
           Phase'
    PROVE  VerdictInv'
BY DEF VerdictInv, Placed, NoVerdictYet, VerdictMatchesData, Restored, SetAsideData, Original,
       input

LEMMA VerdictStep == VerdictInv /\ [Next]_vars => VerdictInv'
<1> SUFFICES ASSUME VerdictInv, [Next]_vars PROVE VerdictInv'
  OBVIOUS
<1> USE DEF Goto, data
<1>p. Placed /\ {"root", "recovery", "staging", "failed_new"} \subseteq Directories
  BY DEF VerdictInv, Directories
<1>v. Phase /\ NoVerdictYet
  BY DEF VerdictInv
<1>o. pc \in BeforeStage => Original
  BY <1>p, <1>v, OriginalByTarget DEF Phase, Untaken
<1>s. ASSUME UNCHANGED <<at, moved, installed, input>>
      PROVE  \A t \in Targets : /\ Untaken(t)' <=> Untaken(t)
                                /\ Aside(t)' <=> Aside(t)
                                /\ Back(t)' <=> Back(t)
                                /\ Waiting(t)' <=> Waiting(t)
                                /\ Swapped(t, "new")' <=> Swapped(t, "new")
                                /\ Swapped(t, "none")' <=> Swapped(t, "none")
                                /\ OldOf(t)' = OldOf(t)
  BY <1>s DEF Untaken, Aside, Back, Waiting, Swapped, OldOf, input
\* The calls that leave before anything has moved.
<1>1. CASE Preflight \/ SafetyBackup \/ VerifySafety \/ Stop \/ Recover
  <2>1. UNCHANGED <<moved, installed, input>> /\ pc \in BeforeStage
    BY <1>1 DEF Preflight, SafetyBackup, VerifySafety, Stop, Recover, BeforeStage
  <2>2. CASE \E text \in {"failed", "rollback_failed", "escaped"} : Leave(text)
    BY <1>o, <2>1, <2>2, VerdictGiven DEF Results
  <2>3. CASE UNCHANGED <<at, result>> /\ pc' \in BeforeStage
    <3>1. Phase'
      BY <1>v, <1>s, <2>1, <2>3 DEF Phase, BeforeStage
    <3> QED
      BY <2>1, <2>3, <3>1, VerdictStanding DEF BeforeStage
  <2> QED
    BY <1>1, <2>2, <2>3
       DEF Preflight, SafetyBackup, VerifySafety, Stop, AfterStop, Recover, BeforeStage
<1>2. CASE RecoverStart
  <2>1. PICK text \in {"failed", "rollback_failed", "escaped"} : Leave(text)
    BY <1>2 DEF RecoverStart
  <2>2. UNCHANGED <<moved, installed, input>> /\ pc \in BeforeStage
    BY <1>2 DEF RecoverStart, BeforeStage
  <2> QED
    BY <1>o, <2>1, <2>2, VerdictGiven DEF Results
<1>3. CASE StopCheck \/ InstallFails \/ RollbackStop
  <2>1. UNCHANGED <<moved, installed, input>>
    BY <1>3 DEF StopCheck, InstallFails, RollbackStop, Raise
  <2>2. CASE /\ UNCHANGED <<at, result>>
             /\ \/ pc \in BeforeStage /\ pc' \in BeforeStage
                \/ pc \in {"install", "rb_stop"} /\ pc' \in {"rb_stop", "rb_check"}
    <3>1. Phase'
      BY <1>v, <1>s, <2>1, <2>2 DEF Phase, BeforeStage, Waiting
    <3> QED
      BY <2>1, <2>2, <3>1, VerdictStanding DEF BeforeStage
  <2>3. CASE Leave("rollback_failed")
    BY <2>1, <2>3, VerdictGiven DEF Results
  <2> QED
    BY <1>3, <2>2, <2>3 DEF StopCheck, InstallFails, RollbackStop, Raise, BeforeStage
<1>4. CASE Stage
  <2>1. /\ UNCHANGED <<moved, installed, input, result>>
        /\ pc = "stage" /\ \A t \in Targets : Untaken(t)
    BY <1>v, <1>4 DEF Stage, Phase, BeforeStage, Raise
  <2>2. CASE Raise
    <3>1. Phase'
      BY <1>s, <2>1, <2>2 DEF Raise, Phase, BeforeStage
    <3> QED
      BY <2>1, <2>2, <3>1, VerdictStanding DEF Raise
  <2>3. CASE at' = [at EXCEPT !["staging"] =
                      [t \in Targets |-> IF t \in incoming THEN "new" ELSE "none"]]
             /\ Goto("install")
    <3>1. /\ at' \in [Directories -> [Targets -> Data]]
          /\ at'["root"] = at["root"] /\ at'["recovery"] = at["recovery"]
          /\ \A t \in Targets : at'["staging"][t] = IF t \in incoming THEN "new" ELSE "none"
      BY <1>p, <2>3 DEF Placed, Directories, Data
    <3>2. \A t \in Targets : Waiting(t)'
      BY <2>1, <3>1 DEF Waiting, Untaken, OldOf, input
    <3>3. Phase' /\ Placed' /\ NoVerdictYet' /\ result = "none"
      BY <1>p, <1>v, <2>1, <2>3, <3>1, <3>2 DEF Phase, Placed, NoVerdictYet, input, BeforeStage
    <3> QED
      BY <2>1, <3>3 DEF VerdictInv, VerdictMatchesData
  <2> QED
    BY <1>4, <2>2, <2>3 DEF Stage
\* A rename moves one target on and leaves the others where they are.
<1>5. ASSUME NEW t \in Targets, SetAside(t) \/ PutInPlace(t) \/ RemoveNew(t) \/ PutBack(t)
      PROVE  VerdictInv'
  <2>1. /\ at' \in [Directories -> [Targets -> Data]]
        /\ \A u \in Targets : u # t => \A d \in Directories : at'[d][u] = at[d][u]
    BY <1>p, <1>5, RenameEffect DEF SetAside, PutInPlace, RemoveNew, PutBack
  <2>2. /\ pc \in {"install", "rb_new", "rb_old"} /\ pc' = pc
        /\ UNCHANGED <<input, errors, result>>
        /\ \A u \in Targets \ {t} : (u \in moved' <=> u \in moved)
                                    /\ (u \in installed' <=> u \in installed)
        /\ moved' \subseteq Targets /\ installed' \subseteq Targets
    BY <1>p, <1>5 DEF SetAside, PutInPlace, RemoveNew, PutBack, Placed
  <2>3. ASSUME NEW u \in Targets, u # t
        PROVE  /\ Untaken(u)' <=> Untaken(u)
               /\ Aside(u)' <=> Aside(u)
               /\ Back(u)' <=> Back(u)
               /\ Waiting(u)' <=> Waiting(u)
               /\ Swapped(u, "new")' <=> Swapped(u, "new")
               /\ Swapped(u, "none")' <=> Swapped(u, "none")
               /\ at'["staging"][u] = at["staging"][u]
    <3>1. /\ at'["root"][u] = at["root"][u] /\ at'["recovery"][u] = at["recovery"][u]
          /\ at'["staging"][u] = at["staging"][u]
      BY <1>p, <2>1, <2>3
    <3> QED
      BY <2>2, <2>3, <3>1 DEF Untaken, Aside, Back, Waiting, Swapped, OldOf, input
  <2>4. /\ SetAside(t) => Aside(t)' /\ at'["staging"][t] = "new" /\ pc = "install"
        /\ PutInPlace(t) => Swapped(t, "new")' /\ at'["staging"][t] = "none" /\ pc = "install"
        /\ RemoveNew(t) => Swapped(t, "none")' /\ pc = "rb_new"
        /\ PutBack(t) => Back(t)' /\ pc = "rb_old"
    <3>1. CASE SetAside(t)
      <4>1. /\ at'["recovery"][t] = at["root"][t] /\ at'["root"][t] = "none"
            /\ at'["staging"][t] = at["staging"][t]
        BY <1>p, <3>1, RenameEffect DEF SetAside
      <4>2. Waiting(t) /\ pc = "install" /\ t \in present /\ t \in incoming
        BY <1>v, <3>1 DEF SetAside, Phase, Waiting, Untaken, Aside, Swapped, OldOf
      <4>3. Aside(t)' /\ at'["staging"][t] = "new"
        BY <3>1, <4>1, <4>2 DEF SetAside, Waiting, Untaken, Aside, OldOf, input
      <4> QED
        BY <3>1, <4>2, <4>3 DEF SetAside, PutInPlace, RemoveNew, PutBack
    <3>2. CASE PutInPlace(t)
      <4>1. /\ at'["root"][t] = at["staging"][t] /\ at'["staging"][t] = "none"
            /\ at'["recovery"][t] = at["recovery"][t]
        BY <1>p, <3>2, RenameEffect DEF PutInPlace
      <4>2. pc = "install" /\ at["staging"][t] = "new" /\ t \in incoming
            /\ (Aside(t) \/ (Untaken(t) /\ t \notin present))
        BY <1>v, <3>2 DEF PutInPlace, Phase, Waiting, Untaken, Aside, Swapped, OldOf
      <4>3. Swapped(t, "new")'
        BY <3>2, <4>1, <4>2 DEF PutInPlace, Untaken, Aside, Swapped, OldOf, input
      <4> QED
        BY <3>2, <4>1, <4>2, <4>3 DEF SetAside, PutInPlace, RemoveNew, PutBack
    <3>3. CASE RemoveNew(t)
      <4>1. at'["root"][t] = "none" /\ at'["recovery"][t] = at["recovery"][t]
        BY <1>p, <3>3, RenameEffect DEF RemoveNew
      <4>2. pc = "rb_new" /\ Swapped(t, "new")
        BY <1>v, <3>3 DEF RemoveNew, Phase, Untaken, Aside, Swapped
      <4>3. Swapped(t, "none")'
        BY <3>3, <4>1, <4>2 DEF RemoveNew, Swapped, OldOf, input
      <4> QED
        BY <4>2, <4>3 DEF SetAside, PutInPlace, PutBack
    <3>4. CASE PutBack(t)
      <4>1. at'["root"][t] = at["recovery"][t] /\ at'["recovery"][t] = "none"
        BY <1>p, <3>4, RenameEffect DEF PutBack
      <4>2. pc = "rb_old" /\ at["recovery"][t] = OldOf(t) /\ t \in moved
        BY <1>v, <3>4 DEF PutBack, Phase, Untaken, Aside, Swapped, Back, OldOf
      <4>3. Back(t)'
        BY <3>4, <4>1, <4>2 DEF PutBack, Back, OldOf, input
      <4> QED
        BY <4>2, <4>3 DEF SetAside, PutInPlace, RemoveNew
    <3> QED
      BY <1>5, <3>1, <3>2, <3>3, <3>4
  <2>5. Phase'
    <3> SUFFICES ASSUME NEW u \in Targets
                 PROVE  /\ pc = "install" => \/ Waiting(u)'
                                             \/ Aside(u)' /\ at'["staging"][u] = "new"
                                             \/ Swapped(u, "new")' /\ at'["staging"][u] = "none"
                        /\ pc = "rb_new" => \/ Untaken(u)' \/ Aside(u)'
                                            \/ Swapped(u, "new")' \/ Swapped(u, "none")'
                        /\ pc = "rb_old" => \/ Untaken(u)' \/ Aside(u)'
                                            \/ Swapped(u, "none")' \/ Back(u)'
      BY <2>2 DEF Phase, BeforeStage
    <3>1. CASE u = t
      BY <1>5, <2>4, <3>1
    <3>2. CASE u # t
      BY <1>v, <2>3, <3>2 DEF Phase
    <3> QED
      BY <3>1, <3>2
  <2>6. Placed' /\ NoVerdictYet' /\ result' = "none"
    BY <1>p, <1>v, <2>1, <2>2 DEF Placed, NoVerdictYet, input
  <2> QED
    BY <2>5, <2>6 DEF VerdictInv, VerdictMatchesData
<1>6. CASE Start
  <2>1. /\ UNCHANGED <<at, moved, installed, input, result>>
        /\ pc = "install" /\ pc' \in {"ready", "rb_stop"}
        /\ \A t \in Targets : at["staging"][t] = "none"
    BY <1>6 DEF Start, AllInstalled
  <2>2. \A t \in Targets : (Untaken(t) /\ t \notin incoming) \/ Swapped(t, "new")
    BY <1>v, <2>1 DEF Phase, Waiting
  <2>3. Phase'
    BY <1>s, <2>1, <2>2 DEF Phase, BeforeStage, input
  <2> QED
    BY <2>1, <2>3, VerdictStanding
\* Success: every target of the archive was swapped.
<1>7. CASE Ready
  <2>1. /\ UNCHANGED <<moved, installed, input>> /\ pc = "ready"
        /\ \A t \in Targets : (Untaken(t) /\ t \notin incoming) \/ Swapped(t, "new")
    BY <1>v, <1>7 DEF Ready, Phase, Raise
  <2>2. CASE Leave("ok")
    <3>1. Restored /\ SetAsideData
      BY <1>p, <2>1 DEF Restored, SetAsideData, Untaken, Swapped, OldOf, Placed
    <3> QED
      BY <2>1, <2>2, <3>1, VerdictGiven DEF Results
  <2>3. CASE Raise /\ UNCHANGED result
    <3>1. Phase'
      BY <1>s, <2>1, <2>3 DEF Phase, Raise, BeforeStage
    <3> QED
      BY <2>1, <2>3, <3>1, VerdictStanding DEF Raise
  <2> QED
    BY <1>7, <2>2, <2>3 DEF Ready
<1>8. CASE RollbackCheck
  <2>1. UNCHANGED <<moved, installed, input>> /\ pc = "rb_check"
    BY <1>8 DEF RollbackCheck
  <2>2. CASE Leave("rollback_failed")
    BY <2>1, <2>2, VerdictGiven DEF Results
  <2>3. CASE UNCHANGED <<at, result>> /\ pc' = "rb_new"
    <3>1. Phase'
      BY <1>v, <1>s, <2>1, <2>3 DEF Phase, BeforeStage
    <3> QED
      BY <2>1, <2>3, <3>1, VerdictStanding
  <2> QED
    BY <1>8, <2>2, <2>3 DEF RollbackCheck
<1>9. CASE NewRemoved
  <2>1. /\ UNCHANGED <<at, moved, installed, input, result>>
        /\ pc = "rb_new" /\ pc' = "rb_old"
        /\ \A t \in installed : at["root"][t] = "none"
    BY <1>9 DEF NewRemoved
  <2>2. \A t \in Targets : ~Swapped(t, "new")
    BY <2>1 DEF Swapped
  <2>3. Phase'
    BY <1>v, <1>s, <2>1, <2>2 DEF Phase, BeforeStage
  <2> QED
    BY <2>1, <2>3, VerdictStanding
\* What was set aside is back, and what was new is gone.
<1>10. CASE OldBack
  <2>1. /\ UNCHANGED <<at, moved, installed, input, result>>
        /\ pc = "rb_old" /\ pc' = "rb_start"
        /\ \A t \in moved : at["recovery"][t] = "none"
    BY <1>10 DEF OldBack
  <2>2. \A t \in Targets : at["root"][t] = OldOf(t)
    BY <1>v, <2>1 DEF Phase, Untaken, Aside, Swapped, Back, OldOf
  <2>3. Phase'
    BY <1>s, <2>1, <2>2 DEF Phase, BeforeStage
  <2> QED
    BY <2>1, <2>3, VerdictStanding
<1>11. CASE MoveFails \/ RollbackStart
  <2>1. UNCHANGED <<moved, installed, input>>
    BY <1>11 DEF MoveFails, RollbackStart
  <2>2. CASE /\ UNCHANGED <<at, result>>
             /\ pc \in {"rb_new", "rb_old", "rb_start"} /\ pc' \in {"rb_start", "rb_ready"}
             /\ errors' = {} => pc = "rb_start" /\ errors = {}
    <3>1. Phase'
      BY <1>v, <1>s, <2>1, <2>2 DEF Phase, BeforeStage
    <3> QED
      BY <2>1, <2>2, <3>1, VerdictStanding
  <2>3. CASE Leave("rollback_failed")
    BY <2>1, <2>3, VerdictGiven DEF Results
  <2> QED
    BY <1>11, <2>2, <2>3 DEF MoveFails, RollbackStart
<1>12. CASE RollbackReady
  <2>1. /\ UNCHANGED <<moved, installed, input>> /\ pc = "rb_ready"
        /\ Leave("rollback_failed") \/ (Leave("failed") /\ errors = {})
    BY <1>12 DEF RollbackReady, Clean
  <2>2. errors = {} => Original
    BY <1>p, <1>v, <2>1, OriginalByTarget DEF Phase
  <2> QED
    BY <2>1, <2>2, VerdictGiven DEF Results
<1>13. CASE ServiceSettles \/ TimerStops \/ TimerStarts \/ Die \/ UNCHANGED vars
  <2>1. /\ UNCHANGED <<at, moved, installed, input, errors, result>>
        /\ pc' = pc \/ (pc' = "dead" /\ pc # "done")
    BY <1>13 DEF ServiceSettles, TimerStops, TimerStarts, Die, vars
  <2>2. Phase'
    BY <1>v, <1>s, <2>1 DEF Phase, BeforeStage, input
  <2> QED
    BY <2>1, <2>2, VerdictStanding
<1> QED
  BY <1>1, <1>2, <1>3, <1>4, <1>5, <1>6, <1>7, <1>8, <1>9, <1>10, <1>11, <1>12, <1>13
     DEF Next, Helper

\* mc_panel_action.py:940-972, 1010-1024: success stands for the whole archive
\* in place, and every failure but rollback_failed for exactly the old data, for
\* any set of targets and wherever the restore failed.
THEOREM VerdictMatchesDataHolds == Spec => []VerdictMatchesData
<1>1. VerdictInv => VerdictMatchesData
  BY DEF VerdictInv
<1> QED
  BY <1>1, VerdictInitially, VerdictStep, PTL DEF Spec

-----------------------------------------------------------------------------
(***************************************************************************)
(* The server behind the calls.  A call learns of the service in one step  *)
(* and relies on it in a later one, while systemd moves the unit and Java  *)
(* crashes; CallInv says what is still true of the unit at each step.      *)
(***************************************************************************)

\* From a stop that returned to the start, the unit is down and the safety
\* backup is verified; in a rollback too that has no error to report.  Only the
\* timer can have started it.
Down == svc = "inactive" \/ (disturbed /\ svc \in {"activating", "active"})
HeldDown ==
    /\ pc \in {"stop", "stop_check", "stage", "install"} => safety = "verified"
    /\ pc \in {"stop_check", "stage", "install"} => Down
    /\ pc \in {"rb_check", "rb_new", "rb_old"} /\ errors = {} => Down

NotYetStopped == pc \in {"preflight", "safety", "verify", "stop"} => ~stopped

\* The steps of the calls other than restore, and what each has seen.
Seen ==
    /\ step \in {"stopped", "reset"} => call = "stop" /\ Down
    /\ step \in {"port", "active"} => call \in {"start", "restart"}
    /\ step \in {"archive", "ensure", "ensure_start", "ensure_active", "ensure_port"} =>
           call = "backup"
    /\ step = "ensure_port" => svc # "deactivating"
    /\ report # "none" => step = "done"

OneCall == IF call = "restore" THEN step = "command" ELSE pc = "preflight"

ServiceInv == HeldDown /\ NotYetStopped /\ OneCall /\ Seen
CallInv == VerdictInv /\ CallTypeOK /\ RunsOnWholeData /\ ServiceInv

LEMMA CallInitially == CallInit => CallInv
<1> SUFFICES ASSUME CallInit PROVE CallInv
  OBVIOUS
<1>1. VerdictInv
  BY DEF CallInit, InitData, VerdictInv, Placed, Phase, NoVerdictYet, VerdictMatchesData, Untaken,
         OldOf, Directories, Data, BeforeStage
<1>2. svc \in Services
  BY DEF CallInit, Services
<1>3. TypeOK
  BY <1>1, <1>2 DEF CallInit, InitData, TypeOK, VerdictInv, Placed, Steps, Results
<1>4. CallTypeOK
  BY <1>3 DEF CallInit, CallTypeOK, CallSteps, ReportTexts, ServiceActions
<1>5. Original
  BY <1>1, OriginalByTarget DEF CallInit, InitData, VerdictInv, Phase, Untaken, BeforeStage
<1> QED
  BY <1>1, <1>4, <1>5 DEF CallInit, InitData, CallInv, ServiceInv, HeldDown, NotYetStopped, Seen,
                          OneCall, RunsOnWholeData

LEMMA ServiceMoves ==
    ASSUME svc \in Services
    PROVE  \A ok \in BOOLEAN : SystemctlStop(ok) \/ SystemctlStart(ok) \/ SystemctlRestart(ok)
                                   => svc' \in Services
BY DEF Services, SystemctlStop, SystemctlStart, SystemctlRestart

LEMMA TypeStep == TypeOK /\ Placed' /\ [Next]_vars => TypeOK'
<1> SUFFICES ASSUME TypeOK, Placed', [Next]_vars PROVE TypeOK'
  OBVIOUS
<1> USE DEF Goto, data, input, unit
<1>1. svc' \in Services
  <2>1. svc \in Services
    BY DEF TypeOK
  <2>2. CASE Stop \/ RecoverStart \/ Start \/ RollbackStop \/ RollbackStart
    BY <2>1, <2>2, ServiceMoves DEF Stop, RecoverStart, Start, RollbackStop, RollbackStart
  <2>3. CASE UNCHANGED svc
    BY <2>1, <2>3
  <2>4. CASE SafetyBackup \/ ServiceSettles \/ TimerStops \/ TimerStarts
    BY <2>4 DEF SafetyBackup, ServiceSettles, TimerStops, TimerStarts, Services
  <2> QED
    BY <2>2, <2>3, <2>4 DEF Next, Helper, Preflight, VerifySafety, StopCheck, Recover, Stage,
       InstallFails, Ready, RollbackCheck, NewRemoved, OldBack, MoveFails, RollbackReady, SetAside,
       PutInPlace, RemoveNew, PutBack, Die, vars
<1>2. pc' \in Steps /\ result' \in Results
  BY DEF TypeOK, Steps, Results, Leave, Next, Helper, Preflight, SafetyBackup, VerifySafety, Stop,
       AfterStop, StopCheck, Recover, RecoverStart, Stage, Raise, InstallFails, Start, Ready,
       RollbackStop, RollbackCheck, NewRemoved, OldBack, MoveFails, RollbackStart, RollbackReady,
       SetAside, PutInPlace, RemoveNew, PutBack, ServiceSettles, TimerStops, TimerStarts, Die, vars
<1>3. /\ safety' \in {"none", "verified"} /\ stopped' \in BOOLEAN
      /\ errors' \subseteq {"stop", "restore", "start"}
  BY DEF TypeOK, Next, Helper, Preflight, SafetyBackup, VerifySafety, Stop,
       StopCheck, Recover, RecoverStart, Stage, InstallFails, Start, Ready,
       RollbackStop, RollbackCheck, NewRemoved, OldBack, MoveFails, RollbackStart, RollbackReady,
       SetAside, PutInPlace, RemoveNew, PutBack, ServiceSettles, TimerStops, TimerStarts, Die, vars
<1>4. disturbed' \in BOOLEAN
  <2>1. CASE StopCheck \/ RollbackCheck
    <3>1. disturbed' = disturbed \/ disturbed' = (disturbed /\ svc = "activating")
      BY <2>1 DEF StopCheck, RollbackCheck, FoundNotActive
    <3> QED
      BY <3>1 DEF TypeOK
  <2>2. CASE TimerStarts
    BY <2>2 DEF TimerStarts
  <2>3. CASE UNCHANGED disturbed
    BY <2>3 DEF TypeOK
  <2> QED
    BY <2>1, <2>2, <2>3 DEF Next, Helper, Preflight, SafetyBackup, VerifySafety, Stop, Recover,
       RecoverStart, Stage, InstallFails, Start, Ready, RollbackStop, NewRemoved, OldBack,
       MoveFails, RollbackStart, RollbackReady, SetAside, PutInPlace, RemoveNew, PutBack,
       ServiceSettles, TimerStops, Die, vars
<1> QED
  BY <1>1, <1>2, <1>3, <1>4 DEF TypeOK, Placed

\* Before the archive is extracted the server has its original data.
LEMMA OriginalBeforeStage == VerdictInv /\ pc \in BeforeStage => Original
BY OriginalByTarget DEF VerdictInv, Phase, Untaken

\* A call other than restore touches nothing that VerdictInv speaks of.
LEMMA VerdictUntouched == VerdictInv /\ UNCHANGED restore => VerdictInv'
BY DEF VerdictInv, restore, data, input, Placed, Phase, NoVerdictYet, VerdictMatchesData,
       Restored, SetAsideData, Original, Untaken, Aside, Swapped, Back, Waiting, OldOf, BeforeStage

LEMMA RestoredByTarget ==
    ASSUME VerdictInv, pc = "install", AllInstalled
    PROVE  Restored
<1>1. \A t \in Targets : (Untaken(t) /\ t \notin incoming) \/ Swapped(t, "new")
  BY DEF VerdictInv, Phase, Waiting, AllInstalled
<1> QED
  BY <1>1 DEF VerdictInv, Placed, Directories, Restored, Untaken, Swapped, OldOf

\* What a restore and the world around it do to the unit, given what was seen.
LEMMA RestoreKeepsDown ==
    ASSUME HeldDown, NotYetStopped, [Next]_vars
    PROVE  HeldDown' /\ NotYetStopped'
<1> USE DEF Goto, Leave, unit
<1> USE DEF HeldDown, Down, NotYetStopped
<1>1. CASE Helper
  <2>1. CASE Preflight \/ SafetyBackup \/ VerifySafety \/ Stop \/ Recover \/ RecoverStart
    BY <2>1 DEF Preflight, SafetyBackup, VerifySafety, Stop, SystemctlStop, AfterStop, Recover,
                RecoverStart
  <2>2. CASE StopCheck \/ RollbackCheck
    BY <2>2 DEF StopCheck, RollbackCheck, FoundNotActive, IsActive
  <2>3. CASE Stage \/ InstallFails \/ Start \/ Ready \/ RollbackReady
    BY <2>3 DEF Stage, Raise, InstallFails, Start, Ready, RollbackReady
  <2>4. CASE RollbackStop
    BY <2>4 DEF RollbackStop, SystemctlStop
  <2>5. CASE NewRemoved \/ OldBack \/ MoveFails \/ RollbackStart
    BY <2>5 DEF NewRemoved, OldBack, MoveFails, RollbackStart
  <2>6. CASE \E t \in Targets : SetAside(t) \/ PutInPlace(t) \/ RemoveNew(t) \/ PutBack(t)
    BY <2>6 DEF SetAside, PutInPlace, RemoveNew, PutBack
  <2> QED
    BY <1>1, <2>1, <2>2, <2>3, <2>4, <2>5, <2>6 DEF Helper
<1>2. CASE ServiceSettles \/ TimerStops \/ TimerStarts \/ Die \/ UNCHANGED vars
  BY <1>2 DEF HeldDown, Down, NotYetStopped, ServiceSettles, TimerStops, TimerStarts, Die, vars
<1> QED
  BY <1>1, <1>2 DEF Next

\* No step makes Java run on a mixture: where data moves Java is gone, and where
\* Java starts the data is whole.
LEMMA RestoreKeepsWhole ==
    ASSUME VerdictInv, HeldDown, RunsOnWholeData, [Next]_vars
    PROVE  RunsOnWholeData'
<1> USE DEF Goto, data, input, unit
<1> DEFINE WholeKept == at'["root"] = at["root"] /\ UNCHANGED input
<1>p. Placed /\ "root" \in Directories /\ "staging" \in Directories
  BY DEF VerdictInv, Directories
<1>w. ASSUME WholeKept, errors' = {} => errors = {}, errors = {} => Original \/ Restored
      PROVE  RunsOnWholeData'
  BY <1>w DEF RunsOnWholeData, Original, Restored
<1>g. ASSUME WholeKept, errors' = {} => errors = {}, disturbed => disturbed',
             JavaGone => JavaGone' \/ disturbed'
      PROVE  RunsOnWholeData'
  BY <1>g DEF RunsOnWholeData, Original, Restored
<1>l. ASSUME NEW text, Leave(text)
      PROVE  at'["root"] = at["root"]
  BY <1>p, <1>l, LeaveEffect DEF Directories
\* Before the extraction, whatever the unit does.
<1>1. CASE Preflight \/ SafetyBackup \/ VerifySafety \/ Stop \/ StopCheck \/ Recover \/ RecoverStart
  <2>1. Original
    BY <1>1, OriginalBeforeStage
       DEF Preflight, SafetyBackup, VerifySafety, Stop, StopCheck, Recover, RecoverStart,
           BeforeStage
  <2>2. WholeKept /\ errors' = errors
    BY <1>1, <1>l
       DEF Preflight, SafetyBackup, VerifySafety, Stop, StopCheck, Recover, RecoverStart
  <2> QED
    BY <2>1, <2>2, <1>w
<1>2. CASE Stage
  <2>1. Original /\ UNCHANGED <<input, errors>>
    BY <1>2, OriginalBeforeStage DEF Stage, BeforeStage
  <2>2. at'["root"] = at["root"]
    BY <1>p, <1>2 DEF Stage, Raise, Placed, Directories
  <2> QED
    BY <2>1, <2>2, <1>w
<1>3. CASE InstallFails \/ NewRemoved \/ OldBack \/ MoveFails
  BY <1>3, <1>g DEF InstallFails, Raise, NewRemoved, OldBack, MoveFails, JavaGone
<1>4. CASE Ready \/ RollbackReady
  <2>1. WholeKept
    BY <1>4, <1>l DEF Ready, Raise, RollbackReady
  <2> QED
    BY <1>4, <2>1, <1>g DEF Ready, RollbackReady, JavaGone
<1>5. CASE Start
  <2>1. Restored
    BY <1>5, RestoredByTarget DEF Start
  <2> QED
    BY <1>5, <2>1, <1>w DEF Start
<1>6. CASE RollbackStop
  <2>1. WholeKept
    BY <1>6, <1>l DEF RollbackStop
  <2>2. JavaGone => JavaGone'
    BY <1>6 DEF RollbackStop, SystemctlStop, JavaGone
  <2>3. (errors' = {} => errors = {}) /\ disturbed' = disturbed
    BY <1>6 DEF RollbackStop
  <2> QED
    BY <2>1, <2>2, <2>3, <1>g
\* A rollback without an error asked for a stop, and it returned.
<1>7. CASE RollbackCheck
  <2>1. WholeKept /\ errors' = errors
    BY <1>7, <1>l DEF RollbackCheck
  <2>2. errors = {} => JavaGone' \/ disturbed'
    BY <1>7 DEF RollbackCheck, FoundNotActive, HeldDown, Down, JavaGone, IsActive
  <2> QED
    BY <2>1, <2>2 DEF RunsOnWholeData
<1>8. CASE RollbackStart
  <2>1. errors = {} => Original
    BY <1>8, OriginalByTarget DEF RollbackStart, VerdictInv, Phase
  <2>2. WholeKept
    BY <1>8, <1>l DEF RollbackStart
  <2>3. errors' = {} => errors = {}
    BY <1>8 DEF RollbackStart
  <2> QED
    BY <2>1, <2>2, <2>3, <1>w
\* Data moves only under a server that is gone.
<1>9. CASE \E t \in Targets : SetAside(t) \/ PutInPlace(t) \/ RemoveNew(t) \/ PutBack(t)
  <2>1. UNCHANGED <<unit, errors>> /\ pc \in {"install", "rb_new", "rb_old"}
    BY <1>9 DEF SetAside, PutInPlace, RemoveNew, PutBack
  <2> QED
    BY <2>1 DEF HeldDown, Down, RunsOnWholeData, JavaGone
<1>10. CASE ServiceSettles \/ TimerStops \/ TimerStarts \/ Die \/ UNCHANGED vars
  BY <1>10, <1>g DEF ServiceSettles, TimerStops, TimerStarts, Die, vars, JavaGone
<1> QED
  BY <1>1, <1>2, <1>3, <1>4, <1>5, <1>6, <1>7, <1>8, <1>9, <1>10 DEF Next, Helper

\* What the unit and the locals of a call other than restore may do in a step.
LEMMA ServiceCallStep ==
    ASSUME CallTypeOK, Seen, call # "restore", ServiceCall
    PROVE  /\ svc' \in Services /\ disturbed' \in BOOLEAN
           /\ step' \in CallSteps /\ backupError' \in BOOLEAN /\ report' \in ReportTexts
           /\ Seen' /\ call' = call
<1> USE DEF unit
<1>1. svc' \in Services
  <2>1. svc \in Services
    BY DEF CallTypeOK, TypeOK
  <2>2. CASE Command
    BY <2>1, <2>2, ServiceMoves DEF Command
  <2>3. CASE EnsureStart
    BY <2>1, <2>3, ServiceMoves DEF EnsureStart
  <2> QED
    BY <2>1, <2>2, <2>3 DEF ServiceCall, WaitPort, CheckActive, CheckStopped, ResetFailed,
       BackupCommand, NewArchive, Ensure, EnsureActive, EnsurePort, Services
<1>2. call' = call
  BY DEF ServiceCall, Command, WaitPort, CheckActive, CheckStopped, ResetFailed,
       BackupCommand, NewArchive, Ensure, EnsureStart, EnsureActive, EnsurePort
<1>3. Seen'
  <2> USE <1>2 DEF Seen, Down, Continue, Report, NotReady
  <2>1. CASE Command
    BY <2>1 DEF Command, SystemctlStop
  <2>2. CASE WaitPort \/ CheckActive \/ ResetFailed
    BY <2>2 DEF WaitPort, CheckActive, ResetFailed
  <2>3. CASE CheckStopped
    BY <2>3 DEF CheckStopped, FoundNotActive, IsActive
  <2>4. CASE BackupCommand \/ NewArchive
    BY <2>4 DEF BackupCommand, NewArchive, ThenEnsure
  <2>5. CASE Ensure \/ EnsureStart
    BY <2>5 DEF Ensure, EnsureStart
  <2>6. CASE EnsureActive \/ EnsurePort
    BY <2>6 DEF EnsureActive, EnsurePort, IsActive
  <2> QED
    BY <2>1, <2>2, <2>3, <2>4, <2>5, <2>6 DEF ServiceCall
<1>4. disturbed' \in BOOLEAN
  <2>1. disturbed \in BOOLEAN
    BY DEF CallTypeOK, TypeOK
  <2>2. CASE CheckStopped
    <3>1. disturbed' = disturbed \/ disturbed' = (disturbed /\ svc = "activating")
      BY <2>2 DEF CheckStopped, FoundNotActive
    <3> QED
      BY <2>1, <3>1
  <2> QED
    BY <2>1, <2>2 DEF ServiceCall, Command, WaitPort, CheckActive, ResetFailed,
       BackupCommand, NewArchive, Ensure, EnsureStart, EnsureActive, EnsurePort
<1>5. step' \in CallSteps /\ report' \in ReportTexts
  BY DEF CallTypeOK, CallSteps, ReportTexts, Continue, Report, NotReady, ServiceCall, Command,
       WaitPort, CheckActive, CheckStopped, ResetFailed, BackupCommand, NewArchive, ThenEnsure,
       Ensure, EnsureStart, EnsureActive, EnsurePort
<1>6. backupError' \in BOOLEAN
  BY DEF CallTypeOK, ServiceCall, Command, WaitPort, CheckActive, CheckStopped, ResetFailed,
       BackupCommand, NewArchive, Ensure, EnsureStart, EnsureActive, EnsurePort
<1> QED
  BY <1>1, <1>2, <1>3, <1>4, <1>5, <1>6

\* A step of a restore, or of the world around any call, that leaves the locals of
\* the other calls alone.
LEMMA RestoreStep ==
    ASSUME CallInv, [Next]_vars, UNCHANGED local, Seen', OneCall'
    PROVE  CallInv'
<1>1. VerdictInv'
  BY VerdictStep DEF CallInv
<1>2. TypeOK'
  BY <1>1, TypeStep DEF CallInv, CallTypeOK, VerdictInv
<1>3. CallTypeOK'
  BY <1>2 DEF CallInv, CallTypeOK, local
<1>4. RunsOnWholeData'
  BY RestoreKeepsWhole DEF CallInv, ServiceInv
<1>5. HeldDown' /\ NotYetStopped'
  BY RestoreKeepsDown DEF CallInv, ServiceInv
<1> QED
  BY <1>1, <1>3, <1>4, <1>5 DEF CallInv, ServiceInv

\* A step of another call: the restore has not begun, the data is the original.
LEMMA OtherCallStep ==
    ASSUME CallInv, call # "restore", UNCHANGED restore, call' = call,
           svc' \in Services, disturbed' \in BOOLEAN,
           step' \in CallSteps, backupError' \in BOOLEAN, report' \in ReportTexts,
           Seen'
    PROVE  CallInv'
<1>1. VerdictInv'
  BY VerdictUntouched DEF CallInv
<1>2. pc = "preflight" /\ pc' = pc
  BY DEF CallInv, ServiceInv, OneCall, restore
<1>3. RunsOnWholeData'
  BY <1>1, <1>2, OriginalBeforeStage DEF RunsOnWholeData, BeforeStage, CallInv, restore,
     data, input, Original
<1>4. CallTypeOK'
  BY DEF CallInv, CallTypeOK, TypeOK, restore, data, input
<1>5. HeldDown' /\ NotYetStopped' /\ OneCall'
  BY <1>2 DEF CallInv, ServiceInv, HeldDown, NotYetStopped, OneCall, restore
<1> QED
  BY <1>1, <1>3, <1>4, <1>5 DEF CallInv, ServiceInv

LEMMA CallStep == CallInv /\ [CallNext]_callVars => CallInv'
<1> SUFFICES ASSUME CallInv, [CallNext]_callVars PROVE CallInv'
  OBVIOUS
<1>t. svc \in Services /\ Seen /\ OneCall
  BY DEF CallInv, CallTypeOK, TypeOK, ServiceInv
<1>1. CASE call = "restore" /\ Helper /\ UNCHANGED local
  <2>1. Seen' /\ OneCall'
    BY <1>1, <1>t DEF OneCall, Seen, local
  <2> QED
    BY <1>1, <2>1, RestoreStep DEF Next
<1>2. CASE call # "restore" /\ ServiceCall /\ UNCHANGED restore
  BY <1>2, <1>t, ServiceCallStep, OtherCallStep DEF CallInv
\* A unit on its way is not down unless the timer started it.
<1>3. CASE Settle \/ Timer
  <2>1. UNCHANGED <<pc, local>> /\ (disturbed' = disturbed \/ disturbed')
    BY <1>3 DEF Settle, Timer, ServiceSettles, TimerStops, TimerStarts
  <2>2. Down => Down'
    BY <1>3 DEF Settle, Timer, ServiceSettles, TimerStops, TimerStarts, Down
  <2>3. svc' # "deactivating" \/ svc' = svc
    BY <1>3 DEF Settle, Timer, ServiceSettles, TimerStops, TimerStarts
  <2>4. Seen' /\ OneCall'
    BY <1>t, <2>1, <2>2, <2>3 DEF Seen, OneCall, local
  <2> QED
    BY <1>3, <2>1, <2>4, RestoreStep DEF Settle, Timer, Next
<1>4. CASE Crash
  <2>1. Down => Down'
    BY <1>4 DEF Crash, Down
  <2>2. Seen'
    BY <1>4, <1>t, <2>1 DEF Crash, Seen, local
  <2>3. svc' \in Services /\ UNCHANGED <<disturbed, restore, local>> /\ call # "restore"
    BY <1>4 DEF Crash, Services
  <2>4. disturbed \in BOOLEAN /\ step \in CallSteps /\ backupError \in BOOLEAN
        /\ report \in ReportTexts
    BY DEF CallInv, CallTypeOK, TypeOK
  <2> QED
    BY <2>2, <2>3, <2>4, OtherCallStep DEF local
<1>5. CASE call = "restore" /\ Die /\ UNCHANGED local
  <2>1. Seen' /\ OneCall'
    BY <1>5, <1>t DEF OneCall, Seen, Down, Die, local, unit
  <2> QED
    BY <1>5, <2>1, RestoreStep DEF Next
<1>6. CASE /\ call # "restore" /\ step \notin {"done", "dead"} /\ step' = "dead"
           /\ UNCHANGED <<vars, call, backupError, report>>
  <2>1. Seen'
    BY <1>6, <1>t DEF Seen
  <2>2. /\ UNCHANGED restore /\ call' = call /\ svc' \in Services /\ disturbed' \in BOOLEAN
        /\ step' \in CallSteps /\ backupError' \in BOOLEAN /\ report' \in ReportTexts
    BY <1>6 DEF CallInv, CallTypeOK, TypeOK, CallSteps, vars, unit, restore
  <2> QED
    BY <1>6, <2>1, <2>2, OtherCallStep
<1>7. CASE UNCHANGED callVars
  <2>1. UNCHANGED vars /\ UNCHANGED local
    BY <1>7 DEF callVars
  <2>2. Seen' /\ OneCall'
    BY <1>t, <2>1 DEF Seen, OneCall, Down, vars, unit, local
  <2> QED
    BY <2>1, <2>2, RestoreStep
<1> QED
  BY <1>1, <1>2, <1>3, <1>4, <1>5, <1>6, <1>7 DEF CallNext, Work, Killed

\* Every variable of a call keeps to its values, wherever the call is cut off.
THEOREM CallTypeOKHolds == CallSpec => []CallTypeOK
<1>1. CallInv => CallTypeOK
  BY DEF CallInv
<1> QED
  BY <1>1, CallInitially, CallStep, PTL DEF CallSpec

\* mc_panel_action.py:898-973, 982-1016: whatever fails, and with the timer's
\* backup and a kill at any instant, Java is gone whenever the data is a mixture,
\* unless the rollback has an error to report or that backup started the server.
THEOREM RunsOnWholeDataHolds == CallSpec => []RunsOnWholeData
<1>1. CallInv => RunsOnWholeData
  BY DEF CallInv
<1> QED
  BY <1>1, CallInitially, CallStep, PTL DEF CallSpec

\* A restore that stopped the server has it active when it leaves, unless it
\* reports that its rollback failed or an exception escapes the recovery
\* (mc_panel_action.py:898-916, 940-972).
THEOREM ServerBackAfterStopHolds == CallSpec => ServerBackAfterStop
<1> DEFINE Up == Leaves /\ stopped' /\ result' \notin {"rollback_failed", "escaped"}
                    => svc' = "active"
<1>1. ASSUME CallInv, [CallNext]_callVars PROVE Up
  <2> SUFFICES ASSUME Leaves, stopped', result' \notin {"rollback_failed", "escaped"}
               PROVE  svc' = "active"
    OBVIOUS
  <2>1. Helper
    BY <1>1 DEF Leaves, CallNext, Work, Settle, Timer, Crash, Killed, ServiceSettles, TimerStops,
       TimerStarts, Die, Goto, restore, callVars, vars
  <2>2. NotYetStopped
    BY <1>1 DEF CallInv, ServiceInv
  <2>3. Recover \/ RecoverStart \/ Ready \/ RollbackReady
    BY <2>1, <2>2 DEF Leaves, NotYetStopped, Leave, Goto, Helper, Preflight, SafetyBackup,
       VerifySafety, Stop, AfterStop, StopCheck, Stage, Raise, InstallFails, Start, RollbackStop,
       RollbackCheck, NewRemoved, OldBack, MoveFails, RollbackStart, SetAside, PutInPlace,
       RemoveNew, PutBack
  <2> QED
    BY <2>3 DEF Leaves, Leave, Goto, Recover, RecoverStart, Ready, RollbackReady, Raise, Clean,
       SystemctlStart, IsActive, unit
<1>2. CallInv /\ [CallNext]_callVars => [Up]_vars
  BY <1>1
<1> QED
  BY <1>2, CallInitially, CallStep, PTL DEF CallSpec, ServerBackAfterStop

\* mc_panel_action.py:898-939: a target of the archive is put in place only behind
\* a verified safety backup and while Java is gone, unless the timer's backup
\* started it unseen.
THEOREM InstallsOnStoppedServerHolds == CallSpec => InstallsOnStoppedServer
<1> DEFINE Install == at'["root"] # at["root"] /\ pc = "install"
                         => safety = "verified" /\ (JavaGone \/ disturbed)
<1>1. CallInv => Install
  BY DEF CallInv, ServiceInv, HeldDown, Down, JavaGone
<1> QED
  BY <1>1, CallInitially, CallStep, PTL DEF CallSpec, InstallsOnStoppedServer

\* mc_panel_action.py:412-438, 456-531: between the check and the answer Java
\* may crash, systemd may restart it and the timer's backup may stop it, and still
\* a start, a restart or a backup that answers "ok" answers while the server is
\* up, a stop while it is down, unless that backup started it unseen.
THEOREM VerdictMatchesServiceHolds == CallSpec => VerdictMatchesService
<1> DEFINE Truthful == Reports("ok") => IF call = "stop" THEN JavaGone \/ disturbed ELSE ServerUp
<1>1. ASSUME CallInv, CallNext PROVE Truthful
  <2> SUFFICES ASSUME Reports("ok")
               PROVE  IF call = "stop" THEN JavaGone \/ disturbed ELSE ServerUp
    OBVIOUS
  <2>s. Seen /\ svc \in Services
    BY <1>1 DEF CallInv, CallTypeOK, TypeOK, ServiceInv
  <2>1. CheckActive \/ ResetFailed \/ EnsurePort
    BY <1>1 DEF Reports, CallNext, Work, Settle, Timer, Crash, Killed, local, ServiceCall, Command,
       WaitPort, CheckStopped, BackupCommand, NewArchive, Ensure, EnsureStart, EnsureActive,
       Continue, Report, NotReady, ThenEnsure
  <2>2. CASE CheckActive
    BY <2>s, <2>2 DEF CheckActive, Report, Reports, Seen, IsActive, ServerUp
  <2>3. CASE ResetFailed
    BY <2>s, <2>3 DEF ResetFailed, Seen, Down, JavaGone
  <2>4. CASE EnsurePort
    BY <2>s, <2>4 DEF EnsurePort, NotReady, Report, Reports, Seen, PortMayAnswer, JavaGone,
                      ServerUp, Services
  <2> QED
    BY <2>1, <2>2, <2>3, <2>4
<1>2. CallInv /\ [CallNext]_callVars => [Truthful]_callVars
  BY <1>1
<1> QED
  BY <1>2, CallInitially, CallStep, PTL DEF CallSpec, VerdictMatchesService

\* RECOVERY.md:5 for the errors create_backup catches (mc_panel_action.py:476-496):
\* whichever step raised one, the server is up when it is reported, or the report
\* says that it is not.  An exception it does not catch is not spoken of.
THEOREM CaughtBackupErrorLeavesServerUpHolds == CallSpec => CaughtBackupErrorLeavesServerUp
<1> DEFINE Up == call = "backup" /\ Reports("failed") => ServerUp
<1>1. ASSUME CallInv, CallNext PROVE Up
  <2> SUFFICES ASSUME call = "backup", Reports("failed") PROVE ServerUp
    OBVIOUS
  <2>s. Seen /\ svc \in Services
    BY <1>1 DEF CallInv, CallTypeOK, TypeOK, ServiceInv
  <2>1. CheckStopped \/ WaitPort \/ CheckActive \/ ResetFailed \/ EnsurePort
    BY <1>1 DEF Reports, CallNext, Work, Settle, Timer, Crash, Killed, local, ServiceCall, Command,
       BackupCommand, NewArchive, Ensure, EnsureStart, EnsureActive, Continue, Report,
       NotReady, ThenEnsure
  <2>2. EnsurePort
    BY <2>s, <2>1 DEF CheckStopped, WaitPort, CheckActive, ResetFailed, Seen
  <2> QED
    BY <2>s, <2>2 DEF EnsurePort, NotReady, Report, Reports, Seen, PortMayAnswer, JavaGone,
                      ServerUp, Services, unit
<1>2. CallInv /\ [CallNext]_callVars => [Up]_callVars
  BY <1>1
<1> QED
  BY <1>2, CallInitially, CallStep, PTL DEF CallSpec, CaughtBackupErrorLeavesServerUp

\* The calls keep what restore alone keeps (mc_panel_action.py:866-1024), also
\* when Java crashes under the helper: the verdict is true of the disk ...
THEOREM CallsKeepVerdict == CallSpec => []VerdictMatchesData
<1>1. CallInv => VerdictMatchesData
  BY DEF CallInv, VerdictInv
<1> QED
  BY <1>1, CallInitially, CallStep, PTL DEF CallSpec

\* ... and the old data is whole.
THEOREM CallsKeepData == CallSpec => []OldDataKept
<1>1. CallInit => KeptInv
  BY DEF CallInit, InitData, KeptInv, Placed, Untouched, StagedApart, InstalledIsNew,
         RecoveryIsOld, OldDataKept, Directories, Data, BeforeStage, BeforePutBack
<1>2. KeptInv /\ [CallNext]_callVars => KeptInv'
  <2> SUFFICES ASSUME KeptInv, [CallNext]_callVars PROVE KeptInv'
    OBVIOUS
  <2>1. CASE UNCHANGED restore
    BY <2>1, KeptByStanding DEF restore, data
  <2>2. CASE Next
    BY <2>2, KeptStep
  <2>3. CASE UNCHANGED callVars
    BY <2>3, KeptByStanding DEF callVars, vars, data
  <2> QED
    BY <2>1, <2>2, <2>3 DEF CallNext, Work, Settle, Timer, Crash, Killed, Next, vars, restore
<1>3. KeptInv => OldDataKept
  BY DEF KeptInv
<1> QED
  BY <1>1, <1>2, <1>3, PTL DEF CallSpec
=============================================================================
