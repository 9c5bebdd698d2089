# Verification of the Minecraft management panel

TLA+ models of the panel in this repository, TLC runs that check them on small
instances, and theorems about them that TLAPS checks for every instance. Paths
below are relative to the repository; `operations.py` and the other Python files
without a directory are in `apps/api/src/mc_panel_api/`, and "the helper" is
`helper/mc_panel_action.py`.

    tlc -config MCOperationsFaults.cfg MCOperations     # one run
    tlapm OperationsProofs.tla                          # one set of proofs

## 1. The system

```
browser (React) -> FastAPI, a pool of threads -> OperationService -> adapter
                                                                     | sudo
SQLite  <- every component                 root helper (flock) -> systemd, files, screen
                                           backup timer, outside the lock -^
```

An owner asks for an operation. A low-risk one runs at once; every other one is
frozen into a *confirmation* that expires after five minutes and is confirmed
once (medium) or twice with the server name typed (high). A confirmed operation
is claimed in the database, handed to a root helper through `sudo`, and its
outcome is written to three tables. The helper is the only thing that changes
the server; Minecraft itself does not depend on the panel.

| component | state | operations | what makes it correct |
|---|---|---|---|
| Operation service (`operations.py`, `tools.py`) | rows of `confirmations`, `operations`, `audit_events` | `request`, `confirm`, `_execute` | executed once, after the right approvals, under the reviewed structure; never a false success; every claim resolved |
| Helper gate (`adapters/systemd.py:1040`, helper `execute`) | write switch, approved fingerprint, lock file, helper processes | gate, spawn, wait, verdict | helper runs never overlap; a verdict is the helper's |
| Restore (helper `restore_backup`) | directories of the server, recovery point and staging; the unit | safety backup, stop, move, start, rollback | old data is never lost; the verdict agrees with the disk; the server comes back |
| Cold backup and verification (helper `create_backup`, `verify_backup`, `_record_verified_archive`; adapter `list_backups`) | archives, checksum sidecars, verification markers, the unit | create, verify, list; the timer's own backups and pruning | what is called verified is the file that was verified; the server comes back |
| Backup schedule (helper `set_backup_schedule`) | two systemd drop-ins, what systemd loaded | write both, reload, restart the timer, roll back | both or neither, or `rollback_failed` |
| Mods (`main.py` upload, adapter `get_mod_upload`, helper `install_mod`, `disable_mod`) | quarantine, sidecars, `mods/` | upload, review, install, disable | what is installed is what was reviewed |
| Accounts (`auth.py`, `main.py` login) | users, sessions, tickets, the limiter's deque | login, resolve, change and reset password, tickets | no session survives a password change; a ticket opens one socket; attempts are limited |
| AI assistant (`agent.py`) | usage row, reservations, minute window | chat, reserve, record, release | the daily limits hold; no reservation leaks |
| Player activity (`activity.py`) | events, coverage ranges, refresh instant | collect, merge, read | ranges are disjoint and claim only scanned time |
| Web client (`App.tsx`, `ConfirmDialog.tsx`) | user, pending confirmation, step, locks | request, confirm, cancel, expire, refresh | the dialog and its step belong to the pending operation; one request at a time |
| Deployment (`deploy/scripts`) | release link, helper, database file, write switch | update, roll back, enable and disable writes | the release, helper and database in use belong together |

Interactions: threads share SQLite, where every statement is a transaction of its
own (`database.py:175`); the adapter and the helper share nothing but the JSON on
stdin and the exit code; helpers share the lock file; the host's backup timer
shares the unit and the backup directory with the helper and does not take the
lock; the browser knows only the answers it received.

What is hard: interleavings of requests between two statements; answers lost
between helper and database; the panel or the helper dying between two steps;
timeouts that end the waiting and not the work; systemd units that are neither
running nor stopped; a timer nobody coordinates with. `PROJECT.json` lists each
hazard at its line with the properties that watch it.

## 2. Modules

| module | models | proofs |
|---|---|---|
| `ConfirmationLifecycle` | what the service promises about one confirmation (abstract) | |
| `Operations` | `request`, `confirm`, `_execute`, the gate, the helper's lock; implements the above | `OperationsProofs` |
| `Restore` | `restore_backup`, `_rollback_restore` | `RestoreProofs` |
| `ServiceCalls` | `start_server`, `stop_server`, `restart_server`, `create_backup` beside `Restore`, which it extends | `RestoreProofs` |
| `Schedule` | `set_backup_schedule` and its rollback | `ScheduleProofs` |
| `Archives` | `_verify_archive`, markers, extraction, `list_backups`, the host's backup command | `ArchivesProofs` |
| `Mods` | `upload_mod`, the review of an upload, `install_mod`, `disable_mod` | `ModsProofs` |
| `Accounts` | login and limiter, sessions, change and reset of the password, tickets | `AccountsProofs` |
| `AiBudget` | the rate window, reservations and usage of the assistant | `AiBudgetProofs` |
| `Activity` | the log scan, the coverage ranges, the collector, the answers | `ActivityProofs` |

`MCOperations`, `MCRestore`, ... instantiate them for TLC and hold the symmetry sets.

`Restore` takes the verification of an archive as one step with a verdict; `Archives`
is that step, read by read. The two meet at lines 884-897 and 1156-1184 of the helper.
`ServiceCalls` composes the restore with the other calls that move the unit: one call per
behaviour, because the helper's lock, which `Operations` models, keeps the next one out.
`Mods` takes the same lock as a guard (`HelperBusy`).

### Operations

A *call* is one HTTP request. The confirmation it creates, and the operation row
and helper run it starts, are named after it, since the code draws a fresh id for
each. `pc[c]` is the statement call `c` is about to take; `mem[c]` holds the locals
that outlive a statement: the state column as read (`operations.py:119`), whether
the stamped `now` is past the expiry (162), the outcome (249-263). The clock is the
flag `expired[k]`, which may rise at any moment; time stamps enter only as the
comparison the code makes with them.

| code | action |
|---|---|
| `request` 48-108 | `Submit`, `InsertConfirmation`, `AuditConfirmation` |
| `confirm` 119-126 / 127-193 | `Load` / `Review` |
| the UPDATEs 164-187 and 195-212 | `FirstClaim`, `Claim`, `LoseClaim` |
| `_execute` 233-246, 248, 264, 268, 273 | `InsertOperation`, gate to `Return`, `SaveOperation`, `SaveConfirmation`, `Audit` |
| `systemd.py:1040-1052` | `GatePasses`, `GateRefuses` (a missing or unsafe helper ends like any refusal) |
| helper 402-408 | `Spawn`, `SpawnRefused` |
| `subprocess.run` with its timeout | `Overrun`, then `Return` |

`Overrun` does not kill the helper: it belongs to root, the panel's kill of it is
refused, so the thread waits on and then raises. `PanelRestarts` loses every call in
flight, and systemd may or may not take the helper along. `DatabaseError` ends a call
at any statement, which is what the uncaught exception does. What an operation does
to the server is not part of this module: its helper ends well or it does not.

Left out: the integrity checks of the stored JSON (134-161), which only a changed
database could fail; the text of previews, audit rows and messages; the operator
`CANCELLED`, a state no code enters.

### Restore

`at[d][t]` is the data of target `t` in directory `d` (server root, recovery point,
staging, `failed-new-data`): the server's own data, the archive's, or none. `svc` is
the unit, with the two transitional states that `systemctl is-active` reports as not
active. A system command succeeds or fails with the unit anywhere on its way. One
rename is one step, so the helper dies, and the timer acts, between any two. `disturbed` is
history: the timer's backup started the server, and no later `is-active` of the helper has
seen that it did.

| code | action |
|---|---|
| 866-897 | `Preflight`, `SafetyBackup`, `VerifySafety` |
| 898-916 | `Stop`, `StopCheck`, `Recover`, `RecoverStart` |
| 918-939 | `Stage`, `SetAside`, `PutInPlace`, `InstallFails` |
| 940-951 | `Start`, `Ready` |
| `_rollback_restore` 975-1024 | `RollbackStop` ... `RollbackReady` |
| `finally`, 972 | part of every step that leaves, `Leave` |

The result `escaped` is the `internal_error` of an exception that passes a recovery by,
because only a `HelperError` is caught there (898-916).

Left out: crashes of Java by itself during a restore, and files Java may create under the
root between two renames. `_ensure_minecraft_ready` is one step: its start and its two checks.

### Schedule

`file[d]` is the schedule drop-in `d` (timer, service) was written for, `loaded` what
systemd read last, `armed` what the running timer counts by. The pair before the call
and the copies at the recovery point are `before` and `saved`.

| code (helper) | action |
|---|---|
| 775-807 | `Begin`, `Save` |
| 808-813, `_atomic_root_file` | `Write`, once per drop-in |
| 814, 815-833 | `Reload`, `Restart` |
| except block 816-833, `_restore_schedule_dropins` 835-847 | `Undo`, once per drop-in, `UndoReload`, `UndoRestart` |
| any other reload on the host | `SomeoneReloads` |

A command that fails may have done its work. A helper may be killed between any two
steps, and the next call starts on what it left. `broken` is history: a step of this call's
rollback failed. The wording of the drop-ins is left out.

### Archives

An inode and the number of writes to it are the identity that `fstat` shows (device,
inode, size, times); `sound` are the identities whose bytes read as an archive of every
required root; a sidecar or a marker is the identity it was made for, or none. The
host's backup command, which the repository only calls, writes a new file, appends to
one, replaces one, leaves a checksum and prunes, between any two reads of the helper
and the panel (`PutArchive`, `AppendArchive`, `PutSidecar`, `Prune`; external).

| code | action |
|---|---|
| helper 1043-1087 | `ReadSidecar`, `Open` |
| 1088-1101, 1102-1125, 1126-1145 | `Hash`, `ReadTar`, `Lstat` |
| `_record_verified_archive` 1186-1287 | `Record`, `Mark` |
| `restore_backup` 884-897 | `AssertIdentity` |
| `_extract_verified_archive` 1156-1184 | `OpenToExtract`, `Extract`, `Unpacked` |
| `list_backups`, `systemd.py` 862-875, 737-767, 769-860, 881-899 | `ListStat`, `ListSidecar`, `ListMarker`, `ListCompare` |

Two files with equal digests are the same bytes in this model; a hash collision is not
modelled. `Begin` takes any name that has a file; which names the helper accepts is a
regular expression and left out.

### ServiceCalls

`call` is the operation the helper was started for, `step` what it does next; the unit is
`svc` of `Restore`. The port answers, or not in time, unless Java is gone; Java may crash
at any instant (a restore is judged without crashes), the timer's backup stops and starts
the server beside every call (`Timer`), the helper is killed between any two steps
(`Killed`), and every system command ends well or fails anywhere on its way. An exception
that is no `HelperError` leaves `create_backup` at once as `internal_error` (helper 476).

| code (helper) | action |
|---|---|
| `start_server`, `stop_server`, `restart_server` 412-438 | `Command`, `WaitPort`, `CheckActive`, `CheckStopped`, `ResetFailed` |
| `create_backup` 456-504 | `BackupCommand`, `NewArchive` |
| `_ensure_minecraft_ready` 522-531 | `Ensure`, `EnsureStart`, `EnsureActive`, `EnsurePort` |
| `restore_backup` | the actions of `Restore` |

### Mods

An upload id is a prefix of the content's hash, so ids are contents: uploads of the same
content share the JAR and the sidecar beside it, whatever name each gave. A file has a
content and is whole or not; a sidecar is torn between the open that empties it and the
write. `upload_mod` is a coroutine: after the last chunk it never awaits, so no other
upload moves (`Unbroken`), but helper and reviews, on other threads and in other
processes, do.

| code | action |
|---|---|
| `main.py` 500-603 | `Post`, `Received`, `CheckZip`, `MoveIn`, `Truncate`, `Describe`, `AuditUpload`; `UploadFails` is the `finally` clause |
| `systemd.py` 526-595, review of `request` | `Ask`, `ReviewSidecar`, `ReviewJar`, `ReviewMod` |
| helper 634-712 | `ReadSidecar`, `HashSource`, `LookForName`, `StartCopy`, `EndCopy`, `VerifyStaging`, `Place` |
| helper 738-773 | `MoveOut` |
| killed panel or helper, power loss, the administrator | `UploadDies`, `HelperDies`, `JarDamaged`, `AdministratorAdds` (external) |

The copy of an install is a `.jar` of the mods directory itself (helper 695): `staging[r]`
stays when the helper is killed, and the list, the review and the removal of mods see it
(`ModAt`).

Left out: the bytes of a JAR beyond valid or not, the reception chunk by chunk, and the
restart of the server that makes it load a mod.

### Accounts

One account seen from one client. A session, a ticket or a password is named after the
call that made it; a row of a session is fresh, idle too long or expired. `under`,
`revoked`, `spent` and `overlapped` are history.

| code | action |
|---|---|
| `login`, `main.py` 320-360; `authenticate`, `create_session`, `auth.py` 61-81 | `CheckRate`, `ReadHash`, `Refuse`, `Accept`, `InsertSession` |
| `change_password`, `auth.py` 83-124 / `reset_password` 126-148 | `Commit`, `Audit` / `LookUp`, `CommitReset` |
| `resolve_session`, `revoke_session` 150-184 | `Resolve`, `Touch`, `Delete` |
| `create_ws_ticket`, `consume_ws_ticket` 197-217 | `IssueTicket`, `ReadTicket`, `Mark` |

A handler runs on one of `Threads` threads and may be interleaved between any two
statements; `consume_ws_ticket` is called on the event loop, where no second socket runs,
but the threads of the pool do. The reset is a command in another process.

### AiBudget

| code (`agent.py`) | action |
|---|---|
| `chat` 150-248 | `Start`, the order of the others |
| `_enforce_chat_rate` 649-659 | `EnforceRate` |
| `_call` 575-631 | `ReadParams`, `Answer`, `ProviderFails` |
| `_reserve_call` 633-647, with the lock held | `TakeLock`, `ReadLimits`, `ReadDay`, `Reserve` |
| `_record_usage` 668-680, outside the lock | part of `Answer` |
| `_release_call` 661-666 | `Release` |
| `update_settings` 86-143 | `UpdateSettings` |

The reservation is for the day it is made on; what the provider counted is added to the
row of the day it then is, whatever number the answer states (622-628); `beyond` is history,
the part of it above the `max_tokens` that were asked for. The lock is a variable because
statements made with it held can fail and midnight passes between them.

### Activity

The log is a sequence of sets of instants, `latest.log` first; every line is a login.
A scan goes file by file and newest first, and the host may rotate between two files, so
that a name holds a newer file than when it was listed. A log above the limit of 64 MiB, or
one that is gone when it is looked at, is not listed (`List`), and the scan is complete when
all that *was* listed was read: `missed` is history, the logins that stood under a name left
out when a scan that stored a range went past it.

| code | action |
|---|---|
| `refresh_if_stale`, `activity.py` 139-150 | `Refresh` |
| `_activity_paths`, `systemd.py` 316-334 | `List`, part of `Refresh` |
| `scan_player_activity` 336-404 | `ReadFile`, `ReadFileFails`, `Complete` |
| the transaction of `_refresh` 150-227, its handler 228-251 | `Store`, `RefreshFails` |
| `get_activity` 243-309 | `Ask`, `ReadLogins`, `ReadRanges` |
| `activity_collector`, `main.py` 109-125 | `Wake` |
| the server, the log rotation (external) | `Write`, `Rotate` |

Left out: the summary per day and player, and the instant between reading the clock and
listing the files.

## 3. Runs

| run | instance | shows |
|---|---|---|
| `MCOperationsFaults` | 3 calls, 2 structures, 1 fault | types; executed once; the approvals; no false success; stale reviews only in the known window; no overlapping helpers; expiry closes; `Operations` implements `ConfirmationLifecycle` |
| `MCOperationsResolve` | 3 calls, 1 owner, 1 fault, fair | every request ends; every claim resolves unless the request that made it was cut off |
| `MCOperationsStuck` | 2 calls, 1 fault, fair | *violated*: a claim may stay `executing` for ever |
| `MCRestoreSafetyDown` | 2 targets | *violated*: a failing safety backup leaves Minecraft down |
| `MCServiceCalls` | 3 targets, every call, killed helper, timer, fair | types; old data kept; verdicts agree with the disk and the service; installs on a stopped server and runs on whole data, but for the timer's window; the server comes back; a backup error that is caught leaves it up; every call ends |
| `MCScheduleFaults` | 2 schedules, 3 calls, killed helper | every verdict agrees with what is in force; the replaced pair is at the recovery point |
| `MCScheduleBroken` | 2 schedules, 1 call | *violated*: half a pair of drop-ins is left without `rollback_failed` |
| `MCArchivesIdentity` | 1 name, 2 inodes, 2 writes each | markers, verdicts, extractions and list entries speak of the bytes that were read |
| `MCModsQuarantine` | 2 uploads, 2 requests, 3 contents, 2 names, 1 fault | types; a mod's name holds a whole mod; installed as reviewed; nothing lost |
| `MCAccountsRevocation` | 3 calls, 2 threads, limit 1, 1 fault | revoked stays revoked; a change of the password is complete; one console a ticket; how far the limiter is overrun |
| `MCAiBudgetDays` | 2 chats of 2 calls, 2 days, limits 1 and 2, 1 fault | requests within the limit, output within it but for what providers report beyond the request; reservations exact |
| `MCActivityRotation` | 1 request, 2 instants, 2 rotations, 1 fault, fair | ranges disjoint; what is covered is stored and a claim of completeness is kept, but for unlisted logs; logins arrive |

Why the bounds are enough. `Operations`: two requests race for one confirmation that a
third created, and a high-risk confirmation takes one request to create and two to confirm:
three calls. That two *second* confirmations race as well takes a fourth call, which only
adds another loser of the same compare-and-swap; `ExecutedOnceHolds` proves it for any
number. Two owners with three calls do not fit into one run: there the run has one owner,
and what `TwoApprovals` says of other users' confirmations is proved
(`TwoApprovalsHolds`). Two structures tell a change from none. One fault suffices for every
property, each of which speaks of one inconsistency that a single fault produces or does
not. Three targets are one finished, one in the middle and one not begun, the only
distinction the loops make. Three schedule changes are one that is killed, one that starts
on its remains and one after it. No code relates two archive names, so one name suffices; it
takes two inodes for one to replace the other, and two writes of each for a file to change
after it was read. `Mods`: two uploads share one content or one name or neither, two
requests are two installs, or one that moves away what the other put there, and the third
content is no mod. `Accounts`: a login, a change and the use of a session are the longest
chain that one property relates. `AiBudget`: two chats compete for the last request of the
day, two calls each and two days let a call be reserved before and recorded after midnight;
prompts are not counted before the call, so their size is fixed to 0 in the run, and a
provider reports nothing or more than the least `max_tokens`.
`Activity`: two instants with windows of one let a login grow too old while a scan runs; two
rotations move a file past what a scan looks at; a scan that holds one line (`Capacity`) and
a limit of one line per file let two logins be too many for either. `MCOperationsResolve`
has three calls, so that a high-risk confirmation is claimed, and that a second confirm and a
busy lock stand beside the request that claimed. The bounds that stand in guards are
`MaxFaults`, `MaxCalls`, `MaxVersion`, `LastDay`, `LastTime`, `MaxRotations` and, for the
pool, `Threads`. Deadlock is not checked: calls are finitely many, and each ends.

Sensitivity. For every property of a passing run `PROJECT.json` names a variant of a
definition (they stand next to it in the module and their comments call them
variants) that changes the code the way a plausible mistake would: a dropped
condition of an UPDATE, an ignored exit code, a cleanup that takes too much. With the
variant in place of the definition TLC finds the property violated.

Fairness. `Operations`: the thread pool goes on running a handler it has started, and a
helper ends, because every command it runs has a timeout and every loop is finite.
Clients, the clock, structure changes and faults are not required to act. `CallSpec`
(`ServiceCalls`): the helper runs until it leaves or is killed, for the same reason, and systemd
completes a transition it has begun; `CallTerminates` holds with every command failing in
every way, Java crashing anywhere and the timer beside it. `Activity`: the collector's sleep
ends, threads run, and the refresh lock goes round, hence strong fairness of a step that needs the lock:
a request that takes it again and again does not keep the collector out for ever. No
request, write or rotation has to come. The other modules have no liveness property: their
calls are straight lines of steps, each of which ends or times out.

## 4. What the runs found

1. A claimed confirmation can stay in `executing`: `ARCHITECTURE.md:87-88` knows only
   `executing -> succeeded | failed`, the code has no repair for a database error or a
   restart after the claim (`MCOperationsStuck`). That this is the only way is
   `ResolvesUnlessCutOff`.
2. `restore_backup` lets a failing safety backup leave the server stopped
   (`MCRestoreSafetyDown`), although `create_backup`, which runs the same command, starts
   it again, and `RECOVERY.md:5` rules it out for any failure of the panel.
3. `_restore_schedule_dropins` runs outside the handler that turns a failed rollback into
   `rollback_failed` (helper 817): an OSError in it leaves the changed pair, or half of it,
   behind an `internal_error` without the recovery point (`MCScheduleBroken`), although
   `RECOVERY.md:34` promises `rollback_failed` and its path. `VerdictMatchesSchedule` shows
   that only a failed rollback leaves anything changed.

Seen while modelling, and worded into the properties rather than listed as findings:

- A panel that stops during a restore takes the helper along; the data stays whole
  (`OldDataKept`), but nothing brings Minecraft back.
- The timer's backup takes no lock. A restore asks `is-active` once (helper 900), where a
  unit still `activating` passes, and renames after the extraction: a server which that backup
  starts in between runs while its data is moved, on a mixture of old and new.
  `RECOVERY.md:64` has Java and the port confirmed gone. `InstallsOnStoppedServer` and
  `RunsOnWholeData` except exactly this (`disturbed`), and show that nothing else leads there;
  the data itself stays whole (`OldDataKept`).
- `create_backup` catches only `HelperError` (helper 476): an error of the operating system in
  the command or while it looks for the archive leaves with `internal_error`, without
  `_ensure_minecraft_ready`, and the server may be down without a word, against
  `RECOVERY.md:5`. The stop of a restore and the start that recovers from it have the same way
  out (898-916). `CaughtBackupErrorLeavesServerUp` and `ServerBackAfterStop` except it.
- An install copies into `mods/.mc-panel-<uuid>.jar` (helper 695), a `.jar` in the directory
  the server loads: half-made while it is copied, and for ever after a killed helper, since
  nothing removes it. `SECURITY.md:72` speaks of a checked staging copy and an atomic move.
  `NamedModsAreWhole` is about the names of mods and says nothing of that file, which the
  list shows like a mod and `disable_mod` can move away.
- A login that verified the old password before a change inserts its session after it, and
  that session lives (`overlapped` in `RevocationIsComplete`).
- The limiter is overrun by the attempts that are verifying when it is reached
  (`FailuresBounded`), and of two threads that drop old attempts at once one may find the
  queue empty.
- A second upload of a content under another name changes the name an owner approved
  (`rewritten` in `InstalledAsReviewed`), and a mod the administrator copies in after the
  helper looked is replaced (`seen` in `NothingLost`).
- Input tokens are not reserved, so the token limit of a day can be passed by them; and by
  output a provider reports beyond the `max_tokens` it was asked for, which is recorded as it
  comes (`agent.py:622-628`; `beyond` in `OutputWithinLimit`).
- `_activity_paths` drops a log above 64 MiB and one that vanishes between glob and stat
  (`systemd.py:325-334`), and `scan_complete` compares with the list that is left (399-402): a
  range then covers a time whose logins were never read, and `PlayersView.tsx:138` shows the
  history as complete (`missed` in `CoveredIsStored` and `ClaimIsKept`).
- An answer of `get_activity` may claim complete coverage for logins it does not show, when
  a refresh that read them ends between its two reads (`late` in `ClaimIsKept`).

## 5. Proofs

Each theorem holds for every value of the constants; the only assumptions are those the
modules declare (`Approved \in Fingerprints`, the bounds are naturals, the flags Boolean,
`NoDropin` is no schedule, `Absent` no inode and no file, `Own` no uploaded content, `First` no
call, `Nobody` no chat). Every safety property that a passing run checks is stated by a
theorem. Hardly one is inductive as it stands; what follows says of each which invariant
carries it, and why that is needed.

`OperationsProofs`

- `TypeOKHolds`, from `TypeCorrect`: types are inductive together with `HandlerOK`, which
  says what request a handler at each step carries (a call at `claim` carries a
  confirmation, so its target is a call).
- `ExecutedOnceHolds`. `ExecutedOnce` says nothing of requests that are about to insert
  their row. `ClaimInv` adds them: a request past the claim, or whose row exists, *claims*
  its confirmation; a confirmation has at most one claimant, and none before its state has
  left `pending` and `first_confirmed`. A claim step needs one of those two states, so there
  was no claimant before it; no other step makes one.
- `HelperSerializedHolds`, directly inductive: a helper starts only when none runs.
- `TwoApprovalsHolds`. The property speaks of the operation row; its reasons lie in earlier
  steps of two requests. `ApprovalInv` carries them along: the owner is compared when the
  row is loaded, the flag and the name when it is reviewed, and a high-risk row that has left
  `pending` has a first approval, whose request ended there, so it is not the one that
  executes.
- `NoFalseSuccessHolds`. Operation row, confirmation row, audit and answer are written one
  after the other from one local. `Truth` says of each step which of them agree already and
  that a success stands for a helper that ended well; that it stays so, while other requests
  write into confirmation rows, rests on `OneClaim` of `ClaimInv`.
- `StaleReviewOnlyInWindowHolds`. The structure is compared when a request reviews its
  confirmation and again at the gate. `WindowInv` says that, unless the structure `moved`
  since the request was made, what a request past its review carries is the fingerprint in
  force, and that the approved one is in force once it has passed the gate; that it passed
  both takes `Ran` and `Settled`, which say what a helper and a target have behind them.
- `ExpiredIsClosedHolds`, an action property: a row that is still open is written only by
  the two compare-and-swaps, so by a request whose stamp is before the expiry.
- `LifecycleSpecHolds`: `Operations` implements `ConfirmationLifecycle`. Initial states map
  to initial states; each statement of each request is one step of the life of one
  confirmation or a stutter. `LaunchInv` is what makes these steps of the abstract
  specification: a first approval is of a high-risk confirmation (`ApprovesHigh`), one that is
  inserted has a risk to freeze (`Frozen`), and the confirmation of a request past its claim is
  `executing` until that very request writes its outcome (`Held`).

`RestoreProofs`, on `Restore` and on the composition `ServiceCalls`

- `OldDataKeptHolds`. Setting `t` aside must not overwrite its old data at the recovery
  point, removing new data must not take old data for new. `KeptInv` adds that staging holds
  only new data of targets not yet installed, with no new data of theirs in place; that until
  data is put back an installed target is not the old one; that the recovery point holds only
  old data; and that nothing has moved before the archive is extracted.
- `VerdictMatchesDataHolds`. A verdict is about all targets, a rename moves one. `Phase` says
  for every target how far it has come (untaken, set aside, swapped or back) at each step of
  the installation and of the way back, so that the step that answers finds every target in
  the one state its verdict claims.
- `CallTypeOKHolds`: the types, of which the renames need that the directories hold data
  (`Placed`, a part of `KeptInv`).
- `ServerBackAfterStopHolds`, `InstallsOnStoppedServerHolds`, `RunsOnWholeDataHolds`,
  `VerdictMatchesServiceHolds`, `CaughtBackupErrorLeavesServerUpHolds`, all of `CallSpec`. What
  the helper knows of the unit it learnt in earlier steps, while systemd finishes transitions,
  Java crashes and the timer's backup stops and starts the server. `CallInv` is `VerdictInv`
  (the above, of the data) with `HeldDown` (from the stop to the start the safety backup is
  verified and, once the stop was checked, `Down`: the unit is inactive or `disturbed`),
  `NotYetStopped` (nothing counts as stopped before the stop), `Seen` (whose step each step of
  the other calls is, and what it has seen of the unit) and `OneCall` (a behaviour has one
  call, so restore stands still under the others). `RunsOnWholeData` is about every instant and
  needs the phases of all targets besides: the data is a mixture only between the first rename
  and the last one, where `HeldDown` says the unit is down.
- `CallsKeepVerdict`, `CallsKeepData`: the composition keeps what was proved of `Restore`
  alone; `CallSpec` adds steps, and none of them touches the data.

`ScheduleProofs`, `ArchivesProofs`

- `VerdictMatchesScheduleHolds`, `OldScheduleRecoverableHolds`. The verdict is given in one
  step and speaks of three things changed in earlier ones, so `ScheduleInv` adds
  `Progress`: what files and systemd hold at each step of a call (at `undo_reload` the files
  are the earlier pair, at `restart` systemd has loaded what the files hold), which a reload
  by anybody keeps. No exit but a step of the rollback that fails, `broken`, is excepted.
- `MarkersVouchForSoundHolds`, `ListedVerifiedIsSoundHolds`, `ExtractedIsVerifiedHolds`. The
  helper learns about its file in steps while the file changes, so `ArchivesInv` adds
  `Knowledge`: from which step on the identity it carries is known to
  agree with the sidecar, to be sound, to be what was extracted. Identities are never reused,
  so a write by the host makes a comparison fail later and takes nothing back that is known.

`ModsProofs`

- `NamedModsAreWholeHolds`, `NothingLostHolds` and `TypeOKHolds`. `Installing` says what
  the helper knows at each step: its own copy is whole and of valid content from the second
  hash on, and the name it looked up was free. `MovedOnce`: the directory a removal moves to
  is its own, so the file it moves is new there.
- `InstalledAsReviewedHolds`. The owner is shown what a sidecar said, and the helper reads the
  sidecar and the JAR again later. `ReviewInv` holds the three together: a sidecar that is
  whole describes the content it is filed under (`DescribesId`), what a request was shown is
  what a sidecar of that content said (`ShownStands`), and what its helper holds is that too,
  unless the content was uploaded again (`HeldStands`).

`AccountsProofs`

- `RevokedStaysRevokedHolds`, `RevocationIsCompleteHolds`, `TicketHonouredHolds`,
  `FailuresBoundedHolds`. `AccountsInv` adds what ties a row to the call that made it
  (`Presented`: a token presented was handed out; `MadeOnce`: a call makes its row once, at its
  end) and what a call in flight is about to make (`InFlight`: under the password in force, or
  it overlaps a change). `FailuresBounded` needs `PoolBounded` besides: an attempt that is
  verifying holds one of the pool's threads.

`AiBudgetProofs`

- `RequestsWithinLimitHolds`, `InflightExactHolds`. Calls at the provider count too, on the
  day they are answered. `WithinToday` bounds today's requests plus the calls at the provider;
  a holder of the lock that read the day before midnight is covered by `AfterMidnight`:
  whatever was recorded on the new day is still reserved, since nobody releases while the lock
  is held. `Counted` makes `_inflight_calls` the number of those calls, by lemmas about
  `Cardinality`.
- `OutputWithinLimitHolds`, `ReservationsExactHolds`. The same argument for tokens
  (`TokenInv`), over sums instead of numbers. A sum over a set of calls is stated as the number
  of single tokens they reserve, `Cardinality(TokensOf(S))`, because a fold could only be
  reasoned about by induction over data; `TokensJoin` and `TokensPart` say that a call that
  joins or leaves `S` changes it by its own reservation. What a provider reports beyond its
  reservation raises both sides of `OutputWithinLimit`.

`ActivityProofs`

- `RangesDisjointHolds`, `CoveredIsStoredHolds`, `ClaimIsKeptHolds`. A stored range is the
  promise of one scan, merged with earlier promises. `ActivityInv` adds that logs are ordered in
  time, newest first (`LogsOrdered`), so that a scan misses nothing in the middle (`NoGap`: every
  login in a log was seen, or came after the scan began, or is in a file still to be read and
  older than all that was seen, or stood under a name that was not listed); that
  ranges lie in the past, none of them ahead of the running
  scan (`RangesPast`), with their ends in order (`EndsApart`); that a login in a log, in the
  store or in the hands of a scan is stored if a range covers it (`CoveredIsKnown`); and what
  an answer has seen between its two reads and after them (`Answered`).
  The least and the greatest end of a merge exist by lemmas from the well-foundedness of `<`
  on the naturals (`MinOfNaturals`, `MaxOfNaturals`).

Left to TLC: liveness (`EveryCallEnds`, `ResolvesUnlessCutOff`, `CallTerminates`,
`LoginsArrive`), since fairness and ENABLED are out of the prover's reach, and the three
violations of section 4.

## 6. Plan

Done: all modules of section 2, and a theorem for every safety property a run checks. What
remains, in the order of what it would add:

1. abstract specifications of further components and the proof that the detailed ones
   implement them: a restore as one step that replaces the data or fails, the budget of the
   assistant as a counter;
2. `Deploy`: release link, helper and database of `update.sh` and `rollback.sh`;
3. `Frontend` over `ConfirmationLifecycle`: the dialog and its step under late answers.

## 7. Not modelled, and why

- Previews, redaction, diagnostics, detection, configuration and the conversation of the
  assistant are pure functions of text; the read-only queries keep no state.
- Web client and views: one browser tab, whose requests `Operations` lets any caller send
  in any order; what is displayed is not modelled.
- Deployment, certificate and release scripts: an administrator runs them by hand, one at a
  time; they are shell with traps, and are left to the plan above.
- The mock adapter is a stand-in for development.
- Accounts: creating users and the CSRF token, a pure function of the session. Database: a
  statement or transaction is one step that may fail; migrations are not modelled. Console:
  the ticket is modelled, the polling of the log after it keeps no state.

`PROJECT.json` lists all components with their status.
