--------------------------------- MODULE Mods ---------------------------------
(***************************************************************************)
(* Mods: upload_mod of the panel (main.py) puts a JAR into the quarantine  *)
(* with a sidecar file beside it, an owner reviews it                      *)
(* (SystemdMinecraftAdapter.get_mod_upload) and confirms, and install_mod  *)
(* and disable_mod of the root helper move mods in and out of the server.  *)
(* One step per file operation: the helper and the review run beside an    *)
(* upload, files are two and change one after the other, and the panel,    *)
(* the helper or the host dies between any two of them.                    *)
(*                                                                         *)
(* An upload id is a prefix of the content's hash: uploads of one content  *)
(* share JAR and sidecar, whatever name each gives it.                     *)
(***************************************************************************)
EXTENDS Naturals, FiniteSets

CONSTANTS
    Uploads,        \* POST /api/v1/mods/uploads
    Requests,       \* confirmed operations on mods
    Contents,       \* JAR contents, by hash
    ValidJars,      \* those a mod loader understands
    Names,          \* file names
    Own,            \* what the administrator installs by hand
    Absent,
    Torn,           \* a sidecar cut short by the open that truncates it
    MaxFaults       \* bound on deaths, damaged files and acts of the administrator

ASSUME ContentsAssumption == ValidJars \subseteq Contents /\ Own \notin Contents
ASSUME MaxModFaultsAssumption == MaxFaults \in Nat

Files == [content : Contents, whole : BOOLEAN]
OwnFile == [content |-> Own, whole |-> TRUE]
ModFiles == Files \cup {OwnFile}

Sidecars == [name : Names, content : Contents]

ASSUME AbsentAssumption == Absent \notin ModFiles \cup Sidecars \cup {Torn}
ASSUME TornAssumption == Torn \notin Sidecars

VARIABLES
    upc,        \* upc[u]: the step upload u is about to take
    up,         \* up[u]: content and name sent
    incoming,   \* uploads whose temporary file exists
    jar,        \* jar[id]: the quarantined file
    sidecar,    \* sidecar[id]: its description
    pc,         \* pc[r]: the step request r is about to take
    kind,       \* kind[r]: install or disable
    target,     \* target[r]: the upload id, or the name of the mod; a request for its staging
    shown,      \* shown[r]: what the review was made from
    held,       \* held[r]: the sidecar as the helper read it
    staging,    \* staging[r]: the helper's .mc-panel-*.jar in the mods directory
    mods,       \* mods[n]: the file of that name in the mods directory
    removed,    \* files in mods-disabled/panel-removed, one directory a request
    verdict,    \* verdict[r]: what the helper reported
    seen,       \* history: names the helper found taken when it looked
    rewritten,  \* history: requests whose sidecar was written after their review
    faults      \* faults so far

quarantine == <<incoming, jar, sidecar>>
uploads == <<upc, up>>
requests == <<kind, target, shown>>
server == <<mods, removed>>
vars == <<uploads, quarantine, pc, requests, held, staging, server, verdict,
          seen, rewritten, faults>>

UploadSteps == {"new", "receive", "check", "move", "truncate", "describe", "audit",
                "done", "killed"}
\* From the last chunk on the coroutine never awaits: no other upload moves.
Unbroken == {"check", "move", "truncate", "describe", "audit"}
InstallSteps == {"read", "hash", "look", "copy", "verify", "place", "reply"}
HelperSteps == InstallSteps \cup {"find", "reply_moved"}
RequestSteps == HelperSteps \cup {"new", "review", "review_jar", "pending", "done", "killed"}

\* Variant: every upload has the same identifier.
SharedId(c) == CHOOSE id \in ValidJars : TRUE
UploadId(c) == c

\* The lock of the helper (module Operations).
HelperBusy == \E r \in Requests : pc[r] \in HelperSteps

Init ==
    /\ upc = [u \in Uploads |-> "new"]
    /\ up = [u \in Uploads |-> Absent]
    /\ incoming = {}
    /\ jar = [id \in Contents |-> Absent]
    /\ sidecar = [id \in Contents |-> Absent]
    /\ pc = [r \in Requests |-> "new"]
    /\ kind = [r \in Requests |-> "none"]
    /\ target = [r \in Requests |-> Absent]
    /\ shown = [r \in Requests |-> Absent]
    /\ held = [r \in Requests |-> Absent]
    /\ staging = [r \in Requests |-> Absent]
    /\ mods \in [Names -> {Absent, OwnFile}]
    /\ removed = {}
    /\ verdict = [r \in Requests |-> "none"]
    /\ seen = [r \in Requests |-> {}]
    /\ rewritten = {}
    /\ faults = 0

-----------------------------------------------------------------------------
(* upload_mod *)

MoveUpload(u, from, to) ==
    /\ upc[u] = from
    /\ to \in Unbroken => \A v \in Uploads \ {u} : upc[v] \notin Unbroken
    /\ upc' = [upc EXCEPT ![u] = to]
    /\ UNCHANGED <<pc, requests, held, staging, server, verdict, seen, faults>>

\* The name is checked before anything is stored.
Post(u) ==
    /\ MoveUpload(u, "new", "receive")
    /\ \E content \in Contents, name \in Names :
         up' = [up EXCEPT ![u] = [content |-> content, name |-> name]]
    /\ incoming' = incoming \cup {u}
    /\ UNCHANGED <<jar, sidecar, rewritten>>

\* The last chunk; the content is hashed on the way.
Received(u) ==
    /\ MoveUpload(u, "receive", "check")
    /\ UNCHANGED <<up, quarantine, rewritten>>

\* ZIP structure, CRCs, sizes and loader metadata.
CheckZip(u) ==
    /\ upc[u] = "check" /\ up[u].content \in ValidJars
    /\ MoveUpload(u, "check", "move")
    /\ UNCHANGED <<up, quarantine, rewritten>>

MoveIn(u) ==
    /\ MoveUpload(u, "move", "truncate")
    /\ jar' = [jar EXCEPT ![UploadId(up[u].content)] =
                   [content |-> up[u].content, whole |-> TRUE]]
    /\ incoming' = incoming \ {u}
    /\ UNCHANGED <<up, sidecar, rewritten>>

\* write_text empties the file of an earlier upload before it writes.
Truncate(u) ==
    /\ MoveUpload(u, "truncate", "describe")
    /\ sidecar' = [sidecar EXCEPT ![UploadId(up[u].content)] = Torn]
    /\ UNCHANGED <<up, incoming, jar, rewritten>>

\* Variant: the hash is left out of the description.
DescribedByName(u) == [name |-> up[u].name]
Described(u) == up[u]

Describe(u) ==
    LET id == UploadId(up[u].content) IN
    /\ MoveUpload(u, "describe", "audit")
    /\ sidecar' = [sidecar EXCEPT ![id] = Described(u)]
    /\ rewritten' = rewritten \cup {r \in Requests :
                        kind[r] = "install" /\ target[r] = id /\ shown[r] # Absent}
    /\ UNCHANGED <<up, incoming, jar>>

AuditUpload(u) ==
    /\ MoveUpload(u, "audit", "done")
    /\ UNCHANGED <<up, quarantine, rewritten>>

\* Too large, not a mod, a full disk, an error of the database: the finally
\* clause removes the temporary file, if it is still there.
UploadFails(u) ==
    /\ upc[u] \notin {"new", "done", "killed"}
    /\ MoveUpload(u, upc[u], "done")
    /\ incoming' = incoming \ {u}
    /\ UNCHANGED <<up, jar, sidecar, rewritten>>

-----------------------------------------------------------------------------
(* OperationService.request: the target has to exist when the review is made *)

Ask(r) ==
    /\ pc[r] = "new"
    /\ pc' = [pc EXCEPT ![r] = "review"]
    /\ \/ /\ kind' = [kind EXCEPT ![r] = "install"]
          /\ \E id \in Contents : target' = [target EXCEPT ![r] = id]
       \/ /\ kind' = [kind EXCEPT ![r] = "disable"]
          /\ \E n \in Names \cup Requests : target' = [target EXCEPT ![r] = n]
    /\ UNCHANGED <<uploads, quarantine, shown, held, staging, server, verdict,
                   seen, rewritten, faults>>

Step(r, from, to) ==
    /\ pc[r] = from
    /\ pc' = [pc EXCEPT ![r] = to]
    /\ UNCHANGED <<uploads, quarantine, kind, target, faults>>

Refuse(r) ==
    /\ verdict' = [verdict EXCEPT ![r] = "failed"]
    /\ UNCHANGED <<shown, held, staging, server, seen, rewritten>>

\* get_mod_upload opens the sidecar first; a torn one is not found.
ReviewSidecar(r) ==
    /\ kind[r] = "install" /\ sidecar[target[r]] \in Sidecars
    /\ Step(r, "review", "review_jar")
    /\ shown' = [shown EXCEPT ![r] = sidecar[target[r]]]
    /\ rewritten' = rewritten \ {r}
    /\ UNCHANGED <<held, staging, server, verdict, seen>>

\* It then looks at the size of the JAR, which the host may have cut short.
ReviewJar(r) ==
    /\ Step(r, "review_jar", "pending")
    /\ UNCHANGED <<shown, held, staging, server, verdict, seen, rewritten>>

\* What a .jar of the mods directory holds: a staging file is one, and glob("*.jar")
\* lists it too.
ModAt(name) == IF name \in Names THEN mods[name] ELSE staging[name]

\* disable_mod: the mod is in the list.
ReviewMod(r) ==
    /\ kind[r] = "disable" /\ ModAt(target[r]) # Absent
    /\ Step(r, "review", "pending")
    /\ shown' = [shown EXCEPT ![r] = ModAt(target[r])]
    /\ UNCHANGED <<held, staging, server, verdict, seen, rewritten>>

ReviewFails(r) ==
    /\ pc[r] \in {"review", "review_jar"}
    /\ Step(r, pc[r], "done")
    /\ Refuse(r)

\* The owner confirms; the helper takes its lock or refuses at once.
Confirm(r) ==
    /\ ~HelperBusy
    /\ Step(r, "pending", IF kind[r] = "install" THEN "read" ELSE "find")
    /\ UNCHANGED <<shown, held, staging, server, verdict, seen, rewritten>>

ConfirmRefused(r) ==
    /\ HelperBusy
    /\ Step(r, "pending", "done")
    /\ Refuse(r)

-----------------------------------------------------------------------------
(* install_mod *)

ReadSidecar(r) ==
    /\ pc[r] = "read" /\ jar[target[r]] # Absent /\ sidecar[target[r]] \in Sidecars
    /\ Step(r, "read", "hash")
    /\ held' = [held EXCEPT ![r] = sidecar[target[r]]]
    /\ UNCHANGED <<shown, staging, server, verdict, seen, rewritten>>

\* Variant: the hash of a file is not compared.
Unhashed(file, r) == TRUE
Hashes(file, r) == file.whole /\ file.content = held[r].content

HashSource(r) ==
    /\ pc[r] = "hash" /\ Hashes(jar[target[r]], r)
    /\ Step(r, "hash", "look")
    /\ UNCHANGED <<shown, held, staging, server, verdict, seen, rewritten>>

\* Variant: the name is not looked up.
NameUnchecked(n) == TRUE
NameFree(n) == mods[n] = Absent

LookForName(r) ==
    /\ pc[r] = "look" /\ NameFree(held[r].name)
    /\ Step(r, "look", "copy")
    /\ seen' = [seen EXCEPT ![r] = {n \in Names : mods[n] # Absent}]
    /\ UNCHANGED <<shown, held, staging, server, verdict, rewritten>>

\* The copy is a loadable name from its first byte on.
StartCopy(r) ==
    /\ pc[r] = "copy" /\ staging[r] = Absent
    /\ Step(r, "copy", "copy")
    /\ staging' = [staging EXCEPT ![r] = [content |-> jar[target[r]].content, whole |-> FALSE]]
    /\ UNCHANGED <<shown, held, server, verdict, seen, rewritten>>

EndCopy(r) ==
    /\ pc[r] = "copy" /\ staging[r] # Absent
    /\ Step(r, "copy", "verify")
    /\ staging' = [staging EXCEPT ![r] = jar[target[r]]]
    /\ UNCHANGED <<shown, held, server, verdict, seen, rewritten>>

\* Size and hash again, _validate_jar, owner and mode.
VerifyStaging(r) ==
    /\ pc[r] = "verify"
    /\ Hashes(staging[r], r) /\ staging[r].content \in ValidJars
    /\ Step(r, "verify", "place")
    /\ UNCHANGED <<shown, held, staging, server, verdict, seen, rewritten>>

Place(r) ==
    /\ Step(r, "place", "reply")
    /\ mods' = [mods EXCEPT ![held[r].name] = staging[r]]
    /\ staging' = [staging EXCEPT ![r] = Absent]
    /\ UNCHANGED <<shown, held, removed, verdict, seen, rewritten>>

StagingUnlinked(r) == [staging EXCEPT ![r] = Absent]

\* A check that fails or an error of the operating system, after the finally
\* clause; once the mod is in place the error changes nothing any more.
HelperFails(r) ==
    /\ pc[r] \in HelperSteps
    /\ Step(r, pc[r], "done")
    /\ verdict' = [verdict EXCEPT ![r] = "failed"]
    /\ staging' = StagingUnlinked(r)
    /\ UNCHANGED <<shown, held, server, seen, rewritten>>

Reply(r) ==
    /\ pc[r] \in {"reply", "reply_moved"}
    /\ Step(r, pc[r], "done")
    /\ verdict' = [verdict EXCEPT ![r] = "ok"]
    /\ UNCHANGED <<shown, held, staging, server, seen, rewritten>>

-----------------------------------------------------------------------------
(* disable_mod *)

\* The mod, or what a killed install left, is looked up by its name and moved to
\* a directory of its own.
MoveOut(r) ==
    /\ pc[r] = "find" /\ ModAt(target[r]) # Absent
    /\ Step(r, "find", "reply_moved")
    /\ removed' = removed \cup {[by |-> r, name |-> target[r], file |-> ModAt(target[r])]}
    /\ \/ /\ target[r] \in Names
          /\ mods' = [mods EXCEPT ![target[r]] = Absent]
          /\ UNCHANGED staging
       \/ /\ target[r] \notin Names
          /\ staging' = [staging EXCEPT ![target[r]] = Absent]
          /\ UNCHANGED mods
    /\ UNCHANGED <<shown, held, verdict, seen, rewritten>>

-----------------------------------------------------------------------------
(* Around them *)

Fault ==
    /\ faults < MaxFaults
    /\ faults' = faults + 1

\* The panel is killed: the temporary file stays.
UploadDies(u) ==
    /\ upc[u] \notin {"new", "done", "killed"}
    /\ Fault
    /\ upc' = [upc EXCEPT ![u] = "killed"]
    /\ UNCHANGED <<up, quarantine, pc, requests, held, staging, server, verdict,
                   seen, rewritten>>

\* The helper is killed: no finally clause runs.
HelperDies(r) ==
    /\ pc[r] \in HelperSteps
    /\ Fault
    /\ pc' = [pc EXCEPT ![r] = "killed"]
    /\ UNCHANGED <<uploads, quarantine, requests, held, staging, server, verdict,
                   seen, rewritten>>

\* Nothing flushes a quarantined JAR to the disk: a host that lost power has the
\* name and not all of the bytes.
JarDamaged(id) ==
    /\ jar[id] # Absent /\ Fault
    /\ jar' = [jar EXCEPT ![id].whole = FALSE]
    /\ UNCHANGED <<uploads, incoming, sidecar, pc, requests, held, staging, server, verdict,
                   seen, rewritten>>

\* The administrator copies a mod into the directory by hand.
AdministratorAdds(n) ==
    /\ mods[n] = Absent /\ Fault
    /\ mods' = [mods EXCEPT ![n] = OwnFile]
    /\ UNCHANGED <<uploads, quarantine, pc, requests, held, staging, removed, verdict,
                   seen, rewritten>>

Upload(u) ==
    \/ Post(u) \/ Received(u) \/ CheckZip(u) \/ MoveIn(u) \/ Truncate(u) \/ Describe(u)
    \/ AuditUpload(u) \/ UploadFails(u) \/ UploadDies(u)

Review(r) ==
    Ask(r) \/ ReviewSidecar(r) \/ ReviewJar(r) \/ ReviewMod(r) \/ ReviewFails(r)

Helper(r) ==
    \/ Confirm(r) \/ ConfirmRefused(r)
    \/ ReadSidecar(r) \/ HashSource(r) \/ LookForName(r) \/ StartCopy(r) \/ EndCopy(r)
    \/ VerifyStaging(r) \/ Place(r) \/ MoveOut(r) \/ Reply(r)
    \/ HelperFails(r) \/ HelperDies(r)

Next ==
    \/ \E u \in Uploads : Upload(u)
    \/ \E r \in Requests : Review(r) \/ Helper(r)
    \/ \E id \in Contents : JarDamaged(id)
    \/ \E n \in Names : AdministratorAdds(n)

Spec == Init /\ [][Next]_vars

-----------------------------------------------------------------------------
TypeOK ==
    /\ upc \in [Uploads -> UploadSteps]
    /\ up \in [Uploads -> Sidecars \cup {Absent}]
    /\ incoming \subseteq Uploads
    /\ jar \in [Contents -> Files \cup {Absent}]
    /\ sidecar \in [Contents -> Sidecars \cup {Absent, Torn}]
    /\ pc \in [Requests -> RequestSteps]
    /\ kind \in [Requests -> {"none", "install", "disable"}]
    /\ target \in [Requests -> Contents \cup Names \cup Requests \cup {Absent}]
    /\ shown \in [Requests -> Sidecars \cup ModFiles \cup {Absent}]
    /\ held \in [Requests -> Sidecars \cup {Absent}]
    /\ staging \in [Requests -> Files \cup {Absent}]
    /\ mods \in [Names -> ModFiles \cup {Absent}]
    /\ removed \subseteq [by : Requests, name : Names \cup Requests, file : ModFiles]
    /\ verdict \in [Requests -> {"none", "ok", "failed"}]
    /\ seen \in [Requests -> SUBSET Names]
    /\ rewritten \subseteq Requests
    /\ faults \in 0..MaxFaults

\* SECURITY.md:72, mods are checked in a staging copy and renamed: what a mod's own
\* name holds is whole and has loader metadata at every instant, though uploads
\* rewrite the source and the host damages it during the copy and the helper is
\* killed anywhere.  It says nothing of the copy, which is a .jar of its own.
NamedModsAreWhole ==
    \A n \in Names : mods[n] # Absent =>
        mods[n].whole /\ mods[n].content \in ValidJars \cup {Own}

\* The owner approved an upload id and the name and size shown with it.  The
\* helper that installs later, from files that may have changed since, installs
\* the content they belonged to, and under another name only if the same content
\* was uploaded again meanwhile.
InstalledAsReviewed ==
    \A r \in Requests : pc[r] = "place" =>
        /\ staging[r].content = shown[r].content
        /\ held[r].name = shown[r].name \/ r \in rewritten

\* RECOVERY.md:40-47: removing a mod moves it, installing never replaces one.  A
\* file leaves its name in the mods directory only for panel-removed, where it
\* stays; or it appeared after the helper had found the name free.
NothingLost ==
    [][ /\ removed \subseteq removed'
        /\ \A n \in Names : mods[n] # Absent /\ mods'[n] # mods[n] =>
             \/ \E x \in removed' \ removed : x.name = n /\ x.file = mods[n]
             \/ \E r \in Requests : pc[r] = "place" /\ held[r].name = n /\ n \notin seen[r]
      ]_vars
=============================================================================
