------------------------------ MODULE Archives ------------------------------
(***************************************************************************)
(* Which bytes the word "verified" speaks of.  The root helper checks an   *)
(* archive against its checksum sidecar, reads it as an archive and leaves *)
(* a marker with the identity of the file; a restore extracts what it      *)
(* checked; the panel lists a backup as verified by comparing archive,     *)
(* sidecar and marker.  All of this while the host's backup command, which *)
(* knows none of them, writes, replaces and prunes the same files.         *)
(***************************************************************************)
EXTENDS Naturals

CONSTANTS
    Names,          \* archive names
    Files,          \* inodes
    MaxVersion,     \* bound on the writes to one inode
    Absent          \* no file, no digest, no marker

ASSUME ArchivesAssumption == MaxVersion \in Nat /\ Absent \notin Files

VARIABLES
    path,       \* path[n]: the inode under name n
    version,    \* version[f]: its last write; with the inode, what fstat shows
    sound,      \* identities whose bytes are a readable archive of every required root
    sidecar,    \* sidecar[n]: the identity whose digest the sidecar holds
    marker,     \* marker[n]: the identity the marker was written for
    helper,     \* the helper's call: step, archive name, digest, descriptor, identity
    staged,     \* the bytes the helper extracted
    reader      \* the panel's list_backups, at one entry

store == <<path, version, sound, sidecar>>
vars == <<store, marker, helper, staged, reader>>

Identities == Files \X (0 .. MaxVersion)

Stat(f) == <<f, version[f]>>

\* Variant: sizes and times are not compared.
MatchesInode(f, id) == f = id[1]
Matches(f, id) == Stat(f) = id

\* lstat of a name matches an identity.
At(n, id) == path[n] # Absent /\ Matches(path[n], id)

HelperSteps == {"idle", "sidecar", "open", "hash", "tar", "lstat", "record", "mark",
                "assert", "extract", "unpack", "unpacked", "installed", "ok", "failed"}
ReaderSteps == {"idle", "sidecar", "marker", "compare", "verified", "unverified"}

Init ==
    /\ path = [n \in Names |-> Absent]
    /\ version = [f \in Files |-> 0]
    /\ sound = {}
    /\ sidecar = [n \in Names |-> Absent]
    /\ marker = [n \in Names |-> Absent]
    /\ \E n \in Names :
         /\ helper = [at |-> "idle", restores |-> FALSE, name |-> n, expected |-> Absent,
                      fd |-> Absent, id |-> Absent]
         /\ reader = [at |-> "idle", name |-> n, id |-> Absent, digest |-> Absent]
    /\ staged = Absent

-----------------------------------------------------------------------------
(* The backup command: timer, manual backup, safety backup, administrator *)

\* Every write makes new bytes with a new identity, complete or not.
Written(f) ==
    /\ version[f] < MaxVersion
    /\ version' = [version EXCEPT ![f] = @ + 1]
    /\ \/ sound' = sound \cup {<<f, version[f] + 1>>}
       \/ UNCHANGED sound

\* A new file under a name, new or taken.
PutArchive(n, f) ==
    /\ \A m \in Names : path[m] # f
    /\ Written(f)
    /\ path' = [path EXCEPT ![n] = f]
    /\ UNCHANGED <<sidecar, marker, helper, staged, reader>>

\* More bytes into a file that is there.
AppendArchive(n) ==
    /\ path[n] # Absent
    /\ Written(path[n])
    /\ UNCHANGED <<path, sidecar, marker, helper, staged, reader>>

\* The checksum comes after the archive and is of whatever the archive is then.
PutSidecar(n) ==
    /\ path[n] # Absent
    /\ sidecar' = [sidecar EXCEPT ![n] = Stat(path[n])]
    /\ UNCHANGED <<path, version, sound, marker, helper, staged, reader>>

Prune(n) ==
    /\ path[n] # Absent
    /\ path' = [path EXCEPT ![n] = Absent]
    /\ sidecar' = [sidecar EXCEPT ![n] = Absent]
    /\ UNCHANGED <<version, sound, marker, helper, staged, reader>>

-----------------------------------------------------------------------------
(* The helper: verify_backup, and restore_backup up to the extraction *)

\* A step of the helper from one point to the next.
Step(from, to) == helper.at = from /\ helper' = [helper EXCEPT !.at = to]
Unless(condition, from) == helper.at = from /\ ~condition /\ Step(from, "failed")

Begin(n, restores) ==
    /\ helper.at \in {"idle", "ok", "installed", "failed"}
    /\ path[n] # Absent
    /\ helper' = [at |-> "sidecar", restores |-> restores, name |-> n, expected |-> Absent,
                  fd |-> Absent, id |-> Absent]
    /\ staged' = Absent
    /\ UNCHANGED <<store, marker, reader>>

ReadSidecar ==
    /\ \/ /\ helper.at = "sidecar"
          /\ sidecar[helper.name] # Absent
          /\ helper' = [helper EXCEPT !.at = "open", !.expected = sidecar[helper.name]]
       \/ Unless(sidecar[helper.name] # Absent, "sidecar")
    /\ UNCHANGED <<store, marker, staged, reader>>

\* The identity is taken from the open descriptor.
Open ==
    /\ \/ /\ helper.at = "open"
          /\ path[helper.name] # Absent
          /\ helper' = [helper EXCEPT !.at = "hash", !.fd = path[helper.name],
                                      !.id = Stat(path[helper.name])]
       \/ Unless(path[helper.name] # Absent, "open")
    /\ UNCHANGED <<store, marker, staged, reader>>

Unchanged == Matches(helper.fd, helper.id)
InPlace == At(helper.name, helper.id)
Hashed == Unchanged /\ helper.expected = helper.id

Hash ==
    /\ \/ Step("hash", "tar") /\ Hashed
       \/ Unless(Hashed, "hash")
    /\ UNCHANGED <<store, marker, staged, reader>>

ReadsAsArchive == Unchanged /\ helper.id \in sound

ReadTar ==
    /\ \/ Step("tar", "lstat") /\ ReadsAsArchive
       \/ Unless(ReadsAsArchive, "tar")
    /\ UNCHANGED <<store, marker, staged, reader>>

\* lstat of the path after the descriptor is closed, and again before the marker.
Lstat ==
    /\ \/ Step("lstat", "record") /\ InPlace
       \/ Unless(InPlace, "lstat")
    /\ UNCHANGED <<store, marker, staged, reader>>

Record ==
    /\ \/ Step("record", "mark") /\ InPlace
       \/ Unless(InPlace, "record")
    /\ UNCHANGED <<store, marker, staged, reader>>

\* Variant: the marker describes the file found under the name now.
Vouched == IF path[helper.name] = Absent THEN Absent ELSE Stat(path[helper.name])
VouchedFor == helper.id

\* The marker is renamed into place.  A store that fails before leaves the earlier
\* marker, one that has moved away may leave none, and one that fails after the
\* rename, at the fsync or the second look at the store, leaves the new marker of a
\* verification that is reported as failed.
Mark ==
    /\ \/ /\ Step("mark", IF helper.restores THEN "assert" ELSE "ok")
          /\ marker' = [marker EXCEPT ![helper.name] = VouchedFor]
       \/ /\ Step("mark", "failed")
          /\ \/ UNCHANGED marker
             \/ \E left \in {Absent, VouchedFor} :
                  marker' = [marker EXCEPT ![helper.name] = left]
    /\ UNCHANGED <<store, staged, reader>>

\* After the safety backup, before the server is stopped.
AssertIdentity ==
    /\ \/ Step("assert", "extract") /\ InPlace
       \/ Unless(InPlace, "assert")
    /\ UNCHANGED <<store, marker, staged, reader>>

OpensVerified == InPlace

OpenToExtract ==
    /\ \/ /\ helper.at = "extract"
          /\ OpensVerified
          /\ helper' = [helper EXCEPT !.at = "unpack", !.fd = path[helper.name]]
       \/ Unless(OpensVerified, "extract")
    /\ UNCHANGED <<store, marker, staged, reader>>

\* extractall reads the file as it is by then; fstat afterwards tells.
Extract ==
    /\ \/ Step("unpack", "unpacked") /\ Unchanged
       \/ Unless(Unchanged, "unpack")
    /\ staged' = Stat(helper.fd)
    /\ UNCHANGED <<store, marker, reader>>

Unpacked ==
    /\ \/ Step("unpacked", "installed") /\ InPlace
       \/ Unless(InPlace, "unpacked")
    /\ UNCHANGED <<store, marker, staged, reader>>

-----------------------------------------------------------------------------
(* The panel: list_backups, one entry *)

ListStat(n) ==
    /\ reader.at \in {"idle", "verified", "unverified"}
    /\ path[n] # Absent
    /\ reader' = [at |-> "sidecar", name |-> n, id |-> Stat(path[n]), digest |-> Absent]
    /\ UNCHANGED <<store, marker, helper, staged>>

\* A sidecar that changes while it is read counts as invalid.
ListSidecar ==
    /\ reader.at = "sidecar"
    /\ \/ reader' = [reader EXCEPT !.at = "marker", !.digest = sidecar[reader.name]]
       \/ reader' = [reader EXCEPT !.at = "unverified"]
    /\ UNCHANGED <<store, marker, helper, staged>>

\* Variant: a marker for the name is enough.
VouchesByName == marker[reader.name] # Absent /\ reader.digest # Absent
\* _is_persistently_verified: every field of the marker, its digest included.
Vouches ==
    /\ marker[reader.name] # Absent
    /\ marker[reader.name] = reader.id
    /\ marker[reader.name] = reader.digest

ListMarker ==
    /\ reader.at = "marker"
    /\ reader' = [reader EXCEPT !.at = IF Vouches THEN "compare" ELSE "unverified"]
    /\ UNCHANGED <<store, marker, helper, staged>>

StillSame == At(reader.name, reader.id)

ListCompare ==
    /\ reader.at = "compare"
    /\ reader' = [reader EXCEPT !.at = IF StillSame THEN "verified" ELSE "unverified"]
    /\ UNCHANGED <<store, marker, helper, staged>>

-----------------------------------------------------------------------------
Host == \E n \in Names :
    AppendArchive(n) \/ PutSidecar(n) \/ Prune(n) \/ \E f \in Files : PutArchive(n, f)

Helper ==
    \/ \E n \in Names, restores \in BOOLEAN : Begin(n, restores)
    \/ ReadSidecar \/ Open \/ Hash \/ ReadTar \/ Lstat \/ Record \/ Mark
    \/ AssertIdentity \/ OpenToExtract \/ Extract \/ Unpacked

Reader == (\E n \in Names : ListStat(n)) \/ ListSidecar \/ ListMarker \/ ListCompare

Next == Host \/ Helper \/ Reader

Spec == Init /\ [][Next]_vars

-----------------------------------------------------------------------------
TypeOK ==
    /\ path \in [Names -> Files \cup {Absent}]
    /\ version \in [Files -> 0 .. MaxVersion]
    /\ sound \subseteq Identities
    /\ sidecar \in [Names -> Identities \cup {Absent}]
    /\ marker \in [Names -> Identities \cup {Absent}]
    /\ helper \in [at : HelperSteps, restores : BOOLEAN, name : Names,
                   expected : Identities \cup {Absent}, fd : Files \cup {Absent},
                   id : Identities \cup {Absent}]
    /\ staged \in Identities \cup {Absent}
    /\ reader \in [at : ReaderSteps, name : Names, id : Identities \cup {Absent},
                   digest : Identities \cup {Absent}]

\* _record_verified_archive: whatever happens to the files while one is checked, a
\* marker is never written for bytes that were not read as a sound archive.
MarkersVouchForSound == \A n \in Names : marker[n] # Absent => marker[n] \in sound

\* restore_backup: what is extracted and goes on to be installed is, byte for byte,
\* the archive that was verified, though its file is opened twice.
ExtractedIsVerified ==
    helper.at = "installed" => staged = helper.id /\ staged \in sound

\* list_backups puts "verified" only against sound bytes that the sidecar of the
\* name agreed with, though it reads archive, sidecar and marker at three instants.
ListedVerifiedIsSound ==
    reader.at = "verified" => reader.id \in sound /\ reader.digest = reader.id
=============================================================================
