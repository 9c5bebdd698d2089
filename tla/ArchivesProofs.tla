--------------------------- MODULE ArchivesProofs ---------------------------
(* Theorems about Archives, for any number of names, files and writes. *)
EXTENDS Archives, TLAPS

Opened == {"hash", "tar", "lstat", "record", "mark", "assert", "extract", "unpack", "unpacked",
           "installed", "ok"}
Verified == Opened \ {"hash", "tar"}

\* What the helper and the panel know of the identity they carry.
Knowledge ==
    /\ helper.at \in Opened => helper.fd \in Files
    /\ helper.at \in Opened \ {"hash"} => helper.expected = helper.id
    /\ helper.at \in Verified => helper.id \in sound
    /\ helper.at \in {"unpacked", "installed"} => staged = helper.id
    /\ reader.at \in {"compare", "verified"} => reader.id \in sound /\ reader.digest = reader.id

ArchivesInv == TypeOK /\ Knowledge /\ MarkersVouchForSound

LEMMA InitInv == Init => ArchivesInv
  BY ArchivesAssumption
     DEF Init, ArchivesInv, TypeOK, Knowledge, MarkersVouchForSound, HelperSteps, ReaderSteps,
         Opened, Verified, Identities

\* A name that has a file has an inode, and every inode an identity.
LEMMA StatType ==
    ASSUME TypeOK, NEW f \in Files
    PROVE  Stat(f) \in Identities
  BY DEF TypeOK, Stat, Identities

\* The backup command only adds to the sound identities and leaves helper, panel and
\* markers alone.
LEMMA HostStep == ArchivesInv /\ Host => ArchivesInv'
<1> SUFFICES ASSUME TypeOK, Knowledge, MarkersVouchForSound, NEW n \in Names,
                    AppendArchive(n) \/ PutSidecar(n) \/ Prune(n)
                    \/ \E f \in Files : PutArchive(n, f)
             PROVE  ArchivesInv'
  BY DEF ArchivesInv, Host
<1>1. ASSUME NEW f \in Files, Written(f)
      PROVE  /\ version' \in [Files -> 0 .. MaxVersion]
             /\ sound \subseteq sound' /\ sound' \subseteq Identities
  BY <1>1, ArchivesAssumption DEF TypeOK, Written, Identities
<1>2. UNCHANGED <<marker, helper, staged, reader>> /\ sound \subseteq sound'
  BY <1>1 DEF AppendArchive, PutSidecar, Prune, PutArchive, TypeOK
<1>3. TypeOK'
  <2>1. CASE AppendArchive(n)
    BY <2>1, <1>1 DEF AppendArchive, TypeOK
  <2>2. CASE PutSidecar(n)
    BY <2>2, StatType DEF PutSidecar, TypeOK
  <2>3. CASE Prune(n)
    BY <2>3 DEF Prune, TypeOK
  <2>4. ASSUME NEW f \in Files, PutArchive(n, f) PROVE TypeOK'
    BY <2>4, <1>1 DEF PutArchive, TypeOK
  <2> QED
    BY <2>1, <2>2, <2>3, <2>4
<1>4. Knowledge' /\ MarkersVouchForSound'
  BY <1>2 DEF Knowledge, MarkersVouchForSound
<1> QED
  BY <1>3, <1>4 DEF ArchivesInv

\* The panel only reads; a marker that equals the identity it saw is of sound bytes.
LEMMA ReaderStep == ArchivesInv /\ Reader => ArchivesInv'
<1> SUFFICES ASSUME TypeOK, Knowledge, MarkersVouchForSound, Reader PROVE ArchivesInv'
  BY DEF ArchivesInv
<1>1. UNCHANGED <<store, marker, helper, staged>>
  BY DEF Reader, ListStat, ListSidecar, ListMarker, ListCompare
<1>2. /\ reader' \in [at : ReaderSteps, name : Names, id : Identities \cup {Absent},
                      digest : Identities \cup {Absent}]
      /\ reader'.at \in {"compare", "verified"} =>
           reader'.id \in sound /\ reader'.digest = reader'.id
  <2>1. ASSUME NEW n \in Names, ListStat(n) PROVE <1>2
    BY <2>1, StatType DEF ListStat, TypeOK, ReaderSteps
  <2>2. CASE ListSidecar
    BY <2>2 DEF ListSidecar, TypeOK, ReaderSteps
  <2>3. CASE ListMarker
    BY <2>3 DEF ListMarker, Vouches, TypeOK, ReaderSteps, MarkersVouchForSound
  <2>4. CASE ListCompare
    BY <2>4 DEF ListCompare, TypeOK, ReaderSteps, Knowledge
  <2> QED
    BY <2>1, <2>2, <2>3, <2>4 DEF Reader
<1> QED
  BY <1>1, <1>2 DEF ArchivesInv, TypeOK, Knowledge, MarkersVouchForSound, store

\* A verification ends with sound bytes under the digest of the sidecar, and an
\* extraction that leaves the descriptor's identity alone extracts those bytes.
LEMMA HelperStep == ArchivesInv /\ Helper => ArchivesInv'
<1> SUFFICES ASSUME TypeOK, Knowledge, MarkersVouchForSound, Helper PROVE ArchivesInv'
  BY DEF ArchivesInv
<1> USE DEF TypeOK, Knowledge, MarkersVouchForSound, ArchivesInv, HelperSteps, Opened, Verified,
            store, Step, Unless
<1>1. ASSUME NEW n \in Names, NEW restores \in BOOLEAN, Begin(n, restores) PROVE ArchivesInv'
  <2>1. helper' = [at |-> "sidecar", restores |-> restores, name |-> n, expected |-> Absent,
                   fd |-> Absent, id |-> Absent]
    BY <1>1 DEF Begin
  <2>2. UNCHANGED <<store, marker, reader>> /\ staged' = Absent
    BY <1>1 DEF Begin
  <2>3. TypeOK'
    BY <2>1, <2>2
  <2>4. Knowledge' /\ MarkersVouchForSound'
    BY <2>1, <2>2
  <2> QED
    BY <2>3, <2>4
<1>2. CASE ReadSidecar
  <2>1. helper.at = "sidecar" /\ UNCHANGED <<store, marker, staged, reader>>
    BY <1>2 DEF ReadSidecar
  <2>2. CASE /\ sidecar[helper.name] # Absent
             /\ helper' = [helper EXCEPT !.at = "open", !.expected = sidecar[helper.name]]
    BY <2>1, <2>2
  <2>3. CASE Step("sidecar", "failed")
    BY <2>1, <2>3
  <2> QED
    BY <1>2, <2>2, <2>3 DEF ReadSidecar
<1>3. CASE Open
  <2>1. path[helper.name] # Absent =>
           path[helper.name] \in Files /\ Stat(path[helper.name]) \in Identities
    BY StatType
  <2>2. UNCHANGED <<store, marker, staged, reader>>
    BY <1>3 DEF Open
  <2>3. CASE /\ path[helper.name] # Absent
             /\ helper' = [helper EXCEPT !.at = "hash", !.fd = path[helper.name],
                                         !.id = Stat(path[helper.name])]
    <3>1. TypeOK'
      BY <2>1, <2>2, <2>3
    <3>2. Knowledge' /\ MarkersVouchForSound'
      BY <2>1, <2>2, <2>3
    <3> QED
      BY <3>1, <3>2
  <2>4. CASE Step("open", "failed")
    BY <2>2, <2>4
  <2> QED
    BY <1>3, <2>3, <2>4 DEF Open
<1>4. CASE Hash
  BY <1>4 DEF Hash, Hashed
<1>5. CASE ReadTar
  BY <1>5 DEF ReadTar, ReadsAsArchive
<1>6. CASE Lstat
  BY <1>6 DEF Lstat
<1>7. CASE Record
  BY <1>7 DEF Record
<1>8. CASE Mark
  BY <1>8 DEF Mark, VouchedFor
<1>9. CASE AssertIdentity
  BY <1>9 DEF AssertIdentity
<1>10. CASE OpenToExtract
  <2>1. UNCHANGED <<store, marker, staged, reader>>
    BY <1>10 DEF OpenToExtract
  <2>2. CASE /\ helper.at = "extract" /\ path[helper.name] # Absent
             /\ helper' = [helper EXCEPT !.at = "unpack", !.fd = path[helper.name]]
    <3>1. path[helper.name] \in Files
      BY <2>2
    <3>2. TypeOK'
      BY <2>1, <2>2, <3>1
    <3>3. Knowledge' /\ MarkersVouchForSound'
      BY <2>1, <2>2, <3>1
    <3> QED
      BY <3>2, <3>3
  <2>3. CASE Step("extract", "failed")
    BY <2>1, <2>3
  <2> QED
    BY <1>10, <2>2, <2>3 DEF OpenToExtract, OpensVerified, InPlace, At
<1>11. CASE Extract
  <2>1. helper.at = "unpack" /\ UNCHANGED <<store, marker, reader>> /\ staged' = Stat(helper.fd)
    BY <1>11 DEF Extract
  <2>2. Stat(helper.fd) \in Identities
    BY <2>1, StatType
  <2>3. CASE Step("unpack", "unpacked") /\ Stat(helper.fd) = helper.id
    BY <2>1, <2>2, <2>3
  <2>4. CASE Step("unpack", "failed")
    BY <2>1, <2>2, <2>4
  <2> QED
    BY <1>11, <2>3, <2>4 DEF Extract, Unchanged, Matches
<1>12. CASE Unpacked
  BY <1>12 DEF Unpacked
<1> HIDE DEF TypeOK, Knowledge, MarkersVouchForSound, ArchivesInv, store, Step, Unless
<1> QED
  BY <1>1, <1>2, <1>3, <1>4, <1>5, <1>6, <1>7, <1>8, <1>9, <1>10, <1>11, <1>12 DEF Helper

LEMMA ArchivesInvHolds == Spec => []ArchivesInv
<1>1. ArchivesInv /\ UNCHANGED vars => ArchivesInv'
  BY DEF ArchivesInv, TypeOK, Knowledge, MarkersVouchForSound, vars, store
<1>2. ArchivesInv /\ [Next]_vars => ArchivesInv'
  BY HostStep, HelperStep, ReaderStep, <1>1 DEF Next
<1> QED
  BY InitInv, <1>2, PTL DEF Spec

\* _record_verified_archive, list_backups and restore_backup: markers, listed
\* verdicts and extracted data are of sound bytes, whatever the host's backup
\* command does to the files in between.
THEOREM MarkersVouchForSoundHolds == Spec => []MarkersVouchForSound
<1>1. ArchivesInv => MarkersVouchForSound
  BY DEF ArchivesInv
<1> QED
  BY ArchivesInvHolds, <1>1, PTL

\* list_backups: an entry listed as verified is sound, and its sidecar agreed.
THEOREM ListedVerifiedIsSoundHolds == Spec => []ListedVerifiedIsSound
<1>1. ArchivesInv => ListedVerifiedIsSound
  BY DEF ArchivesInv, Knowledge, ListedVerifiedIsSound
<1> QED
  BY ArchivesInvHolds, <1>1, PTL

\* restore_backup: the bytes that go on to be installed are those that were verified.
THEOREM ExtractedIsVerifiedHolds == Spec => []ExtractedIsVerified
<1>1. ArchivesInv => ExtractedIsVerified
  BY DEF ArchivesInv, Knowledge, ExtractedIsVerified, Verified, Opened
<1> QED
  BY ArchivesInvHolds, <1>1, PTL
=============================================================================
