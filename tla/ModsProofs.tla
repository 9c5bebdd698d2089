------------------------------ MODULE ModsProofs ------------------------------
(* Theorems about Mods, for any number of uploads, requests, files and faults. *)
EXTENDS Mods, TLAPS

\* What an upload and a request carry at each step.
Carried ==
    /\ \A u \in Uploads : upc[u] # "new" => up[u] \in Sidecars
    /\ \A r \in Requests :
        /\ pc[r] # "new" => \/ kind[r] = "install" /\ target[r] \in Contents
                            \/ kind[r] = "disable" /\ target[r] \in Names \cup Requests
        /\ pc[r] \in InstallSteps => kind[r] = "install"
        /\ pc[r] \in {"find", "reply_moved"} => kind[r] = "disable"

\* What install_mod holds at each of its steps.
Installing ==
    \A r \in Requests :
        /\ pc[r] \in InstallSteps \ {"read"} => held[r] \in Sidecars /\ jar[target[r]] \in Files
        /\ pc[r] \in {"verify", "place"} => staging[r] \in Files
        /\ pc[r] = "place" => staging[r].whole /\ staging[r].content \in ValidJars
        /\ pc[r] \in {"copy", "verify", "place"} => held[r].name \notin seen[r]
        /\ staging[r] # Absent => pc[r] \in {"copy", "verify", "place", "killed"}

\* A request moves one mod out, and then ends.
MovedOnce == \A x \in removed : pc[x.by] \in {"reply_moved", "done", "killed"}

\* The lock of the helper: while one install is at work nobody moves its staging
\* file away.
OneHelper == \A r, q \in Requests : pc[r] \in HelperSteps /\ pc[q] \in HelperSteps => r = q

ModsInv == TypeOK /\ Carried /\ Installing /\ MovedOnce /\ OneHelper /\ NamedModsAreWhole

USE DEF uploads, quarantine, requests, server

\* Files, descriptions and Absent are apart.
LEMMA Kinds ==
    /\ Absent \notin ModFiles /\ Absent \notin Sidecars /\ Absent \notin Files
    /\ Files \subseteq ModFiles /\ OwnFile \in ModFiles /\ Torn \notin Sidecars
    /\ OwnFile.whole /\ OwnFile.content = Own
    /\ \A f \in Files : f.content \in Contents /\ f.whole \in BOOLEAN
    /\ \A s \in Sidecars : s.content \in Contents /\ s.name \in Names
BY AbsentAssumption, TornAssumption DEF ModFiles, Files, Sidecars, OwnFile

LEMMA Made ==
    /\ \A c \in Contents, b \in BOOLEAN : [content |-> c, whole |-> b] \in Files
    /\ \A c \in Contents, n \in Names : [content |-> c, name |-> n] \in Sidecars
    /\ \A f \in Files : [f EXCEPT !.whole = FALSE] \in Files
BY DEF Files, Sidecars

LEMMA InitInv == Init => ModsInv
<1> SUFFICES ASSUME Init PROVE ModsInv
  OBVIOUS
<1> USE Kinds DEF Init
<1>1. TypeOK
  BY MaxModFaultsAssumption DEF TypeOK, UploadSteps, RequestSteps
<1>2. Carried /\ Installing /\ MovedOnce /\ OneHelper
  BY DEF Carried, Installing, MovedOnce, OneHelper, InstallSteps, HelperSteps
<1>3. NamedModsAreWhole
  BY DEF NamedModsAreWhole
<1> QED BY <1>1, <1>2, <1>3 DEF ModsInv

\* Types are kept by every step.
LEMMA NextType == ModsInv /\ [Next]_vars => TypeOK'
<1> SUFFICES ASSUME ModsInv, [Next]_vars PROVE TypeOK'
  OBVIOUS
<1> USE Kinds DEF ModsInv, TypeOK, InstallSteps, Carried, Installing, UploadSteps, HelperSteps,
      RequestSteps
<1>1. ASSUME NEW u \in Uploads, Post(u) PROVE TypeOK'
  BY <1>1, Made DEF Post, MoveUpload
<1>2. ASSUME NEW u \in Uploads, Received(u) PROVE TypeOK'
  BY <1>2 DEF Received, MoveUpload
<1>3. ASSUME NEW u \in Uploads, CheckZip(u) PROVE TypeOK'
  BY <1>3 DEF CheckZip, MoveUpload
<1>4. ASSUME NEW u \in Uploads, MoveIn(u) PROVE TypeOK'
  BY <1>4, Made DEF MoveIn, MoveUpload, UploadId
<1>5. ASSUME NEW u \in Uploads, Truncate(u) PROVE TypeOK'
  BY <1>5 DEF Truncate, MoveUpload, UploadId
<1>6. ASSUME NEW u \in Uploads, Describe(u) PROVE TypeOK'
  BY <1>6 DEF Describe, MoveUpload, UploadId, Described
<1>7. ASSUME NEW u \in Uploads, AuditUpload(u) PROVE TypeOK'
  BY <1>7 DEF AuditUpload, MoveUpload
<1>8. ASSUME NEW u \in Uploads, UploadFails(u) PROVE TypeOK'
  BY <1>8 DEF UploadFails, MoveUpload
<1>9. ASSUME NEW u \in Uploads, UploadDies(u) PROVE TypeOK'
  BY <1>9, MaxModFaultsAssumption DEF UploadDies, Fault
<1>10. ASSUME NEW r \in Requests, Ask(r) PROVE TypeOK'
  BY <1>10 DEF Ask
<1>11. ASSUME NEW r \in Requests, ReviewSidecar(r) PROVE TypeOK'
  BY <1>11 DEF ReviewSidecar, Step
<1>12. ASSUME NEW r \in Requests, ReviewJar(r) PROVE TypeOK'
  BY <1>12 DEF ReviewJar, Step
<1>13. ASSUME NEW r \in Requests, ReviewMod(r) PROVE TypeOK'
  BY <1>13 DEF ReviewMod, Step, ModAt
<1>14. ASSUME NEW r \in Requests, ReviewFails(r) PROVE TypeOK'
  BY <1>14 DEF ReviewFails, Step, Refuse
<1>15. ASSUME NEW r \in Requests, Confirm(r) PROVE TypeOK'
  BY <1>15 DEF Confirm, Step
<1>16. ASSUME NEW r \in Requests, ConfirmRefused(r) PROVE TypeOK'
  BY <1>16 DEF ConfirmRefused, Step, Refuse
<1>17. ASSUME NEW r \in Requests, ReadSidecar(r) PROVE TypeOK'
  BY <1>17 DEF ReadSidecar, Step
<1>18. ASSUME NEW r \in Requests, HashSource(r) PROVE TypeOK'
  BY <1>18 DEF HashSource, Step, Hashes
<1>19. ASSUME NEW r \in Requests, LookForName(r) PROVE TypeOK'
  BY <1>19 DEF LookForName, Step, NameFree
<1>20. ASSUME NEW r \in Requests, StartCopy(r) PROVE TypeOK'
  BY <1>20, Made DEF StartCopy, Step
<1>21. ASSUME NEW r \in Requests, EndCopy(r) PROVE TypeOK'
  BY <1>21 DEF EndCopy, Step
<1>22. ASSUME NEW r \in Requests, VerifyStaging(r) PROVE TypeOK'
  BY <1>22 DEF VerifyStaging, Step, Hashes
<1>23. ASSUME NEW r \in Requests, Place(r) PROVE TypeOK'
  BY <1>23 DEF Place, Step
<1>24. ASSUME NEW r \in Requests, MoveOut(r) PROVE TypeOK'
  <2>1. target[r] \in Names \cup Requests /\ ModAt(target[r]) \in ModFiles
    BY <1>24 DEF MoveOut, Step, ModAt
  <2>2. mods' \in [Names -> ModFiles \cup {Absent}] /\ staging' \in [Requests -> Files \cup {Absent}]
    BY <1>24 DEF MoveOut
  <2>3. removed' \subseteq [by : Requests, name : Names \cup Requests, file : ModFiles]
    BY <1>24, <2>1 DEF MoveOut
  <2> QED
    BY <1>24, <2>2, <2>3 DEF MoveOut, Step
<1>25. ASSUME NEW r \in Requests, Reply(r) PROVE TypeOK'
  BY <1>25 DEF Reply, Step
<1>26. ASSUME NEW r \in Requests, HelperFails(r) PROVE TypeOK'
  BY <1>26 DEF HelperFails, Step, StagingUnlinked
<1>27. ASSUME NEW r \in Requests, HelperDies(r) PROVE TypeOK'
  BY <1>27, MaxModFaultsAssumption DEF HelperDies, Fault
<1>28. ASSUME NEW id \in Contents, JarDamaged(id) PROVE TypeOK'
  <2>1. jar' \in [Contents -> Files \cup {Absent}]
    BY <1>28, Made DEF JarDamaged, Fault
  <2>2. faults' \in 0..MaxFaults
    BY <1>28, MaxModFaultsAssumption DEF JarDamaged, Fault
  <2> QED BY <1>28, <2>1, <2>2 DEF JarDamaged, Fault
<1>29. ASSUME NEW n \in Names, AdministratorAdds(n) PROVE TypeOK'
  BY <1>29, MaxModFaultsAssumption DEF AdministratorAdds, Fault
<1>30. CASE UNCHANGED vars
  BY <1>30 DEF vars
<1> QED
  BY <1>1, <1>2, <1>3, <1>4, <1>5, <1>6, <1>7, <1>8, <1>9, <1>10, <1>11, <1>12, <1>13, <1>14,
     <1>15, <1>16, <1>17, <1>18, <1>19, <1>20, <1>21, <1>22, <1>23, <1>24, <1>25, <1>26, <1>27, <1>28,
     <1>29, <1>30
  DEF Next, Upload, Review, Helper

\* An upload keeps what was sent, a request what was asked.
LEMMA NextCarried == ModsInv /\ [Next]_vars => Carried'
<1> SUFFICES ASSUME ModsInv, [Next]_vars PROVE Carried'
  OBVIOUS
<1> USE Kinds DEF ModsInv, TypeOK, InstallSteps, Carried, HelperSteps
<1>1. ASSUME NEW u \in Uploads, Post(u) PROVE Carried'
  BY <1>1, Made DEF Post, MoveUpload
<1>2. ASSUME NEW u \in Uploads, Received(u) PROVE Carried'
  BY <1>2 DEF Received, MoveUpload
<1>3. ASSUME NEW u \in Uploads, CheckZip(u) PROVE Carried'
  BY <1>3 DEF CheckZip, MoveUpload
<1>4. ASSUME NEW u \in Uploads, MoveIn(u) PROVE Carried'
  BY <1>4 DEF MoveIn, MoveUpload, UploadId
<1>5. ASSUME NEW u \in Uploads, Truncate(u) PROVE Carried'
  BY <1>5 DEF Truncate, MoveUpload, UploadId
<1>6. ASSUME NEW u \in Uploads, Describe(u) PROVE Carried'
  BY <1>6 DEF Describe, MoveUpload, UploadId, Described
<1>7. ASSUME NEW u \in Uploads, AuditUpload(u) PROVE Carried'
  BY <1>7 DEF AuditUpload, MoveUpload
<1>8. ASSUME NEW u \in Uploads, UploadFails(u) PROVE Carried'
  BY <1>8 DEF UploadFails, MoveUpload
<1>9. ASSUME NEW u \in Uploads, UploadDies(u) PROVE Carried'
  BY <1>9 DEF UploadDies, Fault
<1>10. ASSUME NEW r \in Requests, Ask(r) PROVE Carried'
  BY <1>10 DEF Ask
<1>11. ASSUME NEW r \in Requests, ReviewSidecar(r) PROVE Carried'
  BY <1>11 DEF ReviewSidecar, Step
<1>12. ASSUME NEW r \in Requests, ReviewJar(r) PROVE Carried'
  BY <1>12 DEF ReviewJar, Step
<1>13. ASSUME NEW r \in Requests, ReviewMod(r) PROVE Carried'
  BY <1>13 DEF ReviewMod, Step
<1>14. ASSUME NEW r \in Requests, ReviewFails(r) PROVE Carried'
  BY <1>14 DEF ReviewFails, Step, Refuse
<1>15. ASSUME NEW r \in Requests, Confirm(r) PROVE Carried'
  BY <1>15 DEF Confirm, Step
<1>16. ASSUME NEW r \in Requests, ConfirmRefused(r) PROVE Carried'
  BY <1>16 DEF ConfirmRefused, Step, Refuse
<1>17. ASSUME NEW r \in Requests, ReadSidecar(r) PROVE Carried'
  BY <1>17 DEF ReadSidecar, Step
<1>18. ASSUME NEW r \in Requests, HashSource(r) PROVE Carried'
  BY <1>18 DEF HashSource, Step, Hashes
<1>19. ASSUME NEW r \in Requests, LookForName(r) PROVE Carried'
  BY <1>19 DEF LookForName, Step, NameFree
<1>20. ASSUME NEW r \in Requests, StartCopy(r) PROVE Carried'
  BY <1>20 DEF StartCopy, Step
<1>21. ASSUME NEW r \in Requests, EndCopy(r) PROVE Carried'
  BY <1>21 DEF EndCopy, Step
<1>22. ASSUME NEW r \in Requests, VerifyStaging(r) PROVE Carried'
  BY <1>22 DEF VerifyStaging, Step, Hashes
<1>23. ASSUME NEW r \in Requests, Place(r) PROVE Carried'
  BY <1>23 DEF Place, Step
<1>24. ASSUME NEW r \in Requests, MoveOut(r) PROVE Carried'
  BY <1>24 DEF MoveOut, Step
<1>25. ASSUME NEW r \in Requests, Reply(r) PROVE Carried'
  BY <1>25 DEF Reply, Step
<1>26. ASSUME NEW r \in Requests, HelperFails(r) PROVE Carried'
  BY <1>26 DEF HelperFails, Step, StagingUnlinked
<1>27. ASSUME NEW r \in Requests, HelperDies(r) PROVE Carried'
  BY <1>27 DEF HelperDies, Fault
<1>28. ASSUME NEW id \in Contents, JarDamaged(id) PROVE Carried'
  BY <1>28 DEF JarDamaged, Fault
<1>29. ASSUME NEW n \in Names, AdministratorAdds(n) PROVE Carried'
  BY <1>29 DEF AdministratorAdds, Fault
<1>30. CASE UNCHANGED vars
  BY <1>30 DEF vars
<1> QED
  BY <1>1, <1>2, <1>3, <1>4, <1>5, <1>6, <1>7, <1>8, <1>9, <1>10, <1>11, <1>12, <1>13, <1>14,
     <1>15, <1>16, <1>17, <1>18, <1>19, <1>20, <1>21, <1>22, <1>23, <1>24, <1>25, <1>26, <1>27, <1>28,
     <1>29, <1>30
  DEF Next, Upload, Review, Helper

\* The helper's copy is its own: no other step touches it.
LEMMA NextInstalling == ModsInv /\ [Next]_vars => Installing'
<1> SUFFICES ASSUME ModsInv, [Next]_vars PROVE Installing'
  OBVIOUS
<1> USE Kinds DEF ModsInv, TypeOK, InstallSteps, Installing, Carried
<1>1. ASSUME NEW u \in Uploads, Post(u) PROVE Installing'
  BY <1>1 DEF Post, MoveUpload
<1>2. ASSUME NEW u \in Uploads, Received(u) PROVE Installing'
  BY <1>2 DEF Received, MoveUpload
<1>3. ASSUME NEW u \in Uploads, CheckZip(u) PROVE Installing'
  BY <1>3 DEF CheckZip, MoveUpload
<1>4. ASSUME NEW u \in Uploads, MoveIn(u) PROVE Installing'
  BY <1>4, Made DEF MoveIn, MoveUpload, UploadId
<1>5. ASSUME NEW u \in Uploads, Truncate(u) PROVE Installing'
  BY <1>5 DEF Truncate, MoveUpload, UploadId
<1>6. ASSUME NEW u \in Uploads, Describe(u) PROVE Installing'
  BY <1>6 DEF Describe, MoveUpload, UploadId, Described
<1>7. ASSUME NEW u \in Uploads, AuditUpload(u) PROVE Installing'
  BY <1>7 DEF AuditUpload, MoveUpload
<1>8. ASSUME NEW u \in Uploads, UploadFails(u) PROVE Installing'
  BY <1>8 DEF UploadFails, MoveUpload
<1>9. ASSUME NEW u \in Uploads, UploadDies(u) PROVE Installing'
  BY <1>9 DEF UploadDies, Fault
<1>10. ASSUME NEW r \in Requests, Ask(r) PROVE Installing'
  BY <1>10 DEF Ask
<1>11. ASSUME NEW r \in Requests, ReviewSidecar(r) PROVE Installing'
  BY <1>11 DEF ReviewSidecar, Step
<1>12. ASSUME NEW r \in Requests, ReviewJar(r) PROVE Installing'
  BY <1>12 DEF ReviewJar, Step
<1>13. ASSUME NEW r \in Requests, ReviewMod(r) PROVE Installing'
  BY <1>13 DEF ReviewMod, Step
<1>14. ASSUME NEW r \in Requests, ReviewFails(r) PROVE Installing'
  BY <1>14 DEF ReviewFails, Step, Refuse
<1>15. ASSUME NEW r \in Requests, Confirm(r) PROVE Installing'
  BY <1>15 DEF Confirm, Step
<1>16. ASSUME NEW r \in Requests, ConfirmRefused(r) PROVE Installing'
  BY <1>16 DEF ConfirmRefused, Step, Refuse
<1>17. ASSUME NEW r \in Requests, ReadSidecar(r) PROVE Installing'
  BY <1>17 DEF ReadSidecar, Step
<1>18. ASSUME NEW r \in Requests, HashSource(r) PROVE Installing'
  BY <1>18 DEF HashSource, Step, Hashes
<1>19. ASSUME NEW r \in Requests, LookForName(r) PROVE Installing'
  BY <1>19 DEF LookForName, Step, NameFree
<1>20. ASSUME NEW r \in Requests, StartCopy(r) PROVE Installing'
  BY <1>20 DEF StartCopy, Step
<1>21. ASSUME NEW r \in Requests, EndCopy(r) PROVE Installing'
  BY <1>21 DEF EndCopy, Step
<1>22. ASSUME NEW r \in Requests, VerifyStaging(r) PROVE Installing'
  BY <1>22 DEF VerifyStaging, Step, Hashes
<1>23. ASSUME NEW r \in Requests, Place(r) PROVE Installing'
  BY <1>23 DEF Place, Step
<1>24. ASSUME NEW r \in Requests, MoveOut(r) PROVE Installing'
  <2>1. \A q \in Requests \ {r} : pc[q] \notin HelperSteps
    BY <1>24 DEF MoveOut, Step, OneHelper, HelperSteps
  <2>2. \A q \in Requests : \/ staging'[q] = staging[q]
                            \/ staging'[q] = Absent /\ (q = r \/ pc[q] \notin HelperSteps)
    BY <1>24, <2>1 DEF MoveOut
  <2> QED
    BY <1>24, <2>1, <2>2 DEF MoveOut, Step, HelperSteps
<1>25. ASSUME NEW r \in Requests, Reply(r) PROVE Installing'
  BY <1>25 DEF Reply, Step
<1>26. ASSUME NEW r \in Requests, HelperFails(r) PROVE Installing'
  BY <1>26 DEF HelperFails, Step, StagingUnlinked
<1>27. ASSUME NEW r \in Requests, HelperDies(r) PROVE Installing'
  BY <1>27 DEF HelperDies, Fault
<1>28. ASSUME NEW id \in Contents, JarDamaged(id) PROVE Installing'
  BY <1>28, Made DEF JarDamaged, Fault
<1>29. ASSUME NEW n \in Names, AdministratorAdds(n) PROVE Installing'
  BY <1>29 DEF AdministratorAdds, Fault
<1>30. CASE UNCHANGED vars
  BY <1>30 DEF vars
<1> QED
  BY <1>1, <1>2, <1>3, <1>4, <1>5, <1>6, <1>7, <1>8, <1>9, <1>10, <1>11, <1>12, <1>13, <1>14,
     <1>15, <1>16, <1>17, <1>18, <1>19, <1>20, <1>21, <1>22, <1>23, <1>24, <1>25, <1>26, <1>27, <1>28,
     <1>29, <1>30
  DEF Next, Upload, Review, Helper

\* The name of a directory of panel-removed is never used twice.
LEMMA NextMoved == ModsInv /\ [Next]_vars => MovedOnce'
<1> SUFFICES ASSUME ModsInv, [Next]_vars PROVE MovedOnce'
  OBVIOUS
<1> USE Kinds DEF ModsInv, TypeOK, InstallSteps, MovedOnce, HelperSteps
<1>1. ASSUME NEW u \in Uploads, Post(u) PROVE MovedOnce'
  BY <1>1 DEF Post, MoveUpload
<1>2. ASSUME NEW u \in Uploads, Received(u) PROVE MovedOnce'
  BY <1>2 DEF Received, MoveUpload
<1>3. ASSUME NEW u \in Uploads, CheckZip(u) PROVE MovedOnce'
  BY <1>3 DEF CheckZip, MoveUpload
<1>4. ASSUME NEW u \in Uploads, MoveIn(u) PROVE MovedOnce'
  BY <1>4 DEF MoveIn, MoveUpload, UploadId
<1>5. ASSUME NEW u \in Uploads, Truncate(u) PROVE MovedOnce'
  BY <1>5 DEF Truncate, MoveUpload, UploadId
<1>6. ASSUME NEW u \in Uploads, Describe(u) PROVE MovedOnce'
  BY <1>6 DEF Describe, MoveUpload, UploadId, Described
<1>7. ASSUME NEW u \in Uploads, AuditUpload(u) PROVE MovedOnce'
  BY <1>7 DEF AuditUpload, MoveUpload
<1>8. ASSUME NEW u \in Uploads, UploadFails(u) PROVE MovedOnce'
  BY <1>8 DEF UploadFails, MoveUpload
<1>9. ASSUME NEW u \in Uploads, UploadDies(u) PROVE MovedOnce'
  BY <1>9 DEF UploadDies, Fault
<1>10. ASSUME NEW r \in Requests, Ask(r) PROVE MovedOnce'
  BY <1>10 DEF Ask
<1>11. ASSUME NEW r \in Requests, ReviewSidecar(r) PROVE MovedOnce'
  BY <1>11 DEF ReviewSidecar, Step
<1>12. ASSUME NEW r \in Requests, ReviewJar(r) PROVE MovedOnce'
  BY <1>12 DEF ReviewJar, Step
<1>13. ASSUME NEW r \in Requests, ReviewMod(r) PROVE MovedOnce'
  BY <1>13 DEF ReviewMod, Step
<1>14. ASSUME NEW r \in Requests, ReviewFails(r) PROVE MovedOnce'
  BY <1>14 DEF ReviewFails, Step, Refuse
<1>15. ASSUME NEW r \in Requests, Confirm(r) PROVE MovedOnce'
  BY <1>15 DEF Confirm, Step
<1>16. ASSUME NEW r \in Requests, ConfirmRefused(r) PROVE MovedOnce'
  BY <1>16 DEF ConfirmRefused, Step, Refuse
<1>17. ASSUME NEW r \in Requests, ReadSidecar(r) PROVE MovedOnce'
  BY <1>17 DEF ReadSidecar, Step
<1>18. ASSUME NEW r \in Requests, HashSource(r) PROVE MovedOnce'
  BY <1>18 DEF HashSource, Step, Hashes
<1>19. ASSUME NEW r \in Requests, LookForName(r) PROVE MovedOnce'
  BY <1>19 DEF LookForName, Step, NameFree
<1>20. ASSUME NEW r \in Requests, StartCopy(r) PROVE MovedOnce'
  BY <1>20 DEF StartCopy, Step
<1>21. ASSUME NEW r \in Requests, EndCopy(r) PROVE MovedOnce'
  BY <1>21 DEF EndCopy, Step
<1>22. ASSUME NEW r \in Requests, VerifyStaging(r) PROVE MovedOnce'
  BY <1>22 DEF VerifyStaging, Step, Hashes
<1>23. ASSUME NEW r \in Requests, Place(r) PROVE MovedOnce'
  BY <1>23 DEF Place, Step
<1>24. ASSUME NEW r \in Requests, MoveOut(r) PROVE MovedOnce'
  BY <1>24 DEF MoveOut, Step
<1>25. ASSUME NEW r \in Requests, Reply(r) PROVE MovedOnce'
  BY <1>25 DEF Reply, Step
<1>26. ASSUME NEW r \in Requests, HelperFails(r) PROVE MovedOnce'
  BY <1>26 DEF HelperFails, Step, StagingUnlinked
<1>27. ASSUME NEW r \in Requests, HelperDies(r) PROVE MovedOnce'
  BY <1>27 DEF HelperDies, Fault
<1>28. ASSUME NEW id \in Contents, JarDamaged(id) PROVE MovedOnce'
  BY <1>28 DEF JarDamaged, Fault
<1>29. ASSUME NEW n \in Names, AdministratorAdds(n) PROVE MovedOnce'
  BY <1>29 DEF AdministratorAdds, Fault
<1>30. CASE UNCHANGED vars
  BY <1>30 DEF vars
<1> QED
  BY <1>1, <1>2, <1>3, <1>4, <1>5, <1>6, <1>7, <1>8, <1>9, <1>10, <1>11, <1>12, <1>13, <1>14,
     <1>15, <1>16, <1>17, <1>18, <1>19, <1>20, <1>21, <1>22, <1>23, <1>24, <1>25, <1>26, <1>27, <1>28,
     <1>29, <1>30
  DEF Next, Upload, Review, Helper

\* Only what was verified is put in place.
LEMMA NextWhole == ModsInv /\ [Next]_vars => NamedModsAreWhole'
<1> SUFFICES ASSUME ModsInv, [Next]_vars PROVE NamedModsAreWhole'
  OBVIOUS
<1> USE Kinds DEF ModsInv, TypeOK, InstallSteps, NamedModsAreWhole, Installing, Carried,
      HelperSteps
<1>1. ASSUME NEW u \in Uploads, Post(u) PROVE NamedModsAreWhole'
  BY <1>1 DEF Post, MoveUpload
<1>2. ASSUME NEW u \in Uploads, Received(u) PROVE NamedModsAreWhole'
  BY <1>2 DEF Received, MoveUpload
<1>3. ASSUME NEW u \in Uploads, CheckZip(u) PROVE NamedModsAreWhole'
  BY <1>3 DEF CheckZip, MoveUpload
<1>4. ASSUME NEW u \in Uploads, MoveIn(u) PROVE NamedModsAreWhole'
  BY <1>4 DEF MoveIn, MoveUpload, UploadId
<1>5. ASSUME NEW u \in Uploads, Truncate(u) PROVE NamedModsAreWhole'
  BY <1>5 DEF Truncate, MoveUpload, UploadId
<1>6. ASSUME NEW u \in Uploads, Describe(u) PROVE NamedModsAreWhole'
  BY <1>6 DEF Describe, MoveUpload, UploadId, Described
<1>7. ASSUME NEW u \in Uploads, AuditUpload(u) PROVE NamedModsAreWhole'
  BY <1>7 DEF AuditUpload, MoveUpload
<1>8. ASSUME NEW u \in Uploads, UploadFails(u) PROVE NamedModsAreWhole'
  BY <1>8 DEF UploadFails, MoveUpload
<1>9. ASSUME NEW u \in Uploads, UploadDies(u) PROVE NamedModsAreWhole'
  BY <1>9 DEF UploadDies, Fault
<1>10. ASSUME NEW r \in Requests, Ask(r) PROVE NamedModsAreWhole'
  BY <1>10 DEF Ask
<1>11. ASSUME NEW r \in Requests, ReviewSidecar(r) PROVE NamedModsAreWhole'
  BY <1>11 DEF ReviewSidecar, Step
<1>12. ASSUME NEW r \in Requests, ReviewJar(r) PROVE NamedModsAreWhole'
  BY <1>12 DEF ReviewJar, Step
<1>13. ASSUME NEW r \in Requests, ReviewMod(r) PROVE NamedModsAreWhole'
  BY <1>13 DEF ReviewMod, Step
<1>14. ASSUME NEW r \in Requests, ReviewFails(r) PROVE NamedModsAreWhole'
  BY <1>14 DEF ReviewFails, Step, Refuse
<1>15. ASSUME NEW r \in Requests, Confirm(r) PROVE NamedModsAreWhole'
  BY <1>15 DEF Confirm, Step
<1>16. ASSUME NEW r \in Requests, ConfirmRefused(r) PROVE NamedModsAreWhole'
  BY <1>16 DEF ConfirmRefused, Step, Refuse
<1>17. ASSUME NEW r \in Requests, ReadSidecar(r) PROVE NamedModsAreWhole'
  BY <1>17 DEF ReadSidecar, Step
<1>18. ASSUME NEW r \in Requests, HashSource(r) PROVE NamedModsAreWhole'
  BY <1>18 DEF HashSource, Step, Hashes
<1>19. ASSUME NEW r \in Requests, LookForName(r) PROVE NamedModsAreWhole'
  BY <1>19 DEF LookForName, Step, NameFree
<1>20. ASSUME NEW r \in Requests, StartCopy(r) PROVE NamedModsAreWhole'
  BY <1>20 DEF StartCopy, Step
<1>21. ASSUME NEW r \in Requests, EndCopy(r) PROVE NamedModsAreWhole'
  BY <1>21 DEF EndCopy, Step
<1>22. ASSUME NEW r \in Requests, VerifyStaging(r) PROVE NamedModsAreWhole'
  BY <1>22 DEF VerifyStaging, Step, Hashes
<1>23. ASSUME NEW r \in Requests, Place(r) PROVE NamedModsAreWhole'
  BY <1>23 DEF Place, Step
<1>24. ASSUME NEW r \in Requests, MoveOut(r) PROVE NamedModsAreWhole'
  BY <1>24 DEF MoveOut, Step
<1>25. ASSUME NEW r \in Requests, Reply(r) PROVE NamedModsAreWhole'
  BY <1>25 DEF Reply, Step
<1>26. ASSUME NEW r \in Requests, HelperFails(r) PROVE NamedModsAreWhole'
  BY <1>26 DEF HelperFails, Step, StagingUnlinked
<1>27. ASSUME NEW r \in Requests, HelperDies(r) PROVE NamedModsAreWhole'
  BY <1>27 DEF HelperDies, Fault
<1>28. ASSUME NEW id \in Contents, JarDamaged(id) PROVE NamedModsAreWhole'
  BY <1>28 DEF JarDamaged, Fault
<1>29. ASSUME NEW n \in Names, AdministratorAdds(n) PROVE NamedModsAreWhole'
  BY <1>29 DEF AdministratorAdds, Fault
<1>30. CASE UNCHANGED vars
  BY <1>30 DEF vars
<1> QED
  BY <1>1, <1>2, <1>3, <1>4, <1>5, <1>6, <1>7, <1>8, <1>9, <1>10, <1>11, <1>12, <1>13, <1>14,
     <1>15, <1>16, <1>17, <1>18, <1>19, <1>20, <1>21, <1>22, <1>23, <1>24, <1>25, <1>26, <1>27, <1>28,
     <1>29, <1>30
  DEF Next, Upload, Review, Helper

\* A helper comes in only when there is none.
LEMMA NextOne == ModsInv /\ [Next]_vars => OneHelper'
<1> SUFFICES ASSUME ModsInv, [Next]_vars PROVE OneHelper'
  OBVIOUS
<1>t. OneHelper /\ pc \in [Requests -> RequestSteps]
  BY DEF ModsInv, TypeOK
<1>1. ASSUME NEW u \in Uploads, Upload(u) PROVE UNCHANGED pc
  BY <1>1 DEF Upload, Post, Received, CheckZip, MoveIn, Truncate, Describe, AuditUpload,
              UploadFails, UploadDies, MoveUpload
<1>2. ASSUME NEW r \in Requests, Confirm(r) PROVE OneHelper'
  BY <1>t, <1>2 DEF Confirm, Step, HelperBusy, OneHelper
<1>3. ASSUME NEW r \in Requests, Review(r) \/ Helper(r), ~Confirm(r)
      PROVE  \E to \in RequestSteps :
               pc' = [pc EXCEPT ![r] = to] /\ (to \in HelperSteps => pc[r] \in HelperSteps)
  <2> USE DEF Step, HelperSteps, InstallSteps, RequestSteps
  <2>1. CASE Review(r)
    BY <1>t, <2>1 DEF Review, Ask, ReviewSidecar, ReviewJar, ReviewMod, ReviewFails
  <2>2. CASE ReadSidecar(r) \/ HashSource(r) \/ LookForName(r) \/ StartCopy(r) \/ EndCopy(r)
    BY <1>t, <2>2 DEF ReadSidecar, HashSource, LookForName, StartCopy, EndCopy
  <2>3. CASE ConfirmRefused(r) \/ VerifyStaging(r) \/ Place(r) \/ MoveOut(r) \/ Reply(r)
    BY <1>t, <2>3 DEF ConfirmRefused, VerifyStaging, Place, MoveOut, Reply
  <2>4. CASE HelperFails(r) \/ HelperDies(r)
    BY <1>t, <2>4 DEF HelperFails, HelperDies
  <2> QED
    BY <1>3, <2>1, <2>2, <2>3, <2>4 DEF Helper
<1>4. ASSUME NEW r \in Requests, Review(r) \/ Helper(r), ~Confirm(r) PROVE OneHelper'
  BY <1>t, <1>3, <1>4 DEF OneHelper
<1>5. CASE UNCHANGED pc
  BY <1>t, <1>5 DEF OneHelper
<1> QED
  BY <1>1, <1>2, <1>4, <1>5 DEF Next, JarDamaged, AdministratorAdds, vars

THEOREM Invariant == Spec => []ModsInv
<1>1. ModsInv /\ [Next]_vars => ModsInv'
  BY NextType, NextCarried, NextInstalling, NextMoved, NextOne, NextWhole DEF ModsInv
<1> QED BY InitInv, <1>1, PTL DEF Spec

\* SECURITY.md:72: whatever is uploaded, damaged or killed during an install, what
\* a mod's name holds is a whole JAR with loader metadata
\* (helper/mc_panel_action.py:634-712).
THEOREM NamedModsAreWholeHolds == Spec => []NamedModsAreWhole
BY Invariant, PTL DEF ModsInv

\* Every upload, request, file and verdict keeps its type.
THEOREM TypeOKHolds == Spec => []TypeOK
BY Invariant, PTL DEF ModsInv

\* A mod leaves its name for panel-removed or not at all.
Kept(n) ==
    mods[n] # Absent /\ mods'[n] # mods[n] =>
        \/ \E x \in removed' \ removed : x.name = n /\ x.file = mods[n]
        \/ \E r \in Requests : pc[r] = "place" /\ held[r].name = n /\ n \notin seen[r]
NothingLostStep == removed \subseteq removed' /\ \A n \in Names : Kept(n)

LEMMA StepLosesNothing == ModsInv /\ [Next]_vars => NothingLostStep
<1> SUFFICES ASSUME ModsInv, [Next]_vars PROVE NothingLostStep
  OBVIOUS
<1> USE Kinds DEF ModsInv, TypeOK, NothingLostStep, Kept
<1>1. ASSUME NEW u \in Uploads, Post(u) PROVE NothingLostStep
  BY <1>1 DEF Post, MoveUpload
<1>2. ASSUME NEW u \in Uploads, Received(u) PROVE NothingLostStep
  BY <1>2 DEF Received, MoveUpload
<1>3. ASSUME NEW u \in Uploads, CheckZip(u) PROVE NothingLostStep
  BY <1>3 DEF CheckZip, MoveUpload
<1>4. ASSUME NEW u \in Uploads, MoveIn(u) PROVE NothingLostStep
  BY <1>4 DEF MoveIn, MoveUpload, UploadId
<1>5. ASSUME NEW u \in Uploads, Truncate(u) PROVE NothingLostStep
  BY <1>5 DEF Truncate, MoveUpload, UploadId
<1>6. ASSUME NEW u \in Uploads, Describe(u) PROVE NothingLostStep
  BY <1>6 DEF Describe, MoveUpload, UploadId, Described
<1>7. ASSUME NEW u \in Uploads, AuditUpload(u) PROVE NothingLostStep
  BY <1>7 DEF AuditUpload, MoveUpload
<1>8. ASSUME NEW u \in Uploads, UploadFails(u) PROVE NothingLostStep
  BY <1>8 DEF UploadFails, MoveUpload
<1>9. ASSUME NEW u \in Uploads, UploadDies(u) PROVE NothingLostStep
  BY <1>9 DEF UploadDies, Fault
<1>10. ASSUME NEW r \in Requests, Ask(r) PROVE NothingLostStep
  BY <1>10 DEF Ask
<1>11. ASSUME NEW r \in Requests, ReviewSidecar(r) PROVE NothingLostStep
  BY <1>11 DEF ReviewSidecar, Step
<1>12. ASSUME NEW r \in Requests, ReviewJar(r) PROVE NothingLostStep
  BY <1>12 DEF ReviewJar, Step
<1>13. ASSUME NEW r \in Requests, ReviewMod(r) PROVE NothingLostStep
  BY <1>13 DEF ReviewMod, Step
<1>14. ASSUME NEW r \in Requests, ReviewFails(r) PROVE NothingLostStep
  BY <1>14 DEF ReviewFails, Step, Refuse
<1>15. ASSUME NEW r \in Requests, Confirm(r) PROVE NothingLostStep
  BY <1>15 DEF Confirm, Step
<1>16. ASSUME NEW r \in Requests, ConfirmRefused(r) PROVE NothingLostStep
  BY <1>16 DEF ConfirmRefused, Step, Refuse
<1>17. ASSUME NEW r \in Requests, ReadSidecar(r) PROVE NothingLostStep
  BY <1>17 DEF ReadSidecar, Step
<1>18. ASSUME NEW r \in Requests, HashSource(r) PROVE NothingLostStep
  BY <1>18 DEF HashSource, Step, Hashes
<1>19. ASSUME NEW r \in Requests, LookForName(r) PROVE NothingLostStep
  BY <1>19 DEF LookForName, Step, NameFree
<1>20. ASSUME NEW r \in Requests, StartCopy(r) PROVE NothingLostStep
  BY <1>20 DEF StartCopy, Step
<1>21. ASSUME NEW r \in Requests, EndCopy(r) PROVE NothingLostStep
  BY <1>21 DEF EndCopy, Step
<1>22. ASSUME NEW r \in Requests, VerifyStaging(r) PROVE NothingLostStep
  BY <1>22 DEF VerifyStaging, Step, Hashes
<1>23. ASSUME NEW r \in Requests, Place(r) PROVE NothingLostStep
  <2>1. held[r] \in Sidecars /\ held[r].name \notin seen[r] /\ pc[r] = "place"
    BY <1>23 DEF Place, Step, Installing, InstallSteps
  <2> QED BY <1>23, <2>1 DEF Place, Step
<1>24. ASSUME NEW r \in Requests, MoveOut(r) PROVE NothingLostStep
  <2> DEFINE x == [by |-> r, name |-> target[r], file |-> ModAt(target[r])]
  <2>1. x \notin removed
    BY <1>24 DEF MoveOut, MovedOnce
  <2>2. /\ removed' = removed \cup {x}
        /\ \/ target[r] \in Names /\ mods' = [mods EXCEPT ![target[r]] = Absent]
           \/ UNCHANGED mods
    BY <1>24 DEF MoveOut
  <2>3. x.name = target[r] /\ (target[r] \in Names => x.file = mods[target[r]])
    BY DEF ModAt
  <2> HIDE DEF x
  <2> QED BY <2>1, <2>2, <2>3
<1>25. ASSUME NEW r \in Requests, Reply(r) PROVE NothingLostStep
  BY <1>25 DEF Reply, Step
<1>26. ASSUME NEW r \in Requests, HelperFails(r) PROVE NothingLostStep
  BY <1>26 DEF HelperFails, Step, StagingUnlinked
<1>27. ASSUME NEW r \in Requests, HelperDies(r) PROVE NothingLostStep
  BY <1>27 DEF HelperDies, Fault
<1>28. ASSUME NEW id \in Contents, JarDamaged(id) PROVE NothingLostStep
  BY <1>28 DEF JarDamaged, Fault
<1>29. ASSUME NEW n \in Names, AdministratorAdds(n) PROVE NothingLostStep
  BY <1>29 DEF AdministratorAdds, Fault
<1>30. CASE UNCHANGED vars
  BY <1>30 DEF vars
<1> QED
  BY <1>1, <1>2, <1>3, <1>4, <1>5, <1>6, <1>7, <1>8, <1>9, <1>10, <1>11, <1>12, <1>13, <1>14,
     <1>15, <1>16, <1>17, <1>18, <1>19, <1>20, <1>21, <1>22, <1>23, <1>24, <1>25, <1>26, <1>27, <1>28,
     <1>29, <1>30
  DEF Next, Upload, Review, Helper

\* RECOVERY.md:40-47: no operation on mods deletes or replaces a file, except
\* one that appeared after the helper had looked (mc_panel_action.py:683-773).
THEOREM NothingLostHolds == Spec => NothingLost
<1>1. ModsInv /\ [Next]_vars => NothingLostStep
  BY StepLosesNothing
<1> QED BY Invariant, <1>1, PTL DEF Spec, NothingLost, NothingLostStep, Kept
-----------------------------------------------------------------------------
(***************************************************************************)
(* What was reviewed.  The sidecar may be truncated and rewritten at any   *)
(* step of the request; what is installed is tied to what was shown by the *)
(* upload id, which every sidecar written under it repeats.                *)
(***************************************************************************)

\* A description found under an id is of the content with that hash.
DescribesId == \A id \in Contents : sidecar[id] \in Sidecars => sidecar[id].content = id

\* What was shown is still in the sidecar, or the sidecar is being or was
\* written again.
ShownStands ==
    \A r \in Requests :
        /\ pc[r] \in {"new", "review"} => shown[r] = Absent
        /\ pc[r] \in InstallSteps \cup {"review_jar"} => shown[r] # Absent
        /\ pc[r] = "pending" /\ kind[r] = "install" => shown[r] # Absent
        /\ kind[r] = "install" /\ shown[r] # Absent =>
              /\ shown[r] \in Sidecars /\ shown[r].content = target[r]
              /\ r \in rewritten \/ sidecar[target[r]] \in {shown[r], Torn}

\* What the helper read, and the file it is about to put in place.
HeldStands ==
    \A r \in Requests :
        /\ pc[r] \in InstallSteps \ {"read"} =>
              /\ held[r].content = target[r]
              /\ held[r].name = shown[r].name \/ r \in rewritten
        /\ pc[r] = "place" => staging[r].content = held[r].content

ReviewInv == DescribesId /\ ShownStands /\ HeldStands

LEMMA ReviewInitially == Init => ReviewInv
BY Kinds DEF Init, ReviewInv, DescribesId, ShownStands, HeldStands, InstallSteps

\* A step of something else, or one that ends a request, changes nothing of this.
LEMMA ReviewLeftAlone ==
    ASSUME ModsInv, ReviewInv, UNCHANGED <<sidecar, kind, target, shown, held, rewritten>>,
           \A r \in Requests : \/ pc'[r] = pc[r] /\ staging'[r] = staging[r]
                               \/ pc'[r] \in {"reply_moved", "done", "killed"}
    PROVE  ReviewInv'
BY DEF ReviewInv, DescribesId, ShownStands, HeldStands, InstallSteps

LEMMA ReviewStep == ModsInv /\ ReviewInv /\ [Next]_vars => ReviewInv'
<1> SUFFICES ASSUME ModsInv, ReviewInv, [Next]_vars PROVE ReviewInv'
  OBVIOUS
<1> USE Kinds
<1>t. TypeOK /\ Carried /\ Installing
  BY DEF ModsInv
<1>1. ASSUME NEW u \in Uploads,
             \/ Post(u) \/ Received(u) \/ CheckZip(u) \/ MoveIn(u) \/ AuditUpload(u)
             \/ UploadFails(u) \/ UploadDies(u)
      PROVE  ReviewInv'
  BY <1>1, ReviewLeftAlone DEF Post, Received, CheckZip, MoveIn, AuditUpload, UploadFails,
                               UploadDies, MoveUpload, Fault
<1>2. ASSUME NEW r \in Requests,
             \/ ReviewFails(r) \/ ConfirmRefused(r) \/ Reply(r)
             \/ HelperFails(r) \/ HelperDies(r)
      PROVE  ReviewInv'
  BY <1>t, <1>2, ReviewLeftAlone DEF ReviewFails, ConfirmRefused, Reply, HelperFails,
       HelperDies, Step, Refuse, StagingUnlinked, Fault, TypeOK
<1>3. CASE \/ \E id \in Contents : JarDamaged(id)
           \/ \E n \in Names : AdministratorAdds(n)
           \/ UNCHANGED vars
  BY <1>3, ReviewLeftAlone DEF JarDamaged, AdministratorAdds, Fault, vars
\* A sidecar is emptied, and then says again what content it is of; reviews
\* made before are marked.
<1>4. ASSUME NEW u \in Uploads, Truncate(u) PROVE ReviewInv'
  BY <1>t, <1>4 DEF Truncate, MoveUpload, UploadId, TypeOK, ReviewInv, DescribesId, ShownStands,
                    HeldStands
<1>5. ASSUME NEW u \in Uploads, Describe(u) PROVE ReviewInv'
  <2>1. up[u] \in Sidecars /\ up[u].content \in Contents
    BY <1>t, <1>5 DEF Describe, MoveUpload, Carried
  <2>2. /\ sidecar' = [sidecar EXCEPT ![up[u].content] = up[u]]
        /\ rewritten' = rewritten \cup {r \in Requests :
               kind[r] = "install" /\ target[r] = up[u].content /\ shown[r] # Absent}
        /\ UNCHANGED <<pc, kind, target, shown, held, staging>>
    BY <1>5 DEF Describe, MoveUpload, UploadId, Described
  <2>3. DescribesId'
    BY <1>t, <2>1, <2>2 DEF TypeOK, ReviewInv, DescribesId
  <2>4. ShownStands'
    BY <1>t, <2>1, <2>2 DEF TypeOK, ReviewInv, ShownStands
  <2>5. HeldStands'
    BY <2>2 DEF ReviewInv, HeldStands
  <2> QED
    BY <2>3, <2>4, <2>5 DEF ReviewInv
\* The request itself.
<1>6. ASSUME NEW r \in Requests, Ask(r) PROVE ReviewInv'
  BY <1>t, <1>6 DEF Ask, TypeOK, ReviewInv, DescribesId, ShownStands, HeldStands, InstallSteps
<1>7. ASSUME NEW r \in Requests, ReviewSidecar(r) PROVE ReviewInv'
  BY <1>t, <1>7 DEF ReviewSidecar, Step, TypeOK, Carried, ReviewInv, DescribesId, ShownStands,
                    HeldStands, InstallSteps
<1>8. ASSUME NEW r \in Requests, ReviewJar(r) \/ Confirm(r) PROVE ReviewInv'
  BY <1>t, <1>8 DEF ReviewJar, Confirm, Step, TypeOK, Carried, ReviewInv, DescribesId,
                    ShownStands, HeldStands, InstallSteps
<1>9. ASSUME NEW r \in Requests, ReviewMod(r) PROVE ReviewInv'
  BY <1>t, <1>9 DEF ReviewMod, ModAt, Step, TypeOK, ReviewInv, DescribesId, ShownStands, HeldStands,
                    InstallSteps
\* What is moved out is no file that an install is about to put in place.
<1>15. ASSUME NEW r \in Requests, MoveOut(r) PROVE ReviewInv'
  <2>2. \A q \in Requests \ {r} : pc'[q] = pc[q] /\ pc[q] # "place"
    BY <1>t, <1>15 DEF MoveOut, Step, TypeOK, ModsInv, OneHelper, HelperSteps, InstallSteps
  <2>3. pc'[r] = "reply_moved" /\ UNCHANGED <<sidecar, kind, target, shown, held, rewritten>>
    BY <1>t, <1>15 DEF MoveOut, Step, TypeOK
  <2> QED
    BY <2>2, <2>3 DEF ReviewInv, DescribesId, ShownStands, HeldStands, InstallSteps
\* The sidecar that is read is of the content that was shown, and has the name
\* that was shown unless it was written again.
<1>10. ASSUME NEW r \in Requests, ReadSidecar(r) PROVE ReviewInv'
  <2>1. /\ sidecar[target[r]] \in Sidecars /\ target[r] \in Contents /\ kind[r] = "install"
        /\ sidecar[target[r]].content = target[r]
        /\ shown[r] # Absent
    BY <1>t, <1>10 DEF ReadSidecar, Step, Carried, ReviewInv, DescribesId, ShownStands,
                       InstallSteps
  <2>2. sidecar[target[r]] = shown[r] \/ r \in rewritten
    BY <2>1 DEF ReviewInv, ShownStands
  <2> QED
    BY <1>t, <1>10, <2>1, <2>2 DEF ReadSidecar, Step, TypeOK, ReviewInv, DescribesId,
                                   ShownStands, HeldStands, InstallSteps
<1>11. ASSUME NEW r \in Requests, HashSource(r) \/ LookForName(r) PROVE ReviewInv'
  BY <1>t, <1>11 DEF HashSource, LookForName, Step, TypeOK, ReviewInv, DescribesId, ShownStands,
                     HeldStands, InstallSteps
<1>12. ASSUME NEW r \in Requests, StartCopy(r) \/ EndCopy(r) PROVE ReviewInv'
  BY <1>t, <1>12 DEF StartCopy, EndCopy, Step, TypeOK, ReviewInv, DescribesId, ShownStands,
                     HeldStands, InstallSteps
<1>13. ASSUME NEW r \in Requests, VerifyStaging(r) PROVE ReviewInv'
  BY <1>t, <1>13 DEF VerifyStaging, Hashes, Step, TypeOK, ReviewInv, DescribesId, ShownStands,
                     HeldStands, InstallSteps
<1>14. ASSUME NEW r \in Requests, Place(r) PROVE ReviewInv'
  BY <1>t, <1>14 DEF Place, Step, TypeOK, ReviewInv, DescribesId, ShownStands, HeldStands,
                     InstallSteps
<1> QED
  BY <1>1, <1>2, <1>3, <1>4, <1>5, <1>6, <1>7, <1>8, <1>9, <1>10, <1>11, <1>12, <1>13, <1>14,
     <1>15
     DEF Next, Upload, Review, Helper

\* systemd.py:526-600, mc_panel_action.py:634-712: the content put in place is the
\* one whose description the owner was shown, whatever was uploaded, rewritten,
\* damaged or killed since; the name is the one shown unless the same content was
\* uploaded again.
THEOREM InstalledAsReviewedHolds == Spec => []InstalledAsReviewed
<1>1. ModsInv /\ ReviewInv => InstalledAsReviewed
  <2> SUFFICES ASSUME ModsInv, ReviewInv, NEW r \in Requests, pc[r] = "place"
               PROVE  /\ staging[r].content = shown[r].content
                      /\ held[r].name = shown[r].name \/ r \in rewritten
    BY DEF InstalledAsReviewed
  <2> QED
    BY DEF ModsInv, Carried, ReviewInv, ShownStands, HeldStands, InstallSteps
<1> QED
  BY <1>1, Invariant, ReviewInitially, ReviewStep, PTL DEF Spec
=============================================================================
