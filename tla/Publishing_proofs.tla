-------------------------- MODULE Publishing_proofs --------------------------
(***************************************************************************)
(* Proofs about Packaging and Publishing, for any number of publishers,    *)
(* packages, versions and clients, and about ManifestEditor, for any       *)
(* manifests and commands.  Packaging's theorems hold of Publishing        *)
(* because its steps are steps of Packaging.  Where a theorem assumes that *)
(* one process packages at a time, it says so: the lock that is to ensure  *)
(* it is never acquired (ScriptAlone).                                     *)
(***************************************************************************)
EXTENDS Publishing, ManifestEditor, FiniteSetTheorems, SequenceTheorems,
        WellFoundedInduction, TLAPS

LEMMA AtMostOne ==
  ASSUME NEW S, \A x, y \in S : x = y
  PROVE  Cardinality(S) <= 1
<1>1. CASE S = {}
  BY <1>1, FS_EmptySet
<1>2. ASSUME NEW x \in S PROVE Cardinality(S) <= 1
  <2>1. S = {x}
    OBVIOUS
  <2>2. QED
    BY <2>1, FS_Singleton
<1>3. QED
  BY <1>1, <1>2

-----------------------------------------------------------------------------
(* Packaging                                                               *)

Busy == {"script", "archive", "opened"} \cup Holding

PackagingTypes ==
    /\ pc \in [Process -> {"start"} \cup Busy \cup Ended]
    /\ handle \in [Process -> Inode \cup {NoFile}]
    /\ locked \in [Inode -> SUBSET Process]
    /\ content \in [Inode -> {"none", "empty", "partial", "whole", "torn"}]
    /\ scratch \in Inode \cup {NoFile}
    /\ final \in Inode \cup {NoFile}
    /\ \A p \in Process : pc[p] \in {"opened"} \cup Holding => handle[p] \in Inode

(* The lock of an inode is held by one process that has it open.           *)
LockInv ==
    /\ \A i \in Inode : \A p \in locked[i] : pc[p] \in Holding /\ handle[p] = i
    /\ \A i \in Inode : \A p, q \in locked[i] : p = q

(* Who packages alone has the scratch file to itself, and what is in it is *)
(* what it has written; an inode has no name before its process opens it.  *)
AloneInv ==
    /\ \A p, q \in Process : pc[p] \in Busy /\ pc[q] \in Busy => p = q
    /\ \A p \in Process : pc[p] \in {"start", "script", "archive"} =>
           final # p /\ scratch # p
    /\ final # NoFile => final # scratch
    /\ \A p \in Process :
          /\ pc[p] \in {"opened"} \cup (Holding \ {"renamed"}) => scratch = handle[p]
          /\ pc[p] \in {"opened", "locked"} => content[handle[p]] = "empty"
          /\ pc[p] = "writing" => content[handle[p]] = "partial"
          /\ pc[p] \in {"written", "verified"} => content[handle[p]] = "whole"
          /\ pc[p] = "renamed" => final = handle[p]

PackagingInv == PackagingTypes /\ LockInv

LEMMA PackagingInit == Init => PackagingInv
BY DEF Init, PackagingInv, PackagingTypes, LockInv, Holding

LEMMA PackagingStep == PackagingInv /\ [Next]_vars => PackagingInv'
<1> SUFFICES ASSUME PackagingInv, [Next]_vars PROVE PackagingInv'
  OBVIOUS
<1> USE DEF PackagingInv, Busy, Holding, Ended, Inode
<1>1. ASSUME NEW p \in Process, Step(p) \/ Fail(p) \/ Crash(p)
      PROVE  PackagingTypes'
  <2>1. CASE StartScript(p) \/ EndScript(p) \/ SkipVerification(p)
    BY <1>1, <2>1
       DEF StartScript, EndScript, SkipVerification, Go, PackagingTypes
  <2>2. CASE Open(p)
    BY <1>1, <2>2 DEF Open, Go, PackagingTypes
  <2>3. CASE Lock(p)
    BY <1>1, <2>3 DEF Lock, Go, PackagingTypes
  <2>4. CASE StartWriting(p)
    BY <1>1, <2>4 DEF StartWriting, Go, PackagingTypes
  <2>5. CASE EndWriting(p)
    BY <1>1, <2>5 DEF EndWriting, Go, PackagingTypes
  <2>6. CASE Verify(p)
    BY <1>1, <2>6 DEF Verify, Close, Go, PackagingTypes
  <2>7. CASE Rename(p)
    BY <1>1, <2>7 DEF Rename, Close, Go, PackagingTypes
  <2>8. CASE Finish(p)
    BY <1>1, <2>8 DEF Finish, Close, Go, PackagingTypes
  <2>9. CASE Fail(p)
    BY <1>1, <2>9 DEF Fail, Close, Go, PackagingTypes
  <2>10. CASE Crash(p)
    BY <1>1, <2>10 DEF Crash, Close, Go, PackagingTypes
  <2>11. QED
    BY <1>1, <2>1, <2>2, <2>3, <2>4, <2>5, <2>6, <2>7, <2>8, <2>9, <2>10
       DEF Step
<1>2. ASSUME NEW p \in Process, Step(p) \/ Fail(p) \/ Crash(p)
      PROVE  LockInv'
  <2>1. CASE StartScript(p) \/ EndScript(p) \/ SkipVerification(p) \/ StartWriting(p) \/ EndWriting(p)
    BY <1>2, <2>1
       DEF StartScript, EndScript, SkipVerification, StartWriting, EndWriting,
           Go, PackagingTypes, LockInv
  <2>2. CASE Open(p)
    BY <1>2, <2>2 DEF Open, Go, PackagingTypes, LockInv
  <2>3. CASE Lock(p)
    BY <1>2, <2>3 DEF Lock, Go, PackagingTypes, LockInv
  <2>4. ASSUME NEW place \in Ended, Go(p, place), UNCHANGED handle,
               \/ locked' = locked /\ handle[p] = NoFile
               \/ Close(p) /\ handle[p] \in Inode
        PROVE  LockInv'
    <3>1. \A i \in Inode : locked'[i] = locked[i] \ {p}
      BY <2>4, ConstantsAssumption
         DEF Close, PackagingTypes, LockInv, ConstantsAssumption
    <3>2. \A q \in Process : q # p => pc'[q] = pc[q]
      BY <2>4 DEF Go, PackagingTypes
    <3>3. QED
      BY <2>4, <3>1, <3>2 DEF LockInv, PackagingTypes
  <2>5. CASE Verify(p)
    BY <1>2, <2>4, <2>5 DEF Verify, Go, PackagingTypes, LockInv
  <2>6. CASE Rename(p)
    BY <1>2, <2>4, <2>6 DEF Rename, Go, PackagingTypes, LockInv
  <2>7. CASE Finish(p) \/ Fail(p) \/ Crash(p)
    BY <1>2, <2>4, <2>7, ConstantsAssumption
       DEF Finish, Fail, Crash, PackagingTypes, ConstantsAssumption
  <2>8. QED
    BY <1>2, <2>1, <2>2, <2>3, <2>5, <2>6, <2>7 DEF Step
<1>3. CASE UNCHANGED vars
  BY <1>3 DEF vars, PackagingTypes, LockInv
<1>4. QED
  BY <1>1, <1>2, <1>3 DEF Next, Over

(* The variables of packaging keep their types, and no two processes hold  *)
(* the lock of one inode, however many package at once.                    *)
THEOREM TypeCorrect == Spec => []TypeOK
<1>1. PackagingInv => TypeOK
  <2> SUFFICES ASSUME PackagingInv PROVE TypeOK
    OBVIOUS
  <2>1. \A i \in Inode : Cardinality(locked[i]) <= 1
    BY AtMostOne DEF PackagingInv, LockInv
  <2>2. QED
    BY <2>1 DEF PackagingInv, PackagingTypes, LockInv, TypeOK, Busy
<1>2. QED
  BY PackagingInit, PackagingStep, <1>1, PTL DEF Spec

LEMMA AloneStep ==
  ASSUME OneAtATime, PackagingInv, AloneInv, [Next]_vars
  PROVE  AloneInv'
<1> USE DEF PackagingInv, Busy, Holding, Ended, Inode
<1>1. ASSUME NEW p \in Process, Step(p) \/ Fail(p) \/ Crash(p)
      PROVE  AloneInv'
  <2>1. CASE StartScript(p)
    BY <1>1, <2>1 DEF StartScript, Go, PackagingTypes, AloneInv
  <2>2. CASE EndScript(p) \/ SkipVerification(p) \/ Lock(p)
    BY <1>1, <2>2
       DEF EndScript, SkipVerification, Lock, Go, PackagingTypes, AloneInv
  <2>3. CASE Open(p)
    BY <1>1, <2>3 DEF Open, Go, PackagingTypes, AloneInv
  <2>4. CASE StartWriting(p)
    BY <1>1, <2>4 DEF StartWriting, Go, PackagingTypes, AloneInv
  <2>5. CASE EndWriting(p)
    BY <1>1, <2>5 DEF EndWriting, Go, PackagingTypes, AloneInv
  <2>6. CASE Verify(p)
    BY <1>1, <2>6 DEF Verify, Go, PackagingTypes, AloneInv
  <2>7. CASE Rename(p)
    <3>1. /\ pc[p] = "verified" /\ scratch = handle[p] /\ handle[p] \in Process
          /\ scratch # NoFile /\ final' = scratch /\ scratch' = NoFile
          /\ pc' = [pc EXCEPT ![p] = "renamed"]
          /\ UNCHANGED <<handle, content>>
      BY <1>1, <2>7, ConstantsAssumption
         DEF Rename, Go, PackagingTypes, AloneInv, ConstantsAssumption
    <3>2. \A q \in Process : pc[q] \in Busy => q = p
      BY <1>1, <3>1 DEF AloneInv
    <3>3. \A q \in Process : q # p => pc'[q] = pc[q] /\ pc'[q] \notin Busy
      BY <1>1, <3>1, <3>2 DEF PackagingTypes
    <3>4. pc'[p] = "renamed"
      BY <1>1, <3>1 DEF PackagingTypes
    <3>5. \A q \in Process : pc'[q] \in {"start", "script", "archive"} =>
              final' # q /\ scratch' # q
      BY <1>1, <3>1, <3>3, <3>4, ConstantsAssumption
         DEF AloneInv, ConstantsAssumption
    <3>6. QED
      BY <1>1, <3>1, <3>3, <3>4, <3>5 DEF AloneInv
  <2>8. CASE Finish(p) \/ Fail(p) \/ Crash(p)
    BY <1>1, <2>8 DEF Finish, Fail, Crash, Go, PackagingTypes, AloneInv
  <2>9. QED
    BY <1>1, <2>1, <2>2, <2>3, <2>4, <2>5, <2>6, <2>7, <2>8 DEF Step
<1>2. CASE UNCHANGED vars
  BY <1>2 DEF vars, AloneInv
<1>3. QED
  BY <1>1, <1>2 DEF Next, Over

LEMMA WholeStep ==
  ASSUME OneAtATime, PackagingInv, AloneInv, FinalIsWhole, [Next]_vars
  PROVE  FinalIsWhole'
<1> USE DEF PackagingInv, Busy, Holding, Ended, Inode
<1>1. ASSUME NEW p \in Process, Step(p) \/ Fail(p) \/ Crash(p)
      PROVE  FinalIsWhole'
  <2>1. CASE Open(p)
    BY <1>1, <2>1, ConstantsAssumption
       DEF Open, PackagingTypes, AloneInv, FinalIsWhole, ConstantsAssumption
  <2>2. CASE StartWriting(p)
    BY <1>1, <2>2 DEF StartWriting, PackagingTypes, AloneInv, FinalIsWhole
  <2>3. CASE EndWriting(p)
    BY <1>1, <2>3 DEF EndWriting, PackagingTypes, AloneInv, FinalIsWhole
  <2>4. CASE Rename(p)
    BY <1>1, <2>4 DEF Rename, PackagingTypes, AloneInv, FinalIsWhole
  <2>5. QED
    BY <1>1, <2>1, <2>2, <2>3, <2>4
       DEF Step, StartScript, EndScript, Lock, Verify, SkipVerification,
           Finish, Fail, Crash, FinalIsWhole
<1>2. CASE UNCHANGED vars
  BY <1>2 DEF vars, FinalIsWhole
<1>3. QED
  BY <1>1, <1>2 DEF Next, Over

LEMMA AloneAlways ==
  ASSUME OneAtATime
  PROVE  Spec => [](PackagingInv /\ AloneInv /\ FinalIsWhole)
<1> DEFINE Inv == PackagingInv /\ AloneInv /\ FinalIsWhole
<1>1. Init => AloneInv /\ FinalIsWhole
  BY ConstantsAssumption
     DEF Init, AloneInv, FinalIsWhole, Busy, Holding, Inode,
         ConstantsAssumption
<1>2. Inv /\ [Next]_vars => Inv'
  BY PackagingStep, AloneStep, WholeStep
<1>3. QED
  BY PackagingInit, <1>1, <1>2, PTL DEF Spec

LEMMA PackagingSteps == [PublishingNext]_allVars => [Next]_vars
<1> SUFFICES ASSUME [PublishingNext]_allVars PROVE [Next]_vars
  OBVIOUS
<1>1. ASSUME NEW p \in Process, PackageStep(p) PROVE Next
  BY <1>1 DEF PackageStep, OpenScratch, WriteArchive, JustPackage, Next, Step
<1>2. ASSUME NEW p \in Publisher, UploadStep(p) PROVE [Next]_vars
  BY <1>2 DEF UploadStep, Hash, StartCopy, EndCopy, OpenRecords, LockRecords,
              ReadRecords, ClearRecords, WriteRecords, StopUpload, Next, Step
<1>3. ASSUME NEW c \in Client, ClientStep(c) PROVE UNCHANGED vars
  BY <1>3
     DEF ClientStep, Resolve, OpenArchive, ReadRecordAgain, VerifyChecksum,
              Unpack, GiveUp, RegistryUnchanged
<1>4. CASE UNCHANGED allVars
  BY <1>4 DEF allVars
<1>5. QED
  BY <1>1, <1>2, <1>3, <1>4 DEF PublishingNext

(* Whatever is published and fetched meanwhile, packaging goes on as it    *)
(* does alone.                                                             *)
THEOREM PackagesTheSame == PublishingSpec => Spec
<1>1. PublishingInit => Init
  BY DEF PublishingInit
<1>2. QED
  BY <1>1, PackagingSteps, PTL DEF PublishingSpec, Spec

(* The final name never leads to an archive that is half written, whoever  *)
(* is killed when, as long as processes package one after the other.       *)
THEOREM FinalStaysWhole ==
  ASSUME OneAtATime
  PROVE  PublishingSpec => []FinalIsWhole
BY AloneAlways, PackagesTheSame, PTL

-----------------------------------------------------------------------------
(* The registry, for any number of processes in one target directory       *)

Published == Uploading \ {"hashed"}
Locking == {"locked", "read", "cleared"}

RegistryTypes ==
    /\ \A p \in Publisher : pkg[p] \in PackagesOf[p]
    /\ up \in [Publisher -> {"none", "done", "stopped"} \cup Uploading]
    /\ DOMAIN copied = Publisher /\ DOMAIN list = Publisher
    /\ DOMAIN digest = Publisher /\ DOMAIN dl = Version
    /\ \A r \in records : r.version \in Version
    /\ \A p \in Process : pc[p] # "packaged" => up[p] = "none"

(* The lock of the records file is held from reading to writing.           *)
HolderInv ==
    /\ holder \subseteq Publisher
    /\ \A p \in Publisher : p \in holder <=> up[p] \in Locking
    /\ \A p, q \in holder : p = q

(* What a publication has read is what is there, or was until it emptied   *)
(* the file; a file that holds no records had none, unless some were lost. *)
RecordsInv ==
    /\ \A p \in Publisher : up[p] \in {"read", "cleared"} =>
           list[p] \subseteq records /\ (~lost => list[p] = records)
    /\ ~lost /\ recfile # "whole" =>
           /\ recfile # "torn"
           /\ records = {} \/ \E p \in Publisher : up[p] = "cleared"
    /\ ~lost => announced \subseteq {r.version : r \in records}

(* A publication that nothing disturbs is alone with its version, and what *)
(* it copies is what it will record.                                       *)
CopiesInv ==
    /\ \A p \in Publisher :
           up[p] = "copying" => dl[VersionOf(p)] \in {Partial, Mixed}
    /\ \A p \in Publisher :
           up[p] \in Published /\ VersionOf(p) \notin disturbed =>
               /\ \A q \in Publishing(VersionOf(p)) : q = p
               /\ copied[p] = digest[p]
               /\ dl[VersionOf(p)] = IF up[p] = "copying" THEN Partial
                                                         ELSE copied[p]
    /\ \A r \in records :
           \/ r.version \in disturbed \/ Publishing(r.version) # {}
           \/ dl[r.version] = r.checksum

RegistryInv == RegistryTypes /\ HolderInv /\ RecordsInv /\ CopiesInv

-----------------------------------------------------------------------------
(* Tarballs and clients, when one process packages at a time               *)

TarballInv ==
    /\ DOMAIN tarball = Inode
    /\ \A p \in Process : pc[p] \in {"written", "verified", "renamed"} =>
           tarball[handle[p]] = Archive(pkg[p]) /\ Normalizable(pkg[p])
    /\ final # NoFile => \E p \in Process :
           tarball[final] = Archive(pkg[p]) /\ Normalizable(pkg[p])
    /\ \A p \in Publisher : up[p] # "none" => digest[p] = Archive(pkg[p])

DependenciesIn(a) ==
    {[name |-> d.name, req |-> d.req] :
        d \in {e \in Dependencies(a.manifest.dependencies) : e.kind = "normal"}}

(* A record that is true of the archive whose digest it has.               *)
Described(r) ==
    /\ r.version \in Version /\ r.checksum \in ArchiveContent
    /\ r.dependencies = DependenciesIn(r.checksum)

(* What a client has verified or unpacked is still what the registry has,  *)
(* but for the versions and clients that history names.                    *)
ClientInv ==
    /\ DOMAIN store = Version /\ DOMAIN unpacked = Client
    /\ DOMAIN expected = Client /\ DOMAIN get = Client
    /\ \A r \in records : Described(r)
    /\ \A c \in Client :
          get[c] \in {"resolved", "opened", "checked", "verified", "done"} =>
              Described(expected[c])
    /\ \A c \in Client \ rewritten :
          /\ get[c] = "verified" =>
                 dl[expected[c].version] = expected[c].checksum
          /\ get[c] = "done" => unpacked[c] = expected[c].checksum
    /\ \A v \in Version \ stale :
          store[v] # NoArchive => store[v] \in ArchiveContent /\ dl[v] = store[v]

-----------------------------------------------------------------------------
(* Steps of the registry                                                   *)

LEMMA Packages ==
  ASSUME NEW p \in Publisher, NEW q \in PackagesOf[p], NEW a
  PROVE  /\ q.version \in Version
         /\ RecordOf(q, a).version = q.version /\ RecordOf(q, a).checksum = a
         /\ RecordOf(q, a).dependencies = PublishDependencies(q)
         /\ Archive(q) \in ArchiveContent
BY PublishingAssumption DEF PublishingAssumption, RecordOf, ArchiveContent

LEMMA PackagedOnce ==
  ASSUME PackagingInv, [Next]_vars, NEW p \in Process, pc[p] = "packaged"
  PROVE  pc'[p] = "packaged"
<1> USE DEF PackagingInv, PackagingTypes, Holding, Ended, Go
<1>1. ASSUME NEW q \in Process, Step(q) \/ Fail(q) \/ Crash(q)
      PROVE  q # p /\ \E place : Go(q, place)
  BY <1>1
     DEF Step, StartScript, EndScript, Open, Lock, StartWriting, EndWriting,
              Verify, SkipVerification, Rename, Finish, Fail, Crash
<1>2. QED
  BY <1>1 DEF Next, Over, vars

LEMMA RegistryRest ==
  ASSUME PackagingInv, RegistryInv, [Next]_vars,
         UNCHANGED <<pkg, publicationVars, registryVars, announced, disturbed, lost>>
  PROVE  RegistryInv'
<1> USE DEF RegistryInv, publicationVars, registryVars
<1>1. RegistryTypes'
  BY PackagedOnce DEF RegistryTypes
<1>2. HolderInv' /\ RecordsInv'
  BY DEF HolderInv, RecordsInv
<1>3. CopiesInv'
  BY DEF CopiesInv, Publishing, VersionOf
<1>4. QED
  BY <1>1, <1>2, <1>3

LEMMA RegistryUpload ==
  ASSUME PackagingInv, RegistryInv, NEW p \in Publisher, UploadStep(p)
  PROVE  RegistryInv'
<1> USE DEF RegistryInv, registryVars, historyVars, clientVars, Upload, VersionOf
<1>1. /\ up \in [Publisher -> {"none", "done", "stopped"} \cup Uploading]
      /\ VersionOf(p) \in Version /\ pkg' = pkg
  BY Packages
     DEF RegistryTypes, UploadStep, Hash, StartCopy, EndCopy, OpenRecords,
                  LockRecords, ReadRecords, ClearRecords, WriteRecords, StopUpload
<1>2. CASE Hash(p)
  <2>1. pc[p] = "renamed" /\ pc' = [pc EXCEPT ![p] = "packaged"] /\ p \in Process
    BY <1>2 DEF Hash, Finish, Go
  <2>2. up[p] = "none" /\ up' = [up EXCEPT ![p] = "hashed"]
    BY <1>2, <2>1 DEF Hash, RegistryTypes
  <2>3. \A q \in Publisher : q # p => up'[q] = up[q] /\ digest'[q] = digest[q]
    BY <1>1, <1>2, <2>2 DEF Hash, RegistryTypes
  <2>4. RegistryTypes'
    BY <1>1, <1>2, <2>1, <2>2
       DEF Hash, RegistryTypes, Uploading, PackagingInv, PackagingTypes
  <2>5. HolderInv'
    BY <1>1, <1>2, <2>2, <2>3 DEF Hash, HolderInv, Locking
  <2>6. RecordsInv'
    BY <1>1, <1>2, <2>2, <2>3 DEF Hash, RecordsInv
  <2>7. \A v : Publishing(v)' = Publishing(v)
    BY <1>1, <2>2, <2>3 DEF Publishing, Uploading
  <2>8. CopiesInv'
    <3>1. \A q \in Publisher : up'[q] \in Published => q # p
      BY <1>1, <2>2 DEF Published, Uploading
    <3>2. UNCHANGED <<pkg, copied, dl, records, disturbed>>
      BY <1>2 DEF Hash
    <3>3. \A q \in Publisher : VersionOf(q)' = VersionOf(q)
      BY <3>2
    <3>4. \A q \in Publisher : Publishing(VersionOf(q))' = Publishing(VersionOf(q))
      BY <2>7, <3>3
    <3>5. \A q \in Publisher : up'[q] = "copying" => up[q] = "copying"
      BY <1>1, <2>2
    <3>6. QED
      BY <2>3, <2>7, <3>1, <3>2, <3>3, <3>4, <3>5 DEF CopiesInv
  <2>9. QED
    BY <2>4, <2>5, <2>6, <2>8
<1>3. CASE StartCopy(p)
  <2> DEFINE v == VersionOf(p)
             a == IF p \in Elsewhere THEN digest[p] ELSE tarball[final]
  <2>1. /\ up[p] = "hashed" /\ up' = [up EXCEPT ![p] = "copying"]
        /\ copied' = [copied EXCEPT ![p] = a]
        /\ dl' = [dl EXCEPT ![v] = IF Copying(v) = {} THEN Partial ELSE Mixed]
        /\ disturbed' = IF Publishing(v) = {} /\ a = digest[p]
                        THEN disturbed \ {v} ELSE disturbed \cup {v}
        /\ UNCHANGED <<vars, digest, list, recfile, records, holder, announced, lost>>
    BY <1>3 DEF StartCopy
  <2> HIDE DEF a
  <2>2. \A q \in Publisher : q # p => up'[q] = up[q] /\ copied'[q] = copied[q]
    BY <1>1, <2>1 DEF RegistryTypes
  <2>3. up'[p] = "copying" /\ copied'[p] = a
    BY <1>1, <2>1 DEF RegistryTypes
  <2>4. /\ dl'[v] \in {Partial, Mixed} /\ (Copying(v) = {} => dl'[v] = Partial)
        /\ \A w \in Version : w # v => dl'[w] = dl[w]
    BY <1>1, <2>1 DEF RegistryTypes
  <2>5. \A w : w # v => Publishing(w)' = Publishing(w)
    BY <1>1, <2>2, <2>3 DEF Publishing
  <2>6. Publishing(v)' = Publishing(v) \cup {p}
    BY <1>1, <2>2, <2>3 DEF Publishing, Uploading
  <2>7. RegistryTypes'
    BY <1>1, <2>1 DEF RegistryTypes, Uploading, vars
  <2>8. HolderInv' /\ RecordsInv'
    BY <2>1, <2>2, <2>3 DEF HolderInv, RecordsInv, Locking
  <2>9. \A q \in Publisher : VersionOf(q) \in Version /\ VersionOf(q)' = VersionOf(q)
    BY <1>1, Packages DEF RegistryTypes
  <2>10. \A q \in Publisher : up'[q] = "copying" => dl'[VersionOf(q)] \in {Partial, Mixed}
    BY <2>2, <2>4, <2>9 DEF CopiesInv
  <2>11. ASSUME NEW q \in Publisher, up'[q] \in Published, VersionOf(q) \notin disturbed'
         PROVE  /\ \A o \in Publishing(VersionOf(q))' : o = q
                /\ copied'[q] = digest[q]
                /\ dl'[VersionOf(q)] = IF up'[q] = "copying" THEN Partial
                                                            ELSE copied'[q]
    <3>1. CASE VersionOf(q) = v
      <4>1. Publishing(v) = {} /\ a = digest[p]
        BY <2>1, <2>11, <3>1
      <4>2. q = p
        BY <2>2, <2>11, <3>1, <4>1 DEF Publishing, Published
      <4>3. Copying(v) = {}
        BY <4>1 DEF Publishing, Copying, Uploading
      <4>4. QED
        BY <2>3, <2>4, <2>6, <4>1, <4>2, <4>3
    <3>2. CASE VersionOf(q) # v
      <4>1. q # p /\ VersionOf(q) \notin disturbed
        BY <2>1, <2>11, <3>2
      <4>2. QED
        BY <2>2, <2>4, <2>5, <2>9, <2>11, <3>2, <4>1 DEF CopiesInv
    <3>3. QED
      BY <3>1, <3>2
  <2>12. ASSUME NEW r \in records
         PROVE  \/ r.version \in disturbed' \/ Publishing(r.version)' # {}
                \/ dl'[r.version] = r.checksum
    <3>1. CASE r.version = v
      BY <1>1, <2>3, <3>1 DEF Publishing, Uploading
    <3>2. CASE r.version # v
      BY <2>1, <2>4, <2>5, <3>2 DEF CopiesInv, RegistryTypes
    <3>3. QED
      BY <3>1, <3>2
  <2>13. CopiesInv'
    BY <1>1, <2>1, <2>9, <2>10, <2>11, <2>12 DEF CopiesInv
  <2>14. QED
    BY <2>7, <2>8, <2>13
<1>4. CASE EndCopy(p)
  <2> DEFINE v == VersionOf(p)
  <2>1. PICK a \in {copied[p], Mixed} :
           /\ up[p] = "copying" /\ up' = [up EXCEPT ![p] = "copied"]
           /\ dl[v] = Partial => a = copied[p]
           /\ Copying(v) # {p} => a = Mixed
           /\ dl' = [dl EXCEPT ![v] = a]
           /\ UNCHANGED <<vars, copied, digest, list, recfile, records, holder,
                          announced, disturbed, lost>>
    BY <1>4 DEF EndCopy
  <2>2. /\ \A q \in Publisher : q # p => up'[q] = up[q]
        /\ up'[p] = "copied"
    BY <1>1, <2>1
  <2>3. dl'[v] = a /\ \A w \in Version : w # v => dl'[w] = dl[w]
    BY <1>1, <2>1 DEF RegistryTypes
  <2>4. \A w : Publishing(w)' = Publishing(w)
    BY <1>1, <2>1, <2>2 DEF Publishing, Uploading
  <2>5. RegistryTypes'
    BY <1>1, <2>1 DEF RegistryTypes, Uploading, vars
  <2>6. HolderInv' /\ RecordsInv'
    BY <2>1, <2>2 DEF HolderInv, RecordsInv, Locking
  <2>7. \A q \in Publisher : VersionOf(q) \in Version /\ VersionOf(q)' = VersionOf(q)
    BY <1>1, Packages DEF RegistryTypes
  <2>8. ASSUME NEW q \in Publisher, up'[q] = "copying"
        PROVE  dl'[VersionOf(q)] \in {Partial, Mixed}
    <3>1. q # p /\ up[q] = "copying"
      BY <2>2, <2>8
    <3>2. CASE VersionOf(q) = v
      <4>1. q \in Copying(v)
        BY <3>1, <3>2 DEF Copying
      <4>2. QED
        BY <2>1, <2>3, <3>1, <3>2, <4>1
    <3>3. CASE VersionOf(q) # v
      BY <2>3, <2>7, <3>1, <3>3 DEF CopiesInv
    <3>4. QED
      BY <3>2, <3>3
  <2>9. ASSUME NEW q \in Publisher, up'[q] \in Published, VersionOf(q) \notin disturbed
        PROVE  /\ \A o \in Publishing(VersionOf(q)) : o = q
               /\ copied[q] = digest[q]
               /\ dl'[VersionOf(q)] = IF up'[q] = "copying" THEN Partial
                                                           ELSE copied[q]
    <3>1. up[q] \in Published
      BY <2>1, <2>2, <2>9 DEF Published, Uploading
    <3>2. CASE VersionOf(q) = v
      <4>1. p \in Publishing(v)
        BY <2>1 DEF Publishing, Uploading
      <4>2. q = p /\ dl[v] = Partial
        BY <2>1, <2>9, <3>1, <3>2, <4>1 DEF CopiesInv
      <4>3. QED
        BY <2>1, <2>2, <2>3, <2>9, <3>1, <3>2, <4>2 DEF CopiesInv
    <3>3. CASE VersionOf(q) # v
      BY <2>2, <2>3, <2>7, <2>9, <3>1, <3>3 DEF CopiesInv
    <3>4. QED
      BY <3>2, <3>3
  <2>10. ASSUME NEW r \in records
         PROVE  \/ r.version \in disturbed \/ Publishing(r.version) # {}
                \/ dl'[r.version] = r.checksum
    <3>1. CASE r.version = v
      BY <2>1, <3>1 DEF Publishing, Uploading
    <3>2. CASE r.version # v
      BY <2>3, <3>2 DEF CopiesInv, RegistryTypes
    <3>3. QED
      BY <3>1, <3>2
  <2>11. CopiesInv'
    <3>1. UNCHANGED <<copied, digest, records, disturbed>>
      BY <2>1
    <3>2. /\ \A q \in Publisher :
                up'[q] = "copying" => dl'[VersionOf(q)'] \in {Partial, Mixed}
          /\ \A q \in Publisher :
                up'[q] \in Published /\ VersionOf(q)' \notin disturbed' =>
                    /\ \A o \in Publishing(VersionOf(q))' : o = q
                    /\ copied'[q] = digest'[q]
                    /\ dl'[VersionOf(q)'] = IF up'[q] = "copying" THEN Partial
                                                                  ELSE copied'[q]
      BY <2>4, <2>7, <2>8, <2>9, <3>1
    <3>3. \A r \in records' :
             \/ r.version \in disturbed' \/ Publishing(r.version)' # {}
             \/ dl'[r.version] = r.checksum
      BY <2>4, <2>10, <3>1
    <3>4. QED
      BY <3>2, <3>3 DEF CopiesInv
  <2>12. QED
    BY <2>5, <2>6, <2>11
(* Steps after the copy: nothing but the records and their lock changes.   *)
<1>5. ASSUME UNCHANGED <<vars, pkg, copied, digest, dl>>, up[p] \in Published,
             up[p] = "copying" => up'[p] = "stopped",
             up'[p] \in (Published \ {"copying"}) \cup {"done", "stopped"},
             \A q \in Publisher : q # p => up'[q] = up[q],
             disturbed' \in {disturbed, disturbed \cup {VersionOf(p)}},
             up'[p] = "stopped" => VersionOf(p) \in disturbed',
             up'[p] = "done" =>
                 \/ VersionOf(p) \in disturbed'
                 \/ \A r \in records' : r.version = VersionOf(p) => r.checksum = digest[p],
             \A r \in records' :
                 r \in records \/ (r.version = VersionOf(p) /\ up'[p] = "done")
      PROVE  CopiesInv'
  <2> DEFINE v == VersionOf(p)
  <2>1. \A q \in Publisher : VersionOf(q)' = VersionOf(q)
    BY <1>5
  <2>2. \A q \in Publisher : up'[q] \in Published => up[q] \in Published
    BY <1>5
  <2>3. \A q \in Publisher : /\ up'[q] = "copying" => up[q] = "copying"
                             /\ up'[q] \in Published => (up'[q] = "copying" <=> up[q] = "copying")
    BY <1>5 DEF Published, Uploading
  <2>4. \A q, o \in Publisher :
           o \in Publishing(VersionOf(q))' => o \in Publishing(VersionOf(q))
    BY <2>1, <2>2 DEF Publishing, Published
  <2>5. disturbed \subseteq disturbed'
    BY <1>5
  <2>6. \A q \in Publisher : up'[q] = "copying" => dl'[VersionOf(q)] \in {Partial, Mixed}
    BY <1>5, <2>3 DEF CopiesInv
  <2>7. ASSUME NEW q \in Publisher, up'[q] \in Published, VersionOf(q) \notin disturbed'
        PROVE  /\ \A o \in Publishing(VersionOf(q))' : o = q
               /\ copied[q] = digest[q]
               /\ dl[VersionOf(q)] = IF up'[q] = "copying" THEN Partial
                                                          ELSE copied[q]
    <3>1. up[q] \in Published /\ VersionOf(q) \notin disturbed
      BY <2>2, <2>5, <2>7
    <3>2. \A o \in Publishing(VersionOf(q)) : o = q
      BY <3>1 DEF CopiesInv
    <3>3. copied[q] = digest[q] /\ dl[VersionOf(q)] = IF up'[q] = "copying" THEN Partial
                                                                           ELSE copied[q]
      BY <2>3, <2>7, <3>1 DEF CopiesInv
    <3>4. \A o \in Publishing(VersionOf(q))' : o \in Publisher
      BY DEF Publishing
    <3>5. QED
      BY <2>4, <3>2, <3>3, <3>4
  <2>8. ASSUME NEW r \in records'
        PROVE  \/ r.version \in disturbed' \/ Publishing(r.version)' # {}
               \/ dl[r.version] = r.checksum
    <3>1. CASE r.version = v /\ up'[p] = "done"
      <4>1. SUFFICES ASSUME v \notin disturbed' PROVE dl[v] = r.checksum
        BY <3>1
      <4>2. dl[v] = copied[p] /\ copied[p] = digest[p]
        BY <1>5, <2>5, <4>1 DEF CopiesInv
      <4>3. QED
        BY <1>5, <3>1, <4>1, <4>2
    <3>2. CASE r.version = v /\ up'[p] = "stopped"
      BY <1>5, <3>2
    <3>3. CASE r.version = v /\ up'[p] \in Published
      <4>1. p \in Publishing(r.version)'
        BY <1>5, <3>3 DEF Publishing, Published
      <4>2. QED
        BY <4>1
    <3>4. CASE r.version # v
      <4>1. r \in records
        BY <1>5, <3>4
      <4>2. \A q \in Publishing(r.version) : q # p /\ q \in Publishing(r.version)'
        BY <1>5, <3>4 DEF Publishing
      <4>3. QED
        BY <2>5, <4>1, <4>2 DEF CopiesInv
    <3>5. QED
      BY <1>5, <3>1, <3>2, <3>3, <3>4
  <2>9. QED
    BY <1>5, <2>1, <2>6, <2>7, <2>8 DEF CopiesInv
<1>6. CASE OpenRecords(p) \/ LockRecords(p) \/ ReadRecords(p) \/ ClearRecords(p)
  <2>1. /\ UNCHANGED <<vars, pkg, copied, digest, dl, records, announced, disturbed, lost>>
        /\ \E next \in Published \ {"copying"} : up' = [up EXCEPT ![p] = next]
        /\ up[p] \in Published \ {"copying"}
    BY <1>6
       DEF OpenRecords, LockRecords, ReadRecords, ClearRecords, Published,
           Uploading
  <2>2. /\ \A q \in Publisher : q # p => up'[q] = up[q]
        /\ up'[p] \in Published \ {"copying"}
    BY <1>1, <2>1
  <2>3. DOMAIN list' = Publisher
    BY <1>6
       DEF OpenRecords, LockRecords, ReadRecords, ClearRecords, RegistryTypes
  <2>4. RegistryTypes'
    <3>1. PICK next \in Uploading : up' = [up EXCEPT ![p] = next]
      BY <2>1 DEF Published
    <3>2. up' \in [Publisher -> {"none", "done", "stopped"} \cup Uploading]
      BY <1>1, <3>1
    <3>3. \A q \in Process : pc'[q] # "packaged" => up'[q] = "none"
      <4>1. up[p] # "none"
        BY <2>1 DEF Published, Uploading
      <4>2. p \in Process => pc[p] = "packaged"
        BY <4>1 DEF RegistryTypes
      <4>3. pc' = pc
        BY <2>1 DEF vars
      <4>4. QED
        BY <2>2, <4>2, <4>3, PublishingAssumption DEF RegistryTypes, Publisher
    <3>4. QED
      BY <2>1, <2>3, <3>2, <3>3 DEF RegistryTypes
  <2>5. HolderInv'
    BY <1>1, <1>6
       DEF OpenRecords, LockRecords, ReadRecords, ClearRecords, HolderInv, Locking
  <2>6. RecordsInv'
    <3>1. CASE OpenRecords(p)
      BY <1>1, <3>1 DEF OpenRecords, RecordsInv
    <3>2. CASE LockRecords(p)
      BY <1>1, <3>2 DEF LockRecords, RecordsInv
    <3>3. CASE ReadRecords(p)
      <4>1. up[p] = "locked" /\ up' = [up EXCEPT ![p] = "read"] /\ recfile' = recfile
        BY <3>3 DEF ReadRecords
      <4>2. \A q \in Publisher : up[q] \notin {"read", "cleared"}
        BY <1>1, <4>1 DEF HolderInv, Locking
      <4>3. list'[p] = IF recfile = "empty" THEN {} ELSE records
        BY <3>3 DEF ReadRecords, RegistryTypes
      <4>4. recfile \in {"empty", "whole"}
        BY <3>3 DEF ReadRecords
      <4>5. list'[p] \subseteq records /\ (~lost => list'[p] = records)
        BY <4>2, <4>3, <4>4 DEF RecordsInv
      <4>6. QED
        BY <1>1, <2>1, <4>1, <4>2, <4>5 DEF RecordsInv
    <3>4. CASE ClearRecords(p)
      BY <1>1, <2>1, <3>4 DEF ClearRecords, RecordsInv
    <3>5. QED
      BY <1>6, <3>1, <3>2, <3>3, <3>4
  <2>7. CopiesInv'
    <3>1. up'[p] \notin {"done", "stopped"}
      BY <2>2 DEF Published, Uploading
    <3>2. records' = records /\ disturbed' = disturbed
      BY <2>1
    <3>3. up[p] \in Published /\ up[p] # "copying"
      BY <2>1
    <3>4. UNCHANGED <<vars, pkg, copied, digest, dl>>
      BY <2>1
    <3>5. QED
      BY <1>5, <2>2, <3>1, <3>2, <3>3, <3>4
  <2>8. QED
    BY <2>4, <2>5, <2>6, <2>7
<1>7. CASE WriteRecords(p)
  <2>1. /\ UNCHANGED <<vars, pkg, copied, digest, dl, list>>
        /\ up[p] = "cleared" /\ up' = [up EXCEPT ![p] = "done"] /\ holder' = holder \ {p}
    BY <1>7 DEF WriteRecords
  <2>2. \/ /\ recfile' = "whole" /\ records' = Revised(p)
           /\ announced' = announced \cup {VersionOf(p)}
           /\ disturbed' = disturbed /\ lost' = lost
        \/ /\ lost' = TRUE /\ disturbed' = disturbed \cup {VersionOf(p)}
           /\ records' = records
    BY <1>7 DEF WriteRecords
  <2>3. \A q \in Publisher : q # p => up'[q] = up[q] /\ up[q] \notin Locking
    BY <1>1, <2>1 DEF HolderInv, Locking
  <2>4. up'[p] = "done"
    BY <1>1, <2>1
  <2>5. \A r \in Revised(p) : \/ (r \in records /\ r.version # VersionOf(p))
                             \/ (r.version = VersionOf(p) /\ r.checksum = digest[p])
    <3>1. pkg[p] \in PackagesOf[p] /\ list[p] \subseteq records
      BY <2>1 DEF RecordsInv, RegistryTypes
    <3>2. LET new == RecordOf(pkg[p], digest[p])
          IN  new.version = VersionOf(p) /\ new.checksum = digest[p]
      BY <3>1, Packages
    <3>3. Revised(p) = {r \in list[p] : r.version # VersionOf(p)}
                           \cup {RecordOf(pkg[p], digest[p])}
      BY DEF Revised
    <3> HIDE DEF VersionOf
    <3>4. QED
      BY <3>1, <3>2, <3>3
  <2>6. RegistryTypes'
    BY <1>1, <2>1, <2>2, <2>5 DEF RegistryTypes, vars
  <2>7. HolderInv'
    BY <1>1, <2>1, <2>3, <2>4 DEF HolderInv, Locking
  <2>8. RecordsInv'
    <3>1. CASE lost'
      BY <2>3, <2>4, <3>1 DEF RecordsInv, Locking
    <3>2. CASE ~lost'
      <4>1. /\ recfile' = "whole" /\ records' = Revised(p) /\ ~lost
            /\ announced' = announced \cup {VersionOf(p)}
        BY <2>2, <3>2
      <4>2. list[p] = records
        BY <2>1, <4>1 DEF RecordsInv
      <4>3. /\ \A r \in records : r.version # VersionOf(p) => r \in Revised(p)
            /\ \E r \in Revised(p) : r.version = VersionOf(p)
        BY <4>2, Packages DEF Revised, RegistryTypes
      <4>4. announced' \subseteq {r.version : r \in records'}
        BY <4>1, <4>3 DEF RecordsInv
      <4>5. QED
        BY <2>3, <2>4, <4>1, <4>4 DEF RecordsInv, Locking
    <3>3. QED
      BY <3>1, <3>2
  <2>9. CopiesInv'
    <3>1. \A r \in records' :
              r \in records \/ (r.version = VersionOf(p) /\ up'[p] = "done")
      BY <2>2, <2>4, <2>5
    <3>2. \/ VersionOf(p) \in disturbed'
          \/ \A r \in records' : r.version = VersionOf(p) => r.checksum = digest[p]
      BY <2>2, <2>5
    <3>3. QED
      BY <1>5, <2>1, <2>2, <2>3, <2>4, <3>1, <3>2 DEF Published, Uploading
  <2>10. QED
    BY <2>6, <2>7, <2>8, <2>9
<1>8. CASE StopUpload(p)
  <2>1. /\ UNCHANGED <<vars, pkg, copied, digest, dl, list, records, announced>>
        /\ up[p] \in Uploading /\ up' = [up EXCEPT ![p] = "stopped"] /\ holder' = holder \ {p}
        /\ disturbed' = IF up[p] = "hashed" THEN disturbed
                                            ELSE disturbed \cup {VersionOf(p)}
        /\ IF up[p] = "cleared" THEN lost' = TRUE ELSE UNCHANGED <<recfile, lost>>
    BY <1>8 DEF StopUpload
  <2>2. \A q \in Publisher : q # p => up'[q] = up[q]
    BY <1>1, <2>1
  <2>3. up'[p] = "stopped"
    BY <1>1, <2>1
  <2>4. RegistryTypes'
    BY <1>1, <2>1 DEF RegistryTypes, Uploading, vars
  <2>5. HolderInv'
    BY <1>1, <2>1, <2>2, <2>3 DEF HolderInv, Locking
  <2>6. RecordsInv'
    BY <1>1, <2>1, <2>2, <2>3 DEF RecordsInv
  <2>7. CopiesInv'
    <3>1. CASE up[p] = "hashed"
      <4>1. \A q \in Publisher : /\ VersionOf(q)' = VersionOf(q)
                                 /\ up'[q] \in Published <=> up[q] \in Published
                                 /\ up'[q] = "copying" <=> up[q] = "copying"
        BY <2>1, <2>2, <2>3, <3>1 DEF Published, Uploading
      <4>2. \A v : Publishing(v)' = Publishing(v)
        BY <4>1 DEF Publishing, Published
      <4>3. \A q \in Publisher : Publishing(VersionOf(q))' = Publishing(VersionOf(q))
        BY <4>1, <4>2
      <4>4. QED
        BY <2>1, <3>1, <4>1, <4>2, <4>3 DEF CopiesInv
    <3>2. CASE up[p] \in Published
      BY <1>5, <2>1, <2>2, <2>3, <3>2 DEF Published, Uploading
    <3>3. QED
      BY <2>1, <3>1, <3>2 DEF Published
  <2>8. QED
    BY <2>4, <2>5, <2>6, <2>7
<1>9. QED
  BY <1>2, <1>3, <1>4, <1>6, <1>7, <1>8 DEF UploadStep

LEMMA RegistryAlways == PublishingSpec => [](PackagingInv /\ RegistryInv)
<1> DEFINE Inv == PackagingInv /\ RegistryInv
<1>1. PublishingInit => Inv
  <2> SUFFICES ASSUME PublishingInit PROVE Inv
    OBVIOUS
  <2>1. PackagingInv
    BY PackagingInit DEF PublishingInit
  <2>2. \A p \in Publisher : up[p] \in {"none", "hashed"}
    BY DEF PublishingInit
  <2>3. RegistryTypes
    <3>1. \A p \in Process : up[p] = "none"
      BY PublishingAssumption
         DEF PublishingInit, PublishingAssumption, Publisher
    <3>2. up \in [Publisher -> {"none", "done", "stopped"} \cup Uploading]
      BY DEF PublishingInit, Uploading
    <3>3. QED
      BY <3>1, <3>2 DEF PublishingInit, RegistryTypes
  <2>4. HolderInv /\ RecordsInv /\ CopiesInv
    <3>1. \A p \in Publisher : up[p] \notin Locking \cup Published \cup {"copying"}
      BY <2>2 DEF Locking, Published, Uploading
    <3>2. holder = {} /\ records = {} /\ announced = {} /\ recfile = "absent"
      BY DEF PublishingInit
    <3>3. QED
      BY <3>1, <3>2 DEF HolderInv, RecordsInv, CopiesInv, Locking
  <2>5. QED
    BY <2>1, <2>3, <2>4 DEF RegistryInv
<1>2. Inv /\ [PublishingNext]_allVars => Inv'
  <2> SUFFICES ASSUME Inv, [PublishingNext]_allVars PROVE Inv'
    OBVIOUS
  <2>1. PackagingInv' /\ [Next]_vars
    BY PackagingSteps, PackagingStep
  <2>2. ASSUME NEW p \in Process, PackageStep(p) PROVE RegistryInv'
    <3>1. UNCHANGED <<pkg, publicationVars, registryVars, announced, disturbed, lost>>
      BY <2>2
         DEF PackageStep, OpenScratch, WriteArchive, JustPackage, newVars,
             historyVars
    <3>2. QED
      BY <2>1, <3>1, RegistryRest
  <2>3. ASSUME NEW p \in Publisher, UploadStep(p) PROVE RegistryInv'
    BY <2>3, RegistryUpload
  <2>4. ASSUME NEW c \in Client, ClientStep(c) PROVE RegistryInv'
    <3>1. UNCHANGED <<pkg, publicationVars, registryVars, announced, disturbed, lost>>
      BY <2>4
         DEF ClientStep, Resolve, OpenArchive, ReadRecordAgain, VerifyChecksum,
                  Unpack, GiveUp, RegistryUnchanged
    <3>2. QED
      BY <2>1, <3>1, RegistryRest
  <2>5. CASE UNCHANGED allVars
    <3>1. UNCHANGED <<pkg, publicationVars, registryVars, announced, disturbed, lost>>
      BY <2>5 DEF allVars, newVars, historyVars
    <3>2. QED
      BY <2>1, <3>1, RegistryRest
  <2>6. QED
    BY <2>1, <2>2, <2>3, <2>4, <2>5 DEF PublishingNext
<1>3. QED
  BY <1>1, <1>2, PTL DEF PublishingSpec

(* However many publish at once: a recorded version stays recorded, and    *)
(* its record describes the archive of the registry, but for the           *)
(* overlaps, cuts and lost records that the history variables name.        *)
THEOREM RecordsDescribeArchives == PublishingSpec => []RecordedArchives
<1>1. RegistryInv => RecordedArchives
  BY DEF RegistryInv, RecordsInv, CopiesInv, RecordedArchives
<1>2. QED
  BY RegistryAlways, <1>1, PTL

-----------------------------------------------------------------------------
(* Steps of tarballs and clients                                           *)

LEMMA TarballPackaging ==
  ASSUME PackagingInv, AloneInv, TarballInv, NEW p \in Process, PackageStep(p)
  PROVE  TarballInv'
<1> USE DEF PackagingInv, Holding, Inode
<1>1. pkg' = pkg /\ up' = up /\ digest' = digest
  BY DEF PackageStep, OpenScratch, WriteArchive, JustPackage, newVars, publicationVars
<1>2. \A q \in Process : Archive(pkg[q])' = Archive(pkg[q]) /\ Normalizable(pkg[q])' = Normalizable(pkg[q])
  BY <1>1
<1>3. CASE WriteArchive(p)
  <2>1. /\ pc[p] = "writing" /\ pc' = [pc EXCEPT ![p] = "written"] /\ Normalizable(pkg[p])
        /\ tarball' = [tarball EXCEPT ![handle[p]] = Archive(pkg[p])]
        /\ handle' = handle /\ final' = final /\ scratch' = scratch
    BY <1>3 DEF WriteArchive, EndWriting, Go
  <2>2. handle[p] \in Inode /\ scratch = handle[p] /\ final # scratch
    BY <2>1, ConstantsAssumption
       DEF PackagingTypes, AloneInv, ConstantsAssumption
  <2>3. \A q \in Process : q # p => pc'[q] \notin {"written", "verified", "renamed"}
    BY <2>1 DEF PackagingTypes, AloneInv, Busy
  <2>4. tarball'[handle[p]] = Archive(pkg[p]) /\ DOMAIN tarball' = Inode
    BY <2>1, <2>2 DEF TarballInv
  <2>5. final # NoFile => tarball'[final] = tarball[final]
    BY <2>1, <2>2 DEF TarballInv, PackagingTypes
  <2>6. QED
    BY <1>1, <1>2, <2>1, <2>3, <2>4, <2>5 DEF TarballInv
<1>4. CASE Rename(p) /\ UNCHANGED newVars
  <2>1. /\ pc[p] = "verified" /\ tarball' = tarball /\ handle' = handle
        /\ pc' \in {[pc EXCEPT ![p] = "renamed"], [pc EXCEPT ![p] = "failed"]}
        /\ final' \in {scratch, final}
    BY <1>4 DEF Rename, Go, newVars
  <2>2. scratch = handle[p]
    BY <2>1 DEF AloneInv
  <2>3. \A q \in Process : pc'[q] \in {"written", "verified", "renamed"} =>
             pc[q] \in {"written", "verified", "renamed"}
    BY <2>1 DEF PackagingTypes
  <2>4. tarball[scratch] = Archive(pkg[p]) /\ Normalizable(pkg[p])
    BY <2>1, <2>2 DEF TarballInv
  <2>5. QED
    BY <1>1, <1>2, <2>1, <2>3, <2>4 DEF TarballInv
<1>5. CASE Open(p) /\ UNCHANGED newVars
  BY <1>1, <1>2, <1>5 DEF Open, Go, newVars, TarballInv, PackagingTypes
<1>6. CASE \/ StartScript(p) \/ EndScript(p) \/ Lock(p) \/ StartWriting(p)
           \/ Verify(p) \/ SkipVerification(p) \/ Fail(p) \/ Crash(p) \/ Finish(p)
  <2>1. /\ handle' = handle /\ final' = final
        /\ \A q \in Process : pc'[q] \in {"written", "verified", "renamed"} =>
             pc[q] \in {"written", "verified", "renamed"}
    BY <1>6
       DEF StartScript, EndScript, Lock, StartWriting, Verify,
           SkipVerification,
                Fail, Crash, Finish, Go, PackagingTypes
  <2>2. tarball' = tarball
    BY <1>6
       DEF PackageStep, OpenScratch, WriteArchive, JustPackage, newVars,
           EndWriting,
                Open, StartScript, EndScript, Lock, StartWriting, Verify, SkipVerification,
                Fail, Crash, Finish, Go, PackagingTypes
  <2>3. QED
    BY <1>1, <1>2, <2>1, <2>2 DEF TarballInv
<1>7. QED
  BY <1>3, <1>4, <1>5, <1>6 DEF PackageStep, OpenScratch, JustPackage

LEMMA TarballUpload ==
  ASSUME PackagingInv, AloneInv, RegistryInv, TarballInv,
         NEW p \in Publisher, UploadStep(p)
  PROVE  TarballInv'
<1>1. pkg' = pkg /\ tarball' = tarball /\ handle' = handle /\ final' = final
  BY DEF UploadStep, Hash, Finish, StartCopy, EndCopy, OpenRecords, LockRecords,
         ReadRecords, ClearRecords, WriteRecords, StopUpload, vars
<1>2. CASE Hash(p)
  <2>1. /\ pc[p] = "renamed" /\ pc' = [pc EXCEPT ![p] = "packaged"] /\ p \in Process
        /\ digest' = [digest EXCEPT ![p] = tarball[handle[p]]]
        /\ up' = [up EXCEPT ![p] = "hashed"]
    BY <1>2 DEF Hash, Finish, Go, Upload
  <2>2. \A q \in Publisher : digest'[q] = IF q = p THEN tarball[handle[p]] ELSE digest[q]
    BY <2>1 DEF RegistryInv, RegistryTypes
  <2>3. \A q \in Publisher : q # p => up'[q] = up[q]
    BY <2>1 DEF RegistryInv, RegistryTypes
  <2>4. tarball[handle[p]] = Archive(pkg[p])
    BY <2>1 DEF TarballInv
  <2>5. \A q \in Process : pc'[q] \in {"written", "verified", "renamed"} => pc'[q] = pc[q]
    BY <2>1 DEF PackagingInv, PackagingTypes
  <2>6. QED
    BY <1>1, <2>2, <2>3, <2>4, <2>5 DEF TarballInv
<1>3. CASE ~Hash(p)
  <2>1. digest' = digest /\ pc' = pc
    BY <1>3 DEF UploadStep, StartCopy, EndCopy, OpenRecords, LockRecords,
                ReadRecords, ClearRecords, WriteRecords, StopUpload, vars
  <2>2. \A q \in Publisher : up'[q] # "none" => up[q] # "none"
    BY <1>3
       DEF UploadStep, StartCopy, EndCopy, OpenRecords, LockRecords,
           ReadRecords,
                ClearRecords, WriteRecords, StopUpload, Upload, Uploading,
                RegistryInv, RegistryTypes
  <2>3. QED
    BY <1>1, <2>1, <2>2 DEF TarballInv
<1>4. QED
  BY <1>2, <1>3

(* What the index says of the dependencies is what the manifest in the     *)
(* archive says.                                                           *)
LEMMA RecordsAreTrue ==
  ASSUME NEW p \in Publisher, NEW q \in PackagesOf[p]
  PROVE  Described(RecordOf(q, Archive(q)))
<1> DEFINE all == Dependencies(q.dependencies)
           normalized == {Normalized(d) : d \in all}
<1>1. /\ RecordOf(q, Archive(q)).version \in Version
      /\ RecordOf(q, Archive(q)).checksum = Archive(q)
      /\ RecordOf(q, Archive(q)).dependencies = PublishDependencies(q)
      /\ Archive(q) \in ArchiveContent
  BY Packages
<1>2. Archive(q).manifest.dependencies = normalized
  BY DEF Archive, ManifestOf
<1>3. \A d : LET e == Dependency(Normalized(d))
             IN  e.name = d.name /\ e.req = d.req /\ e.kind = d.kind
  BY DEF Dependency, Normalized
<1>4. Dependencies(normalized) = {Dependency(Normalized(d)) : d \in all}
  BY DEF Dependencies
<1>5. DependenciesIn(Archive(q)) =
          {[name |-> d.name, req |-> d.req] :
              d \in {e \in {Dependency(Normalized(x)) : x \in all} : e.kind = "normal"}}
  BY <1>2, <1>4 DEF DependenciesIn
<1> HIDE DEF all
<1>6. {[name |-> d.name, req |-> d.req] :
              d \in {e \in {Dependency(Normalized(x)) : x \in all} : e.kind = "normal"}}
      = {[name |-> d.name, req |-> d.req] : d \in {e \in all : e.kind = "normal"}}
  BY <1>3
<1>7. PublishDependencies(q) =
          {[name |-> d.name, req |-> d.req] : d \in {e \in all : e.kind = "normal"}}
  BY DEF PublishDependencies, all
<1>8. QED
  BY <1>1, <1>5, <1>6, <1>7 DEF Described

ClientSame ==
    /\ UNCHANGED <<clientVars, records, dl>>
    /\ rewritten' = rewritten /\ stale' = stale

LEMMA ClientRest == ClientInv /\ ClientSame => ClientInv'
BY DEF ClientSame, clientVars, ClientInv

LEMMA ClientUpload ==
  ASSUME RegistryInv, TarballInv, ClientInv, NEW p \in Publisher, UploadStep(p)
  PROVE  ClientInv'
<1> DEFINE v == VersionOf(p)
<1>1. pkg[p] \in PackagesOf[p] /\ v \in Version /\ UNCHANGED clientVars /\ pkg' = pkg
  BY Packages
     DEF RegistryInv, RegistryTypes, VersionOf, UploadStep, Hash, StartCopy,
         EndCopy,
         OpenRecords, LockRecords, ReadRecords, ClearRecords, WriteRecords, StopUpload
<1>2. CASE StartCopy(p)
  <2>1. /\ \A w \in Version : w # v => dl'[w] = dl[w]
        /\ records' = records
        /\ stale' = IF store[v] = NoArchive THEN stale ELSE stale \cup {v}
        /\ rewritten' = rewritten \cup
               {c \in Client : get[c] = "verified" /\ expected[c].version = v}
    BY <1>1, <1>2 DEF StartCopy, RegistryInv, RegistryTypes
  <2>2. ASSUME NEW c \in Client \ rewritten', get[c] = "verified"
        PROVE  dl'[expected[c].version] = expected[c].checksum
    <3>1. expected[c].version # v /\ c \notin rewritten /\ expected[c].version \in Version
      BY <2>1, <2>2 DEF ClientInv, Described
    <3>2. QED
      BY <2>1, <2>2, <3>1 DEF ClientInv
  <2>3. ASSUME NEW w \in Version \ stale', store[w] # NoArchive
        PROVE  store[w] \in ArchiveContent /\ dl'[w] = store[w]
    <3>1. w # v /\ w \notin stale
      BY <2>1, <2>3
    <3>2. QED
      BY <2>1, <2>3, <3>1 DEF ClientInv
  <2>4. \A c \in Client \ rewritten' : c \in Client \ rewritten
    BY <2>1
  <2>5. QED
    BY <1>1, <2>1, <2>2, <2>3, <2>4 DEF ClientInv, clientVars
<1>3. CASE EndCopy(p)
  <2>1. /\ \A w \in Version : w # v => dl'[w] = dl[w]
        /\ records' = records /\ stale' = stale /\ rewritten' = rewritten
        /\ up[p] = "copying"
    BY <1>1, <1>3 DEF EndCopy, RegistryInv, RegistryTypes, historyVars
  <2>2. dl[v] \notin ArchiveContent
    BY <2>1, ContentAssumption DEF RegistryInv, CopiesInv, ContentAssumption
  <2>3. ASSUME NEW c \in Client \ rewritten, get[c] = "verified"
        PROVE  dl'[expected[c].version] = expected[c].checksum
    <3>1. Described(expected[c]) /\ dl[expected[c].version] = expected[c].checksum
      BY <2>3 DEF ClientInv
    <3>2. expected[c].version \in Version /\ expected[c].version # v
      BY <2>2, <3>1 DEF Described
    <3>3. QED
      BY <2>1, <3>1, <3>2
  <2>4. ASSUME NEW w \in Version \ stale, store[w] # NoArchive
        PROVE  store[w] \in ArchiveContent /\ dl'[w] = store[w]
    BY <2>1, <2>2, <2>4 DEF ClientInv
  <2>5. QED
    BY <1>1, <2>1, <2>3, <2>4 DEF ClientInv, clientVars
<1>4. CASE WriteRecords(p)
  <2>1. /\ dl' = dl /\ stale' = stale /\ rewritten' = rewritten
        /\ up[p] = "cleared" /\ records' \in {records, Revised(p)}
    BY <1>4 DEF WriteRecords
  <2>2. digest[p] = Archive(pkg[p]) /\ list[p] \subseteq records
    BY <2>1 DEF TarballInv, RegistryInv, RecordsInv
  <2>3. \A r \in Revised(p) : Described(r)
    BY <1>1, <2>2, RecordsAreTrue DEF Revised, ClientInv
  <2>4. \A r \in records' : Described(r)
    BY <2>1, <2>3 DEF ClientInv
  <2>5. QED
    BY <1>1, <2>1, <2>4 DEF ClientInv, clientVars
<1>5. CASE \/ Hash(p) \/ OpenRecords(p) \/ LockRecords(p) \/ ReadRecords(p)
           \/ ClearRecords(p) \/ StopUpload(p)
  <2>1. ClientSame
    BY <1>1, <1>5
       DEF Hash, OpenRecords, LockRecords, ReadRecords, ClearRecords,
           StopUpload,
                 ClientSame, registryVars, historyVars
  <2>2. QED
    BY <2>1, ClientRest
<1>6. QED
  BY <1>2, <1>3, <1>4, <1>5 DEF UploadStep

LEMMA ClientFetches ==
  ASSUME RegistryInv, ClientInv, NEW c \in Client, ClientStep(c)
  PROVE  ClientInv'
<1> USE DEF Get, RegistryUnchanged, registryVars
<1>1. dl' = dl /\ records' = records /\ stale' = stale
  BY DEF ClientStep, Resolve, OpenArchive, ReadRecordAgain, VerifyChecksum, Unpack, GiveUp
<1>2. CASE Resolve(c) \/ ReadRecordAgain(c)
  <2>1. /\ UNCHANGED <<unpacked, store, rewritten>>
        /\ \E r \in records : expected' = [expected EXCEPT ![c] = r]
        /\ \E place \in {"resolved", "checked"} : get' = [get EXCEPT ![c] = place]
    BY <1>2 DEF Resolve, ReadRecordAgain
  <2>2. Described(expected'[c]) /\ get'[c] \in {"resolved", "checked"}
    BY <2>1 DEF ClientInv
  <2>3. \A d \in Client : d # c => expected'[d] = expected[d] /\ get'[d] = get[d]
    BY <2>1 DEF ClientInv
  <2>4. DOMAIN expected' = Client /\ DOMAIN get' = Client
    BY <2>1 DEF ClientInv
  <2>5. QED
    BY <1>1, <2>1, <2>2, <2>3, <2>4 DEF ClientInv
<1>3. CASE OpenArchive(c) \/ VerifyChecksum(c) \/ GiveUp(c)
  <2>1. /\ UNCHANGED <<expected, unpacked, store, rewritten>>
        /\ DOMAIN get' = Client /\ \A d \in Client : d # c => get'[d] = get[d]
    BY <1>3 DEF OpenArchive, VerifyChecksum, GiveUp, ClientInv
  <2>2. \/ get'[c] \in {"opened", "failed"} /\ (get'[c] = "failed" \/ get[c] = "resolved")
        \/ /\ get'[c] = "verified" /\ get[c] = "checked"
           /\ dl[expected[c].version] = expected[c].checksum
    BY <1>3 DEF OpenArchive, VerifyChecksum, GiveUp, ClientInv
  <2>3. QED
    BY <1>1, <2>1, <2>2 DEF ClientInv
<1>4. CASE Unpack(c)
  <2> DEFINE v == expected[c].version
             a == IF store[v] = NoArchive THEN dl[v] ELSE store[v]
  <2>1. /\ get[c] = "verified" /\ get' = [get EXCEPT ![c] = "done"] /\ expected' = expected
        /\ a \in ArchiveContent /\ unpacked' = [unpacked EXCEPT ![c] = a]
        /\ store' = [store EXCEPT ![v] = a]
        /\ rewritten' = IF v \in stale THEN rewritten \cup {c} ELSE rewritten
    BY <1>4 DEF Unpack
  <2>2. Described(expected[c]) /\ v \in Version
    BY <2>1 DEF ClientInv, Described
  <2>3. c \notin rewritten' => dl[v] = expected[c].checksum /\ v \notin stale /\ c \notin rewritten
    BY <2>1 DEF ClientInv
  <2>4. v \notin stale => a = dl[v]
    BY <2>2 DEF ClientInv
  <2>5. \A d \in Client : d # c => get'[d] = get[d] /\ unpacked'[d] = unpacked[d]
    BY <2>1 DEF ClientInv
  <2>6. get'[c] = "done" /\ unpacked'[c] = a /\ store'[v] = a
    BY <2>1, <2>2 DEF ClientInv
  <2>7. \A w \in Version : w # v => store'[w] = store[w]
    BY <2>1 DEF ClientInv
  <2>8. DOMAIN store' = Version /\ DOMAIN unpacked' = Client /\ DOMAIN get' = Client
    BY <2>1 DEF ClientInv
  <2> HIDE DEF a
  <2>9. \A w \in Version \ stale :
            store'[w] # NoArchive => store'[w] \in ArchiveContent /\ dl[w] = store'[w]
    BY <2>1, <2>4, <2>6, <2>7 DEF ClientInv
  <2>10. \A d \in Client \ rewritten' :
            /\ get'[d] = "verified" => dl[expected[d].version] = expected[d].checksum
            /\ get'[d] = "done" => unpacked'[d] = expected[d].checksum
    BY <2>1, <2>3, <2>4, <2>5, <2>6 DEF ClientInv
  <2>11. \A d \in Client :
          get'[d] \in {"resolved", "opened", "checked", "verified", "done"} =>
              Described(expected[d])
    BY <2>2, <2>5 DEF ClientInv
  <2>12. QED
    BY <1>1, <2>1, <2>8, <2>9, <2>10, <2>11 DEF ClientInv
<1>5. QED
  BY <1>2, <1>3, <1>4 DEF ClientStep

LEMMA ClientsAlways ==
  ASSUME OneAtATime
  PROVE  PublishingSpec => [](RegistryInv /\ TarballInv /\ ClientInv)
<1> DEFINE Before == PackagingInv /\ AloneInv /\ RegistryInv
           Inv == TarballInv /\ ClientInv
<1>1. PublishingInit => Inv
  BY DEF PublishingInit, Init, TarballInv, ClientInv
<1>2. Before /\ Inv /\ [PublishingNext]_allVars => Inv'
  <2> SUFFICES ASSUME Before, Inv, [PublishingNext]_allVars PROVE Inv'
    OBVIOUS
  <2>1. ASSUME NEW p \in Process, PackageStep(p) PROVE Inv'
    <3>1. ClientSame
      BY <2>1 DEF PackageStep, OpenScratch, WriteArchive, JustPackage, newVars,
                  historyVars, registryVars, ClientSame
    <3>2. QED
      BY <2>1, <3>1, ClientRest, TarballPackaging
  <2>2. ASSUME NEW p \in Publisher, UploadStep(p) PROVE Inv'
    BY <2>2, TarballUpload, ClientUpload
  <2>3. ASSUME NEW c \in Client, ClientStep(c) PROVE Inv'
    <3>1. UNCHANGED <<vars, pkg, tarball, publicationVars>>
      BY <2>3
         DEF ClientStep, Resolve, OpenArchive, ReadRecordAgain, VerifyChecksum,
                  Unpack, GiveUp, RegistryUnchanged
    <3>2. TarballInv'
      BY <3>1 DEF TarballInv, vars, publicationVars
    <3>3. QED
      BY <2>3, <3>2, ClientFetches
  <2>4. CASE UNCHANGED allVars
    <3>1. ClientSame
      BY <2>4 DEF allVars, newVars, historyVars, registryVars, ClientSame
    <3>2. TarballInv'
      BY <2>4 DEF allVars, newVars, publicationVars, vars, TarballInv
    <3>3. QED
      BY <3>1, <3>2, ClientRest
  <2>5. QED
    BY <2>1, <2>2, <2>3, <2>4 DEF PublishingNext
<1>3. QED
  BY <1>1, <1>2, AloneAlways, PackagesTheSame, RegistryAlways, PTL
     DEF PublishingSpec

(* A dependency in a normalised manifest can be read, and comes from a     *)
(* registry, if it has a version.                                          *)
LEMMA NormalizedStandsAlone ==
  ASSUME NEW d, d.req # "any"
  PROVE  ~Unreadable(Normalized(d)) /\ IsRegistry(Dependency(Normalized(d)).source)
BY DEF Unreadable, Normalized, IsRegistry, Dependency, SourceOf

(* The tarball under the final name can be used anywhere: no dependency    *)
(* leads to a path or a repository of the author's machine.                *)
THEOREM TarballsStandAlone ==
  ASSUME OneAtATime
  PROVE  PublishingSpec => []ArchivesStandAlone
<1>1. TarballInv => ArchivesStandAlone
  <2> SUFFICES ASSUME TarballInv, final # NoFile,
                      NEW t \in tarball[final].manifest.dependencies
               PROVE  ~Unreadable(t) /\ IsRegistry(Dependency(t).source)
    BY DEF ArchivesStandAlone
  <2>1. PICK p \in Process : tarball[final] = Archive(pkg[p]) /\ Normalizable(pkg[p])
    BY DEF TarballInv
  <2>2. PICK d \in Dependencies(pkg[p].dependencies) : t = Normalized(d)
    BY <2>1 DEF Archive, ManifestOf
  <2>3. d.req # "any"
    BY <2>1, <2>2 DEF Normalizable
  <2>4. QED
    BY <2>2, <2>3, NormalizedStandsAlone
<1>2. QED
  BY <1>1, ClientsAlways, PTL

(* Whatever is published meanwhile, a command uses the sources that the    *)
(* record it resolved describes, with the dependencies the record says.    *)
THEOREM ClientsGetWhatIsRecorded ==
  ASSUME OneAtATime
  PROVE  PublishingSpec => []InstalledAsRecorded
<1>1. ClientInv => InstalledAsRecorded
  BY DEF ClientInv, Described, DependenciesIn, InstalledAsRecorded
<1>2. QED
  BY <1>1, ClientsAlways, PTL

-----------------------------------------------------------------------------
(* The manifest editor.  Its theorems follow from what a manifest on disk  *)
(* has in common with the one of the start, and with what was asked for.   *)

(* What is written is a manifest, and apart from its dependencies it is    *)
(* the one of the start, or an empty one.                                  *)
IsDocument(doc) ==
    DOMAIN doc = DOMAIN EmptyDocument /\ DOMAIN doc.dependencies = Section

LEMMA EmptyIsDocument ==
    IsDocument(EmptyDocument) /\ Rest(EmptyDocument) = EmptyDocument
BY DEF IsDocument, EmptyDocument, Rest

LEMMA GarbledIsDocument ==
    IsDocument(Garbled) /\ Rest(Garbled) = EmptyDocument
<1>1. "dependencies" \in Section
  BY DEF Section
<1>2. QED
  BY <1>1 DEF IsDocument, EmptyDocument, Rest, Garbled

LEMMA RestIs ==
  ASSUME NEW doc, IsDocument(doc)
  PROVE  \A f \in DOMAIN EmptyDocument : f # "dependencies" => Rest(doc)[f] = doc[f]
BY DEF IsDocument, Rest

LEMMA SameRest ==
  ASSUME NEW doc, NEW other, IsDocument(doc), IsDocument(other),
         Rest(doc) = Rest(other)
  PROVE  /\ doc.name = other.name /\ doc.workspace = other.workspace
         /\ doc.cairo = other.cairo /\ doc.profiles = other.profiles
<1>1. {"name", "workspace", "cairo", "profiles"} \subseteq DOMAIN EmptyDocument
  BY DEF EmptyDocument
<1>2. QED
  BY <1>1, RestIs

(* One entry of a table is taken away, or put in the place of another.     *)
Without(new, old, n) ==
    /\ DOMAIN new = DOMAIN old \ {n}
    /\ \A m \in DOMAIN new : new[m] = old[m]

With(new, old, n, value) ==
    /\ DOMAIN new = DOMAIN old \cup {n} /\ new[n] = value
    /\ \A m \in DOMAIN old : m # n => new[m] = old[m]

LEMMA OverlaidOne ==
  ASSUME NEW old, NEW n, NEW value
  PROVE  /\ With(Overlaid([m \in {n} |-> value], old), old, n, value)
         /\ Without([m \in DOMAIN old \ {n} |-> old[m]], old, n)
BY DEF With, Without, Overlaid

(* An edit that does not fail changes one entry of one table.              *)
Before(doc, edit) ==
    LET entries == doc.dependencies[edit.section]
    IN  IF edit.name \in DOMAIN entries THEN entries[edit.name] ELSE NewEntry

LEMMA EditedIs ==
  ASSUME NEW doc, IsDocument(doc), NEW edit, edit.section \in Section, NEW dir,
         Edited(doc, edit, dir) # Failed
  PROVE  /\ edit.op = "add" => ~Refused(edit.ask)
         /\ IsDocument(Edited(doc, edit, dir))
         /\ Rest(Edited(doc, edit, dir)) = Rest(doc)
         /\ \A s \in Section : s # edit.section =>
                Edited(doc, edit, dir).dependencies[s] = doc.dependencies[s]
         /\ edit.op = "remove" =>
                Without(Edited(doc, edit, dir).dependencies[edit.section],
                        doc.dependencies[edit.section], edit.name)
         /\ edit.op # "remove" =>
                With(Edited(doc, edit, dir).dependencies[edit.section],
                     doc.dependencies[edit.section], edit.name,
                     Upserted(Before(doc, edit), edit.ask, dir))
<1> DEFINE entries == doc.dependencies[edit.section]
           new == IF edit.op = "remove"
                  THEN [n \in DOMAIN entries \ {edit.name} |-> entries[n]]
                  ELSE Overlaid([n \in {edit.name} |->
                                    Upserted(Before(doc, edit), edit.ask, dir)],
                                entries)
<1>1. /\ Edited(doc, edit, dir) = [doc EXCEPT !.dependencies[edit.section] = new]
      /\ edit.op = "add" => ~Refused(edit.ask)
  BY DEF Edited, Before
<1>2. /\ edit.op = "remove" => Without(new, entries, edit.name)
      /\ edit.op # "remove" =>
             With(new, entries, edit.name, Upserted(Before(doc, edit), edit.ask, dir))
  BY OverlaidOne
<1> HIDE DEF new
<1>3. "dependencies" \in DOMAIN doc
  BY DEF IsDocument, EmptyDocument
<1>4. IsDocument(Edited(doc, edit, dir))
  BY <1>1, <1>3 DEF IsDocument
<1>5. Rest(Edited(doc, edit, dir)) = Rest(doc)
  BY <1>1, <1>3 DEF Rest
<1>6. /\ Edited(doc, edit, dir).dependencies[edit.section] = new
      /\ \A s \in Section : s # edit.section =>
             Edited(doc, edit, dir).dependencies[s] = doc.dependencies[s]
  BY <1>1, <1>3 DEF IsDocument
<1>7. QED
  BY <1>1, <1>2, <1>4, <1>5, <1>6

LEMMA EditedShape ==
  ASSUME NEW doc, IsDocument(doc), NEW edit, edit.section \in Section, NEW dir,
         Edited(doc, edit, dir) # Failed
  PROVE  /\ IsDocument(Edited(doc, edit, dir))
         /\ Rest(Edited(doc, edit, dir)) = Rest(doc)
BY EditedIs

-----------------------------------------------------------------------------
(* The least element of a set of numbers.                                  *)
LEMMA MinIsLeast ==
  ASSUME NEW S, S \subseteq Nat, S # {}
  PROVE  Min(S) \in S /\ \A n \in S : Min(S) <= n
<1> DEFINE R == OpToRel(<, Nat)
<1>1. \E least \in S : \A n \in S : ~(<<n, least>> \in R)
  BY NatLessThanWellFounded, WFMin
<1>2. \A n, m \in Nat : n < m => <<n, m>> \in R
  BY Zenon DEF OpToRel
<1> HIDE DEF R
<1>3. PICK least \in S : \A n \in S : ~(<<n, least>> \in R)
  BY <1>1
<1>4. ASSUME NEW n \in S PROVE least <= n
  <2>1. n \in Nat /\ least \in Nat
    OBVIOUS
  <2>2. ~(n < least)
    BY <1>2, <1>3, <2>1, Zenon
  <2>3. QED
    BY <2>1, <2>2
<1>5. QED
  BY <1>4 DEF Min

(* find_workspace_manifest_path finds a readable workspace that is there,  *)
(* and there is none on the way to it.                                     *)
LEMMA Located ==
  ASSUME NEW doc, NEW dir, NEW there, there = Locate(doc, dir),
         Len(dir) \in Nat
  PROVE  \/ there = Failed
         \/ /\ there = Absent
            /\ \A n \in 0 .. Len(dir) :
                   Up(dir, n) \in DOMAIN doc => doc[Up(dir, n)].workspace = Absent
         \/ \E n \in 0 .. Len(dir) :
               /\ there = Up(dir, n) /\ there \in DOMAIN doc
               /\ doc[there].workspace # Absent
               /\ \A m \in 0 .. n - 1 :
                     Up(dir, m) \in DOMAIN doc => doc[Up(dir, m)].workspace = Absent
<1> DEFINE Stop(n) == /\ Up(dir, n) \in DOMAIN doc
                      /\ \/ doc[Up(dir, n)].workspace # Absent
                         \/ ~Parses(doc[Up(dir, n)])
           stops == {n \in 0 .. Len(dir) : Stop(n)}
<1>1. there = IF stops = {} THEN Absent
              ELSE IF Parses(doc[Up(dir, Min(stops))]) THEN Up(dir, Min(stops))
              ELSE Failed
  BY DEF Locate
<1>2. CASE stops = {}
  BY <1>1, <1>2
<1>3. CASE stops # {}
  <2>1. Min(stops) \in stops /\ \A n \in stops : Min(stops) <= n
    <3>1. stops \subseteq Nat
      OBVIOUS
    <3> HIDE DEF stops
    <3>2. QED
      BY <1>3, <3>1, MinIsLeast
  <2>2. \A m \in 0 .. Min(stops) - 1 : ~Stop(m)
    <3>1. stops \subseteq Nat /\ Min(stops) \in 0 .. Len(dir)
      BY <2>1
    <3>2. \A m \in 0 .. Min(stops) - 1 : m \in 0 .. Len(dir) /\ ~(Min(stops) <= m)
      BY <3>1
    <3>3. QED
      BY <2>1, <3>2
  <2>3. QED
    BY <1>1, <1>3, <2>1, <2>2
<1>4. QED
  BY <1>2, <1>3

(* What has been read of a workspace, if reading it succeeds.              *)
MembersIn(doc, root) ==
    MemberPaths(doc, root, IF doc[root].workspace = Absent THEN {}
                           ELSE doc[root].workspace.members)
        \cup (IF doc[root].name # Absent THEN {root} ELSE {})

LEMMA RootRead ==
  ASSUME NEW doc, NEW root, NEW profile, NEW read,
         read = ReadRoot(doc, root, profile), read # Failed
  PROVE  /\ read.root = root /\ DOMAIN read.packages = MembersIn(doc, root)
         /\ doc[root].name # Absent \/ doc[root].workspace # Absent
         /\ \A d \in DOMAIN read.packages :
               /\ Parses(doc[d])
               /\ read.packages[d] = PackageOf(doc[d], doc[root], d, root, profile)
               /\ read.packages[d] # Failed
<1> DEFINE members == MembersIn(doc, root)
           packages == [d \in members |->
                           IF Parses(doc[d])
                           THEN PackageOf(doc[d], doc[root], d, root, profile)
                           ELSE Failed]
<1>1. /\ read = [root |-> root, packages |-> packages]
      /\ doc[root].name # Absent \/ doc[root].workspace # Absent
      /\ Failed \notin Range(packages)
  BY DEF ReadRoot, MembersIn
<1>2. \A d \in members : packages[d] # Failed
  <2> HIDE DEF members
  <2>1. QED
    BY <1>1 DEF Range
<1> HIDE DEF members
<1>3. QED
  BY <1>1, <1>2 DEF members

LEMMA PackageIs ==
  ASSUME NEW doc, NEW rootDoc, NEW dir, NEW root, NEW profile, NEW read,
         read = PackageOf(doc, rootDoc, dir, root, profile), read # Failed
  PROVE  /\ doc.name # Absent
         /\ read.dependencies = DependenciesOf(doc, rootDoc, dir, root)
         /\ read.settings = SettingsOf(rootDoc, profile)
         /\ \A s \in Section : \A n \in DOMAIN doc.dependencies[s] :
               /\ read.dependencies[s][n] =
                      DependencyOf(doc.dependencies[s][n],
                                   WorkspaceOf(doc, rootDoc).dependencies, n, dir, root)
               /\ read.dependencies[s][n] # Failed
<1> DEFINE all == DependenciesOf(doc, rootDoc, dir, root)
<1>1. /\ doc.name # Absent
      /\ read.dependencies = all
      /\ read.settings = SettingsOf(rootDoc, profile)
      /\ \A s \in Section : Failed \notin Range(all[s])
  <2> HIDE DEF all
  <2>1. PackageOf(doc, rootDoc, dir, root, profile) # Failed
    OBVIOUS
  <2>2. QED
    BY <2>1 DEF PackageOf, all
<1>2. \A s \in Section : \A n \in DOMAIN doc.dependencies[s] :
         all[s][n] = DependencyOf(doc.dependencies[s][n],
                                  WorkspaceOf(doc, rootDoc).dependencies, n, dir, root)
  BY DEF DependenciesOf
<1>3. \A s \in Section : DOMAIN all[s] = DOMAIN doc.dependencies[s]
  BY DEF DependenciesOf
<1> HIDE DEF all
<1>4. ASSUME NEW s \in Section, NEW n \in DOMAIN doc.dependencies[s]
      PROVE  all[s][n] # Failed
  <2>1. all[s][n] \in Range(all[s])
    BY <1>3 DEF Range
  <2>2. QED
    BY <1>1, <2>1
<1>5. \A s \in Section : \A n \in DOMAIN doc.dependencies[s] :
         /\ read.dependencies[s][n] =
                DependencyOf(doc.dependencies[s][n],
                             WorkspaceOf(doc, rootDoc).dependencies, n, dir, root)
         /\ read.dependencies[s][n] # Failed
  BY <1>1, <1>2, <1>4, Zenon
<1>6. QED
  BY <1>1, <1>5 DEF all

LEMMA WorkspaceRead ==
  ASSUME NEW doc, NEW dir, NEW there, NEW profile, NEW read,
         read = ReadWorkspace(doc, dir, there, profile), read # Failed
  PROVE  /\ there # Failed /\ dir \in DOMAIN doc
         /\ \/ there = Absent /\ read = ReadRoot(doc, dir, profile)
            \/ /\ there # Absent /\ read = ReadRoot(doc, there, profile)
               /\ there = dir \/ dir \in DOMAIN read.packages
            \/ /\ there # Absent /\ there # dir
               /\ ReadRoot(doc, there, profile) # Failed
               /\ dir \notin DOMAIN ReadRoot(doc, there, profile).packages
               /\ read = ReadRoot(doc, dir, profile)
BY DEF ReadWorkspace

LEMMA OneMatched ==
  ASSUME NEW read, NEW dir, NEW name, MatchOne(read, dir, name) # Failed
  PROVE  MatchOne(read, dir, name) \in DOMAIN read.packages
<1> DEFINE members == DOMAIN read.packages
           named == {d \in members : read.packages[d].name = name}
<1>1. ASSUME NEW S, S \subseteq members, Cardinality(S) = 1
      PROVE  (CHOOSE d \in S : TRUE) \in members
  <2>1. S # {}
    BY <1>1, FS_EmptySet
  <2>2. QED
    BY <1>1, <2>1
<1>2. CASE name # Absent
  BY <1>1, <1>2 DEF MatchOne
<1>3. CASE name = Absent
  BY <1>1, <1>3 DEF MatchOne
<1>4. QED
  BY <1>2, <1>3

LEMMA MembersAreThere ==
  ASSUME NEW doc, NEW root \in DOMAIN doc
  PROVE  MembersIn(doc, root) \subseteq DOMAIN doc
BY DEF MembersIn, MemberPaths

-----------------------------------------------------------------------------
EditType ==
    /\ EditorTypeOK
    /\ DOMAIN ws = Command /\ DOMAIN draft = Command
    /\ \A d \in DOMAIN Original :
           /\ IsDocument(disk[d])
           /\ Rest(disk[d]) \in {Rest(Original[d]), EmptyDocument}
           /\ DOMAIN agreed[d] = Section
    /\ \A c \in Command :
           /\ at[c] \in {"read", "write", "truncated"} =>
                  target[c] \in DOMAIN Original /\ call[c].op # "none"
           /\ at[c] \in {"write", "truncated"} =>
                  /\ IsDocument(draft[c])
                  /\ Rest(draft[c]) \in {Rest(Original[target[c]]), EmptyDocument}

LEMMA EditTypeInit == EditorInit => EditType
<1> SUFFICES ASSUME EditorInit PROVE EditType
  OBVIOUS
<1>1. EditorTypeOK
  BY EditorAssumption DEF EditorInit, EditorTypeOK, At
<1>2. \A d \in DOMAIN Original : IsDocument(Original[d]) /\ DOMAIN agreed[d] = Section
  BY EditorAssumption DEF EditorInit, IsDocument, MeaningOf
<1>3. QED
  BY <1>1, <1>2 DEF EditType, EditorInit

(* What the workspace of a command contains is there.                      *)
LEMMA ReadIsThere ==
  ASSUME EditType, NEW c \in Command, NEW read, read # Failed,
         read = ReadWorkspace(disk, call[c].dir, found[c], call[c].profile)
  PROVE  DOMAIN read.packages \subseteq DOMAIN Original
<1>1. /\ DOMAIN disk = DOMAIN Original
      /\ found[c] \in DOMAIN Original \cup {Absent, Failed}
  BY DEF EditType, EditorTypeOK
<1>2. PICK root \in DOMAIN disk : read = ReadRoot(disk, root, call[c].profile)
  BY <1>1, WorkspaceRead
<1>3. QED
  BY <1>1, <1>2, RootRead, MembersAreThere

LEMMA CallIsKnown ==
  ASSUME EditType, NEW c \in Command
  PROVE  /\ call[c].dir \in Directory /\ call[c].section \in Section
         /\ DOMAIN call[c].ask \subseteq {"version"} \cup SourceKeys
BY EditorAssumption DEF EditType, EditorTypeOK

LEMMA EditTypeStep ==
  ASSUME EditType, [EditorNext]_editVars
  PROVE  EditType'
<1>1. CASE UNCHANGED editVars
  BY <1>1 DEF EditType, EditorTypeOK, editVars
<1>2. ASSUME NEW c \in Command, LocateWorkspace(c) PROVE EditType'
  <2>1. Len(call[c].dir) \in Nat
    BY CallIsKnown, EditorAssumption
  <2>2. Locate(disk, call[c].dir) \in DOMAIN Original \cup {Absent, Failed}
    BY <2>1, Located DEF EditType, EditorTypeOK
  <2>3. EditorTypeOK'
    BY <1>2, <2>2 DEF LocateWorkspace, EditType, EditorTypeOK, Proceed, At
  <2>4. QED
    BY <1>2, <2>3 DEF LocateWorkspace, EditType, EditorTypeOK, Proceed
<1>3. ASSUME NEW c \in Command, LoadWorkspace(c) PROVE EditType'
  <2> DEFINE read == ReadWorkspace(disk, call[c].dir, found[c], call[c].profile)
             one == MatchOne(read, call[c].dir, call[c].package)
  <2>1. read # Failed => DOMAIN read.packages \subseteq DOMAIN Original
    BY ReadIsThere
  <2>2. read # Failed /\ one # Failed => one \in DOMAIN Original
    BY <2>1, OneMatched
  <2>3. \/ UNCHANGED <<ws, target>> /\ Proceed(c, "failed")
        \/ /\ ws' = [ws EXCEPT ![c] = read]
           /\ \/ Proceed(c, "done") /\ UNCHANGED target
              \/ /\ target' = [target EXCEPT ![c] = one]
                 /\ one = Failed /\ Proceed(c, "failed")
              \/ /\ target' = [target EXCEPT ![c] = one] /\ call[c].op # "none"
                 /\ one \in DOMAIN Original /\ Proceed(c, "read")
    BY <1>3, <2>2 DEF LoadWorkspace
  <2>4. UNCHANGED <<disk, call, found, draft, cuts, agreed, clobbered, misled>>
    BY <1>3 DEF LoadWorkspace
  <2> HIDE DEF read, one
  <2>5. EditorTypeOK'
    BY <2>3, <2>4, ZenonT(30) DEF EditType, EditorTypeOK, Proceed, At
  <2>6. QED
    BY <2>3, <2>4, <2>5 DEF EditType, EditorTypeOK, Proceed
<1>4. ASSUME NEW c \in Command, ReadAndEdit(c) PROVE EditType'
  <2> DEFINE doc == disk[target[c]]
             new == Edited(doc, call[c], target[c])
  <2>1. target[c] \in DOMAIN Original /\ IsDocument(doc)
    BY <1>4 DEF ReadAndEdit, EditType
  <2>2. new # Failed => IsDocument(new) /\ Rest(new) = Rest(doc)
    <3>1. PICK edit : edit = call[c] /\ edit.section \in Section
      BY CallIsKnown
    <3>2. PICK dir : dir = target[c]
      OBVIOUS
    <3>3. Edited(doc, edit, dir) # Failed =>
             IsDocument(Edited(doc, edit, dir)) /\ Rest(Edited(doc, edit, dir)) = Rest(doc)
      BY <2>1, <3>1, EditedShape
    <3>4. QED
      BY <3>1, <3>2, <3>3
  <2>3. \/ draft' = draft /\ \E next \in {"panicked", "failed"} : Proceed(c, next)
        \/ /\ new # Failed /\ draft' = [draft EXCEPT ![c] = new]
           /\ \E next \in {"done", "locate again", "write"} : Proceed(c, next)
    BY <1>4 DEF ReadAndEdit
  <2>4. /\ UNCHANGED <<disk, call, found, ws, target, cuts, agreed, misled>>
        /\ clobbered' \in {clobbered, clobbered \cup {target[c]}}
    BY <1>4 DEF ReadAndEdit
  <2>5. Rest(doc) \in {Rest(Original[target[c]]), EmptyDocument}
    BY <2>1 DEF EditType
  <2> HIDE DEF doc, new
  <2>6. EditorTypeOK'
    BY <2>1, <2>3, <2>4 DEF EditType, EditorTypeOK, Proceed, At
  <2>7. /\ DOMAIN ws' = Command /\ DOMAIN draft' = Command
        /\ \A b \in Command \ {c} : at'[b] = at[b] /\ draft'[b] = draft[b]
        /\ at'[c] \in {"read", "write", "truncated"} =>
               at'[c] = "write" /\ new # Failed /\ draft'[c] = new
    BY <2>3, <2>4 DEF EditType, EditorTypeOK, Proceed
  <2>8. at[c] = "read"
    BY <1>4 DEF ReadAndEdit
  <2>9. ASSUME NEW b \in Command
        PROVE  /\ at'[b] \in {"read", "write", "truncated"} =>
                      target[b] \in DOMAIN Original /\ call[b].op # "none"
               /\ at'[b] \in {"write", "truncated"} =>
                      /\ IsDocument(draft'[b])
                      /\ Rest(draft'[b]) \in {Rest(Original[target[b]]), EmptyDocument}
    <3>1. CASE b = c
      BY <2>1, <2>2, <2>5, <2>7, <2>8, <3>1 DEF EditType
    <3>2. CASE b # c
      BY <2>7, <3>2 DEF EditType
    <3>3. QED
      BY <3>1, <3>2
  <2>10. QED
    BY <2>4, <2>6, <2>7, <2>9 DEF EditType
<1>5. ASSUME NEW c \in Command, Truncate(c) PROVE EditType'
  <2>1. target[c] \in DOMAIN Original
    BY <1>5 DEF Truncate, EditType
  <2>2. /\ UNCHANGED <<call, found, ws, target, draft, cuts, agreed, misled>>
        /\ clobbered' \in {clobbered, clobbered \cup {target[c]}}
        /\ disk' = [disk EXCEPT ![target[c]] = EmptyDocument]
        /\ at[c] = "write" /\ Proceed(c, "truncated")
    BY <1>5 DEF Truncate, workVars
  <2>3. EditorTypeOK'
    BY <2>1, <2>2 DEF EditType, EditorTypeOK, Proceed, At
  <2>4. QED
    BY <2>1, <2>2, <2>3, EmptyIsDocument DEF EditType, EditorTypeOK, Proceed
<1>6. ASSUME NEW c \in Command, Write(c) PROVE EditType'
  <2>1. PICK text \in {draft[c], Garbled} : disk' = [disk EXCEPT ![target[c]] = text]
    BY <1>6 DEF Write
  <2>2. target[c] \in DOMAIN Original
    BY <1>6 DEF Write, EditType
  <2>3. IsDocument(text) /\ Rest(text) \in {Rest(Original[target[c]]), EmptyDocument}
    BY <1>6, GarbledIsDocument DEF Write, EditType
  <2>4. /\ UNCHANGED <<call, found, ws, target, draft, cuts, clobbered, misled>>
        /\ agreed' = AgreedAfter(c) /\ Proceed(c, "locate again")
    BY <1>6 DEF Write, workVars
  <2>5. /\ DOMAIN agreed' = DOMAIN agreed
        /\ \A d \in DOMAIN Original : DOMAIN agreed'[d] = DOMAIN agreed[d]
    BY <2>4 DEF AgreedAfter, EditType, EditorTypeOK
  <2>6. EditorTypeOK'
    BY <2>1, <2>2, <2>4, <2>5 DEF EditType, EditorTypeOK, Proceed, At
  <2>7. QED
    BY <2>1, <2>2, <2>3, <2>4, <2>5, <2>6 DEF EditType, EditorTypeOK, Proceed
<1>7. ASSUME NEW c \in Command, CutWrite(c) PROVE EditType'
  <2>1. target[c] \in DOMAIN Original /\ cuts \in Nat /\ MaxCuts \in Nat
    BY <1>7, EditorAssumption DEF CutWrite, EditType, EditorTypeOK
  <2>2. /\ UNCHANGED <<disk, call, found, ws, target, draft, agreed, misled>>
        /\ clobbered' = clobbered \cup {target[c]} /\ Proceed(c, "failed")
        /\ cuts' = cuts + 1 /\ cuts < MaxCuts
    BY <1>7 DEF CutWrite, workVars
  <2>3. cuts' \in 0 .. MaxCuts
    BY <2>1, <2>2
  <2>4. EditorTypeOK'
    BY <2>1, <2>2, <2>3 DEF EditType, EditorTypeOK, Proceed, At
  <2>5. QED
    BY <2>1, <2>2, <2>4 DEF EditType, EditorTypeOK, Proceed
<1>8. QED
  BY <1>1, <1>2, <1>3, <1>4, <1>5, <1>6, <1>7 DEF EditorNext, EditorStep

(* The variables of the editor keep their types: what a command edits is   *)
(* a package that is there, and what it has found is a directory with a    *)
(* manifest, none, or an error.                                            *)
THEOREM EditorTypeCorrect == EditorSpec => []EditorTypeOK
<1>1. EditType => EditorTypeOK
  BY DEF EditType
<1>2. QED
  BY <1>1, EditTypeInit, EditTypeStep, PTL DEF EditorSpec

-----------------------------------------------------------------------------
(* What the edits have asked for is a dependency, one that inherits, or an *)
(* error that was there at the start.                                      *)
AgreedShape ==
    \A d \in DOMAIN Original : \A s \in Section : \A n \in DOMAIN agreed[d][s] :
        DOMAIN agreed[d][s][n] \in {{"workspace", "features"}, {"error"}, DOMAIN Unasked}

(* What an edit makes of what was agreed.                                  *)
OwnBefore(c) ==
    LET old == agreed[target[c]][call[c].section]
        n == call[c].name
    IN  IF n \in DOMAIN old /\ "source" \in DOMAIN old[n] THEN old[n] ELSE Unasked

LEMMA AgreedIs ==
  ASSUME EditType, NEW c \in Command, target[c] \in DOMAIN Original,
         NEW d \in DOMAIN Original, NEW s \in Section
  PROVE  /\ d # target[c] \/ s # call[c].section => AgreedAfter(c)[d][s] = agreed[d][s]
         /\ d = target[c] /\ s = call[c].section /\ call[c].op = "remove" =>
                Without(AgreedAfter(c)[d][s], agreed[d][s], call[c].name)
         /\ d = target[c] /\ s = call[c].section /\ call[c].op # "remove" =>
                With(AgreedAfter(c)[d][s], agreed[d][s], call[c].name,
                     Asked(call[c].ask, OwnBefore(c)))
<1>1. DOMAIN agreed = DOMAIN Original /\ DOMAIN agreed[target[c]] = Section
  BY DEF EditType, EditorTypeOK
<1>2. call[c].section \in Section
  BY CallIsKnown
<1> DEFINE old == agreed[target[c]][call[c].section]
           new == IF call[c].op = "remove"
                  THEN [m \in DOMAIN old \ {call[c].name} |-> old[m]]
                  ELSE Overlaid([m \in {call[c].name} |-> Asked(call[c].ask, OwnBefore(c))],
                                old)
<1>3. AgreedAfter(c) = [agreed EXCEPT ![target[c]][call[c].section] = new]
  BY DEF AgreedAfter, OwnBefore
<1>4. /\ call[c].op = "remove" => Without(new, old, call[c].name)
      /\ call[c].op # "remove" =>
             With(new, old, call[c].name, Asked(call[c].ask, OwnBefore(c)))
  BY OverlaidOne
<1> HIDE DEF new
<1>5. /\ d # target[c] \/ s # call[c].section => AgreedAfter(c)[d][s] = agreed[d][s]
      /\ d = target[c] /\ s = call[c].section => AgreedAfter(c)[d][s] = new
  BY <1>1, <1>2, <1>3
<1>6. QED
  BY <1>4, <1>5

LEMMA OwnIsDependency ==
  ASSUME EditType, AgreedShape, NEW c \in Command, target[c] \in DOMAIN Original
  PROVE  DOMAIN OwnBefore(c) = DOMAIN Unasked
<1>1. call[c].section \in Section
  BY CallIsKnown
<1>2. QED
  BY <1>1 DEF AgreedShape, OwnBefore, Unasked

LEMMA AskedIsDependency ==
  ASSUME NEW ask, NEW old, DOMAIN old = DOMAIN Unasked
  PROVE  DOMAIN Asked(ask, old) = DOMAIN Unasked
BY DEF Asked

(* One entry changes, which does not inherit afterwards.                   *)
LEMMA AgreedStep ==
  ASSUME EditType, AgreedShape, NEW c \in Command, target[c] \in DOMAIN Original,
         NEW d \in DOMAIN Original, NEW s \in Section
  PROVE  /\ \A n \in DOMAIN AgreedAfter(c)[d][s] :
               \/ n \in DOMAIN agreed[d][s] /\ AgreedAfter(c)[d][s][n] = agreed[d][s][n]
               \/ DOMAIN AgreedAfter(c)[d][s][n] = DOMAIN Unasked
         /\ d = target[c] /\ s = call[c].section /\ call[c].name \in DOMAIN AgreedAfter(c)[d][s]
            => DOMAIN AgreedAfter(c)[d][s][call[c].name] = DOMAIN Unasked
<1> DEFINE asked == Asked(call[c].ask, OwnBefore(c))
           n == call[c].name
<1>1. DOMAIN asked = DOMAIN Unasked
  BY OwnIsDependency, AskedIsDependency
<1> HIDE DEF asked
<1>2. CASE d # target[c] \/ s # call[c].section
  <2>1. AgreedAfter(c)[d][s] = agreed[d][s]
    BY <1>2, AgreedIs
  <2>2. QED
    BY <1>2, <2>1
<1>3. CASE d = target[c] /\ s = call[c].section /\ call[c].op = "remove"
  <2>1. Without(AgreedAfter(c)[d][s], agreed[d][s], n)
    BY <1>3, AgreedIs
  <2>2. QED
    BY <1>3, <2>1 DEF Without
<1>4. CASE d = target[c] /\ s = call[c].section /\ call[c].op # "remove"
  <2>1. With(AgreedAfter(c)[d][s], agreed[d][s], n, asked)
    BY <1>4, AgreedIs DEF asked
  <2>2. QED
    BY <1>1, <1>4, <2>1 DEF With
<1>5. QED
  BY <1>2, <1>3, <1>4

LEMMA MeaningShape ==
  ASSUME NEW entry, NEW dir
  PROVE  \/ /\ Inherits(entry)
            /\ DOMAIN Meaning(entry, dir) = {"workspace", "features"}
         \/ /\ ~Inherits(entry) /\ NoSource(entry.keys, dir)
            /\ DOMAIN Meaning(entry, dir) = {"error"}
         \/ /\ ~Inherits(entry) /\ ~NoSource(entry.keys, dir)
            /\ DOMAIN Meaning(entry, dir) = DOMAIN Unasked
<1>1. CASE Inherits(entry)
  BY <1>1 DEF Meaning
<1>2. CASE ~Inherits(entry) /\ NoSource(entry.keys, dir)
  BY <1>2 DEF Meaning
<1>3. CASE ~Inherits(entry) /\ ~NoSource(entry.keys, dir)
  <2>1. DOMAIN ToDependency(entry.keys, dir) = {"source", "version", "features", "default"}
    BY <1>3 DEF ToDependency
  <2>2. QED
    BY <1>3, <2>1 DEF Meaning, Overlaid, Unasked
<1>4. QED
  BY <1>1, <1>2, <1>3

LEMMA AgreedShapeInit == EditorInit => AgreedShape
<1> SUFFICES ASSUME EditorInit, NEW d \in DOMAIN Original, NEW s \in Section,
                    NEW n \in DOMAIN agreed[d][s]
             PROVE  DOMAIN agreed[d][s][n]
                        \in {{"workspace", "features"}, {"error"}, DOMAIN Unasked}
  BY DEF AgreedShape
<1>1. agreed[d][s][n] = Meaning(Original[d].dependencies[s][n], d)
  BY DEF EditorInit, MeaningOf
<1>2. QED
  BY <1>1, MeaningShape

LEMMA AgreedShapeStep ==
  ASSUME EditType, AgreedShape, [EditorNext]_editVars PROVE AgreedShape'
<1>1. CASE agreed' = agreed
  BY <1>1 DEF AgreedShape
<1>2. ASSUME NEW c \in Command, agreed' = AgreedAfter(c), at[c] = "truncated"
      PROVE  AgreedShape'
  <2>1. target[c] \in DOMAIN Original
    BY <1>2 DEF EditType
  <2>2. ASSUME NEW d \in DOMAIN Original, NEW s \in Section, NEW n \in DOMAIN agreed'[d][s]
        PROVE  DOMAIN agreed'[d][s][n] \in {{"workspace", "features"}, {"error"}, DOMAIN Unasked}
    <3>1. \/ n \in DOMAIN agreed[d][s] /\ agreed'[d][s][n] = agreed[d][s][n]
          \/ DOMAIN agreed'[d][s][n] = DOMAIN Unasked
      BY <1>2, <2>1, <2>2, AgreedStep
    <3>2. QED
      BY <3>1 DEF AgreedShape
  <2>3. QED
    BY <2>2 DEF AgreedShape
<1>3. QED
  BY <1>1, <1>2
     DEF EditorNext, EditorStep, LocateWorkspace, LoadWorkspace, ReadAndEdit,
     Truncate, Write, CutWrite, editVars

LEMMA FewerInherit ==
  ASSUME EditType, AgreedShape, [EditorNext]_editVars,
         NEW d \in DOMAIN Original, NEW s \in Section
  PROVE  InheritedBy(d, s)' \subseteq InheritedBy(d, s)
<1>1. CASE agreed' = agreed
  BY <1>1 DEF InheritedBy
<1>2. ASSUME NEW c \in Command, agreed' = AgreedAfter(c), at[c] = "truncated"
      PROVE  InheritedBy(d, s)' \subseteq InheritedBy(d, s)
  <2>1. target[c] \in DOMAIN Original
    BY <1>2 DEF EditType
  <2>2. \A n \in DOMAIN agreed'[d][s] :
           \/ n \in DOMAIN agreed[d][s] /\ agreed'[d][s][n] = agreed[d][s][n]
           \/ DOMAIN agreed'[d][s][n] = DOMAIN Unasked
    BY <1>2, <2>1, AgreedStep
  <2>3. QED
    BY <2>2 DEF InheritedBy, Unasked
<1>3. QED
  BY <1>1, <1>2
     DEF EditorNext, EditorStep, LocateWorkspace, LoadWorkspace, ReadAndEdit,
     Truncate, Write, CutWrite, editVars

-----------------------------------------------------------------------------
(* An entry that still inherits was there at the start, and nothing has    *)
(* changed it; a draft that would change it is that of its own edit.       *)
InheritsAsBefore(doc, d, s, n) ==
    doc.name # Absent =>
        /\ n \in DOMAIN doc.dependencies[s]
        /\ doc.dependencies[s][n] = Original[d].dependencies[s][n]

InheritedKept ==
    /\ \A d \in DOMAIN Original : \A s \in Section : \A n \in InheritedBy(d, s) :
           /\ Inherits(Original[d].dependencies[s][n])
           /\ InheritsAsBefore(disk[d], d, s, n)
    /\ \A c \in {b \in Command : at[b] \in {"write", "truncated"}} : \A s \in Section :
           \A n \in InheritedBy(target[c], s) :
               \/ s = call[c].section /\ n = call[c].name
               \/ InheritsAsBefore(draft[c], target[c], s, n)

LEMMA InheritedKeptInit == EditorInit => InheritedKept
<1> SUFFICES ASSUME EditorInit PROVE InheritedKept
  OBVIOUS
<1>1. ASSUME NEW d \in DOMAIN Original, NEW s \in Section, NEW n \in InheritedBy(d, s)
      PROVE  /\ n \in DOMAIN Original[d].dependencies[s]
             /\ Inherits(Original[d].dependencies[s][n])
  <2>1. n \in DOMAIN agreed[d][s] /\ "workspace" \in DOMAIN agreed[d][s][n]
    BY <1>1 DEF InheritedBy
  <2>2. agreed[d][s] = [m \in DOMAIN Original[d].dependencies[s] |->
                           Meaning(Original[d].dependencies[s][m], d)]
    BY <1>1 DEF EditorInit, MeaningOf
  <2>3. "workspace" \in DOMAIN Meaning(Original[d].dependencies[s][n], d)
    BY <2>1, <2>2
  <2>4. Inherits(Original[d].dependencies[s][n])
    BY <2>3, MeaningShape DEF Unasked
  <2>5. QED
    BY <2>1, <2>2, <2>4
<1>2. disk = Original /\ \A c \in Command : at[c] = "locate"
  BY DEF EditorInit
<1>3. \A d, s, n : n \in DOMAIN Original[d].dependencies[s] => InheritsAsBefore(Original[d], d, s, n)
  BY DEF InheritsAsBefore
<1>4. QED
  BY <1>1, <1>2, <1>3 DEF InheritedKept

LEMMA InheritedKeptStep ==
  ASSUME EditType, EditType', AgreedShape, InheritedKept, [EditorNext]_editVars
  PROVE  InheritedKept'
<1>0. \A d \in DOMAIN Original : \A s \in Section : InheritedBy(d, s)' \subseteq InheritedBy(d, s)
  BY FewerInherit
<1>a. \A c \in Command : at[c] \in {"write", "truncated"} => target[c] \in DOMAIN Original
  BY DEF EditType
<1>1. ASSUME UNCHANGED <<disk, call>>,
             \A c \in Command : at'[c] \in {"write", "truncated"} =>
                 /\ at[c] \in {"write", "truncated"}
                 /\ target'[c] = target[c] /\ draft'[c] = draft[c]
      PROVE  InheritedKept'
  BY <1>0, <1>1, <1>a DEF InheritedKept, InheritsAsBefore
<1>2. ASSUME NEW c \in Command, ReadAndEdit(c) PROVE InheritedKept'
  <2> DEFINE doc == disk[target[c]]
             new == Edited(doc, call[c], target[c])
  <2>1. target[c] \in DOMAIN Original /\ IsDocument(doc) /\ call[c].section \in Section
    BY <1>2, CallIsKnown DEF ReadAndEdit, EditType
  <2>2. /\ UNCHANGED <<disk, call, found, ws, target, agreed>>
        /\ \A e \in Command \ {c} : at'[e] = at[e] /\ draft'[e] = draft[e]
        /\ at'[c] \in {"write", "truncated"} => new # Failed /\ draft'[c] = new
    <3>1. \/ at'[c] \notin {"write", "truncated"}
          \/ new # Failed /\ draft' = [draft EXCEPT ![c] = new]
      BY <1>2 DEF ReadAndEdit, Proceed, EditType, EditorTypeOK
    <3>2. /\ UNCHANGED <<disk, call, found, ws, target, agreed>>
          /\ \A e \in Command \ {c} : at'[e] = at[e] /\ draft'[e] = draft[e]
      BY <1>2 DEF ReadAndEdit, Proceed, EditType, EditorTypeOK
    <3>3. QED
      BY <3>1, <3>2 DEF EditType
  <2>3. new # Failed => \A s \in Section : \A n \in InheritedBy(target[c], s) :
           \/ s = call[c].section /\ n = call[c].name
           \/ InheritsAsBefore(new, target[c], s, n)
    <3> SUFFICES ASSUME new # Failed, NEW s \in Section, NEW n \in InheritedBy(target[c], s),
                        s # call[c].section \/ n # call[c].name, new.name # Absent
                 PROVE  /\ n \in DOMAIN new.dependencies[s]
                        /\ new.dependencies[s][n] = Original[target[c]].dependencies[s][n]
      BY DEF InheritsAsBefore
    <3>1. /\ IsDocument(new) /\ Rest(new) = Rest(doc)
          /\ s # call[c].section => new.dependencies[s] = doc.dependencies[s]
          /\ s = call[c].section =>
                 \/ Without(new.dependencies[s], doc.dependencies[s], call[c].name)
                 \/ \E x : With(new.dependencies[s], doc.dependencies[s], call[c].name, x)
      <4>1. PICK edit : edit = call[c] /\ edit.section \in Section
        BY <2>1
      <4>2. PICK dir : dir = target[c]
        OBVIOUS
      <4>3. new = Edited(doc, edit, dir) /\ Edited(doc, edit, dir) # Failed
        BY <4>1, <4>2
      <4> HIDE DEF doc, new
      <4>4. /\ IsDocument(new) /\ Rest(new) = Rest(doc)
            /\ s # edit.section => new.dependencies[s] = doc.dependencies[s]
            /\ s = edit.section =>
                   \/ Without(new.dependencies[s], doc.dependencies[s], edit.name)
                   \/ \E x : With(new.dependencies[s], doc.dependencies[s], edit.name, x)
        BY <2>1, <4>1, <4>3, EditedIs
      <4>5. QED
        BY <4>1, <4>4
    <3>2. doc.name # Absent
      BY <2>1, <3>1, SameRest
    <3>3. /\ n \in DOMAIN doc.dependencies[s]
          /\ doc.dependencies[s][n] = Original[target[c]].dependencies[s][n]
      BY <2>1, <3>2 DEF InheritedKept, InheritsAsBefore
    <3> HIDE DEF doc, new
    <3>4. QED
      BY <3>1, <3>3 DEF With, Without
  <2> HIDE DEF doc, new
  <2>4. QED
    BY <1>0, <1>a, <2>1, <2>2, <2>3
       DEF InheritedKept, InheritsAsBefore, InheritedBy
<1>3. ASSUME NEW c \in Command, Truncate(c) PROVE InheritedKept'
  <2>1. target[c] \in DOMAIN Original
    BY <1>3 DEF Truncate, EditType
  <2>2. /\ UNCHANGED <<call, target, draft, agreed>>
        /\ disk' = [disk EXCEPT ![target[c]] = EmptyDocument]
        /\ \A e \in Command : at'[e] \in {"write", "truncated"} => at[e] \in {"write", "truncated"}
    BY <1>3 DEF Truncate, workVars, Proceed, EditType, EditorTypeOK
  <2>3. EmptyDocument.name = Absent
    BY DEF EmptyDocument
  <2>4. DOMAIN disk = DOMAIN Original
    BY DEF EditType, EditorTypeOK
  <2>5. \A d \in DOMAIN Original : disk'[d] = disk[d] \/ disk'[d].name = Absent
    BY <2>1, <2>2, <2>3, <2>4
  <2>6. QED
    BY <1>a, <2>2, <2>5 DEF InheritedKept, InheritsAsBefore, InheritedBy
<1>4. ASSUME NEW c \in Command, Write(c) PROVE InheritedKept'
  <2>1. PICK text \in {draft[c], Garbled} : disk' = [disk EXCEPT ![target[c]] = text]
    BY <1>4 DEF Write
  <2>2. target[c] \in DOMAIN Original /\ at[c] = "truncated"
    BY <1>4 DEF Write, EditType
  <2>3. /\ UNCHANGED <<call, target, draft>>
        /\ agreed' = AgreedAfter(c)
        /\ \A e \in Command : at'[e] \in {"write", "truncated"} => at[e] \in {"write", "truncated"}
    BY <1>4 DEF Write, workVars, Proceed, EditType, EditorTypeOK
  <2>4. Garbled.name = Absent
    <3>1. EmptyDocument.name = Absent /\ {"name"} \subseteq DOMAIN EmptyDocument
      BY DEF EmptyDocument
    <3>2. QED
      BY <3>1, EmptyIsDocument, GarbledIsDocument, SameRest
  <2>5. call[c].section \in Section
    BY CallIsKnown
  <2>6. call[c].name \notin InheritedBy(target[c], call[c].section)'
    <3>1. call[c].name \in DOMAIN agreed'[target[c]][call[c].section] =>
             DOMAIN agreed'[target[c]][call[c].section][call[c].name] = DOMAIN Unasked
      BY <2>2, <2>3, <2>5, AgreedStep
    <3>2. QED
      BY <2>3, <3>1 DEF InheritedBy, Unasked
  <2>7. DOMAIN disk = DOMAIN Original
    BY DEF EditType, EditorTypeOK
  <2>8. ASSUME NEW d \in DOMAIN Original, NEW s \in Section, NEW n \in InheritedBy(d, s)'
        PROVE  /\ Inherits(Original[d].dependencies[s][n])
               /\ InheritsAsBefore(disk'[d], d, s, n)
    <3>1. n \in InheritedBy(d, s)
      BY <1>0, <2>8
    <3>2. CASE d # target[c] \/ text = Garbled
      BY <2>1, <2>2, <2>4, <2>7, <3>1, <3>2 DEF InheritedKept, InheritsAsBefore
    <3>3. CASE d = target[c] /\ text = draft[c]
      <4>1. s # call[c].section \/ n # call[c].name
        <5> SUFFICES ASSUME s = call[c].section, n = call[c].name PROVE FALSE
          OBVIOUS
        <5>1. n \in InheritedBy(target[c], call[c].section)'
          BY <2>3, <2>8, <3>3 DEF InheritedBy
        <5>2. QED
          BY <2>6, <5>1
      <4>2. InheritsAsBefore(draft[c], d, s, n)
        BY <2>2, <3>1, <3>3, <4>1 DEF InheritedKept
      <4>3. QED
        BY <2>1, <2>2, <2>7, <3>1, <3>3, <4>2 DEF InheritedKept
    <3>4. QED
      BY <2>1, <3>2, <3>3
  <2>9. \A e \in {b \in Command : at'[b] \in {"write", "truncated"}} : \A s \in Section :
           \A n \in InheritedBy(target[e], s)' :
               \/ s = call[e].section /\ n = call[e].name
               \/ InheritsAsBefore(draft[e], target[e], s, n)
    BY <1>0, <1>a, <2>3 DEF InheritedKept
  <2>10. QED
    BY <2>3, <2>8, <2>9 DEF InheritedKept, InheritsAsBefore, InheritedBy
<1>5. CASE UNCHANGED editVars
  BY <1>1, <1>5 DEF editVars
<1>6. ASSUME NEW c \in Command, LocateWorkspace(c) \/ LoadWorkspace(c) \/ CutWrite(c)
      PROVE  InheritedKept'
  <2>1. /\ UNCHANGED <<disk, call, draft>>
        /\ \A e \in Command \ {c} : at'[e] = at[e] /\ target'[e] = target[e]
        /\ at'[c] \notin {"write", "truncated"}
    BY <1>6
       DEF LocateWorkspace, LoadWorkspace, CutWrite, workVars, Proceed,
           EditType,
       EditorTypeOK
  <2>2. QED
    BY <1>1, <2>1
<1>7. QED
  BY <1>2, <1>3, <1>4, <1>5, <1>6 DEF EditorNext, EditorStep

(* The features that a member adds do not change what it inherits.         *)
Extending(keys, own, more) ==
    [k \in DOMAIN keys \cup own |-> IF k = "features" THEN more ELSE keys[k]]

OnlyFeatures(own) == own \subseteq {"features"}

LEMMA SharedSource ==
  ASSUME NEW keys, NEW own, NEW more, NEW dir, OnlyFeatures(own)
  PROVE  /\ DependencySource(Extending(keys, own, more), dir) = DependencySource(keys, dir)
         /\ ValueOf(Extending(keys, own, more), "version") = ValueOf(keys, "version")
<1> DEFINE all == Extending(keys, own, more)
<1>1. \A k : k # "features" =>
         /\ k \in DOMAIN all <=> k \in DOMAIN keys
         /\ k \in DOMAIN keys => all[k] = keys[k]
  BY DEF Extending, OnlyFeatures
<1> HIDE DEF all
<1>2. References(all) = References(keys) /\ \A k \in References(keys) : all[k] = keys[k]
  BY <1>1 DEF References
<1>3. /\ ValueOf(all, "version") = ValueOf(keys, "version")
      /\ ValueOf(all, "registry") = ValueOf(keys, "registry")
  BY <1>1 DEF ValueOf
<1>4. {<<k, all[k]>> : k \in References(all)} = {<<k, keys[k]>> : k \in References(keys)}
  BY <1>2
<1>5. /\ "path" \in DOMAIN all <=> "path" \in DOMAIN keys
      /\ "git" \in DOMAIN all <=> "git" \in DOMAIN keys
      /\ "path" \in DOMAIN keys => all["path"] = keys["path"]
      /\ "git" \in DOMAIN keys => all["git"] = keys["git"]
  BY <1>1
<1>6. DependencySource(all, dir) = DependencySource(keys, dir)
  <2>1. CASE "path" \in DOMAIN keys
    BY <1>5, <2>1 DEF DependencySource
  <2>2. CASE "path" \notin DOMAIN keys /\ "git" \in DOMAIN keys
    <3>1. DependencySource(all, dir)
             = <<"git", all["git"], {<<k, all[k]>> : k \in References(all)}>>
      BY <1>5, <2>2 DEF DependencySource
    <3>2. DependencySource(keys, dir)
             = <<"git", keys["git"], {<<k, keys[k]>> : k \in References(keys)}>>
      BY <2>2 DEF DependencySource
    <3>3. QED
      BY <1>4, <1>5, <2>2, <3>1, <3>2
  <2>3. CASE "path" \notin DOMAIN keys /\ "git" \notin DOMAIN keys
    BY <1>3, <1>5, <2>3 DEF DependencySource
  <2>4. QED
    BY <2>1, <2>2, <2>3
<1>7. QED
  BY <1>3, <1>6 DEF all

(* What a member of the workspace in `root` inherits under a name.         *)
Shared(root, n) ==
    LET keys == WorkspaceOf(Original[root], Original[root]).dependencies[n]
    IN  <<DependencySource(keys, root), ValueOf(keys, "version")>>

LEMMA InheritedIs ==
  ASSUME NEW entry, NEW shared, NEW n, NEW dir, NEW root, NEW read,
         read = DependencyOf(entry, shared, n, dir, root), read # Failed,
         Inherits(entry), DOMAIN entry.keys \subseteq {"workspace", "features"}
  PROVE  /\ read.source = DependencySource(shared[n], root)
         /\ read.version = ValueOf(shared[n], "version")
<1>1. PICK own, more, keys :
         /\ own = DOMAIN entry.keys \ {"workspace"}
         /\ more = FeaturesOf(entry.keys) \cup FeaturesOf(shared[n])
         /\ keys = shared[n]
  OBVIOUS
<1>2. read = ToDependency(Extending(keys, own, more), root)
  BY <1>1 DEF DependencyOf, Extending
<1>3. OnlyFeatures(own)
  BY <1>1 DEF OnlyFeatures
<1>4. /\ DependencySource(Extending(keys, own, more), root) = DependencySource(keys, root)
      /\ ValueOf(Extending(keys, own, more), "version") = ValueOf(keys, "version")
  BY <1>3, SharedSource
<1> DEFINE all == Extending(keys, own, more)
<1>5. ToDependency(all, root) # Failed
  BY <1>2
<1> HIDE DEF all
<1>6. /\ ToDependency(all, root).source = DependencySource(all, root)
      /\ ToDependency(all, root).version = ValueOf(all, "version")
  BY <1>5 DEF ToDependency
<1>7. QED
  BY <1>1, <1>2, <1>4, <1>6 DEF all

-----------------------------------------------------------------------------
(* What a command has read is still what it would read, of the settings    *)
(* and of what packages inherit.                                           *)
ReadKept ==
    \A c \in {b \in Command : ws[b] # Absent} :
        LET root == ws[c].root
        IN  /\ root \in DOMAIN Original
            /\ \A d \in DOMAIN ws[c].packages :
                  /\ d \in DOMAIN Original
                  /\ ws[c].packages[d].settings =
                         SettingsOf(Original[root], call[c].profile)
                  /\ d = root \/ Original[d].workspace = Absent =>
                        \A s \in Section : \A n \in InheritedBy(d, s) :
                           LET read == ws[c].packages[d].dependencies[s][n]
                           IN  <<read.source, read.version>> = Shared(root, n)

LEMMA ReadKeptInit == EditorInit => ReadKept
BY DEF EditorInit, ReadKept

LEMMA SettingsDepend ==
  ASSUME NEW doc, NEW other, doc.cairo = other.cairo, doc.profiles = other.profiles,
         NEW profile
  PROVE  SettingsOf(doc, profile) = SettingsOf(other, profile)
BY DEF SettingsOf, ParentOf, ProfileSection

LEMMA WorkspaceDepends ==
  ASSUME NEW doc, NEW other, NEW rootDoc, NEW rootOther,
         doc.workspace = other.workspace, rootDoc.workspace = rootOther.workspace,
         other.workspace = Absent \/ other = rootOther
  PROVE  WorkspaceOf(doc, rootDoc) = WorkspaceOf(rootOther, rootOther)
BY DEF WorkspaceOf

(* What can be read is the manifest of the start, but for dependencies.    *)
LEMMA ReadableIsOriginal ==
  ASSUME EditType, NEW d \in DOMAIN Original,
         disk[d].name # Absent \/ disk[d].workspace # Absent
  PROVE  /\ disk[d].name = Original[d].name /\ disk[d].workspace = Original[d].workspace
         /\ disk[d].cairo = Original[d].cairo /\ disk[d].profiles = Original[d].profiles
<1>1. IsDocument(disk[d]) /\ IsDocument(Original[d])
  BY EditorAssumption DEF EditType, IsDocument
<1>2. Rest(disk[d]) = Rest(Original[d]) \/ Rest(disk[d]) = Rest(EmptyDocument)
  BY EmptyIsDocument DEF EditType
<1>3. EmptyDocument.name = Absent /\ EmptyDocument.workspace = Absent
  BY DEF EmptyDocument
<1>4. QED
  BY <1>1, <1>2, <1>3, SameRest, EmptyIsDocument

LEMMA RootIsThere ==
  ASSUME EditType, NEW c \in Command, NEW read, read # Failed,
         read = ReadWorkspace(disk, call[c].dir, found[c], call[c].profile)
  PROVE  /\ read = ReadRoot(disk, read.root, call[c].profile)
         /\ read.root \in DOMAIN Original
<1>1. /\ DOMAIN disk = DOMAIN Original
      /\ found[c] \in DOMAIN Original \cup {Absent, Failed}
  BY DEF EditType, EditorTypeOK
<1>2. PICK root \in DOMAIN disk : read = ReadRoot(disk, root, call[c].profile)
  BY <1>1, WorkspaceRead
<1>3. QED
  BY <1>1, <1>2, RootRead, SMTT(30)

LEMMA MemberIsRead ==
  ASSUME EditType, InheritedKept, NEW c \in Command, NEW read, read # Failed,
         read = ReadWorkspace(disk, call[c].dir, found[c], call[c].profile),
         NEW d \in DOMAIN read.packages
  PROVE  /\ d \in DOMAIN Original
         /\ read.packages[d].settings =
                SettingsOf(Original[read.root], call[c].profile)
         /\ d = read.root \/ Original[d].workspace = Absent =>
               \A s \in Section : \A n \in InheritedBy(d, s) :
                  <<read.packages[d].dependencies[s][n].source,
                    read.packages[d].dependencies[s][n].version>> = Shared(read.root, n)
<1> DEFINE root == read.root
           package == read.packages[d]
           profile == call[c].profile
<1>1. read = ReadRoot(disk, root, profile) /\ root \in DOMAIN Original
  BY RootIsThere
<1>2. /\ disk[root].name # Absent \/ disk[root].workspace # Absent
      /\ Parses(disk[d]) /\ package # Failed
      /\ package = PackageOf(disk[d], disk[root], d, root, profile)
  BY <1>1, RootRead
<1>3. d \in DOMAIN Original
  BY ReadIsThere
<1>4. /\ disk[d].name # Absent
      /\ package.settings = SettingsOf(disk[root], profile)
      /\ \A s \in Section : \A n \in DOMAIN disk[d].dependencies[s] :
            /\ package.dependencies[s][n] =
                   DependencyOf(disk[d].dependencies[s][n],
                                WorkspaceOf(disk[d], disk[root]).dependencies, n, d, root)
            /\ package.dependencies[s][n] # Failed
  <2> HIDE DEF package, root, profile
  <2>1. QED
    BY <1>2, PackageIs
<1>5. /\ disk[root].workspace = Original[root].workspace
      /\ disk[d].workspace = Original[d].workspace
      /\ disk[root].cairo = Original[root].cairo
      /\ disk[root].profiles = Original[root].profiles
  BY <1>1, <1>2, <1>3, <1>4, ReadableIsOriginal, ZenonT(30)
<1>6. package.settings = SettingsOf(Original[root], profile)
  <2>1. SettingsOf(disk[root], profile) = SettingsOf(Original[root], profile)
    <3> HIDE DEF root, profile
    <3>1. QED
      BY <1>5, SettingsDepend
  <2>2. QED
    BY <1>4, <2>1
<1>7. ASSUME d = root \/ Original[d].workspace = Absent, NEW s \in Section,
             NEW n \in InheritedBy(d, s)
      PROVE  /\ package.dependencies[s][n].source = Shared(root, n)[1]
             /\ package.dependencies[s][n].version = Shared(root, n)[2]
  <2> DEFINE entry == disk[d].dependencies[s][n]
             shared == WorkspaceOf(Original[root], Original[root]).dependencies
  <2>1. n \in DOMAIN disk[d].dependencies[s] /\ Inherits(entry)
    BY <1>3, <1>4, <1>7 DEF InheritedKept, InheritsAsBefore
  <2>2. DOMAIN entry.keys \subseteq {"workspace", "features"}
    BY <1>2, <2>1 DEF Parses
  <2>3. WorkspaceOf(disk[d], disk[root]) = WorkspaceOf(Original[root], Original[root])
    BY <1>5, <1>7, WorkspaceDepends, SMTT(30)
  <2>4. /\ package.dependencies[s][n] = DependencyOf(entry, shared, n, d, root)
        /\ package.dependencies[s][n] # Failed
    BY <1>4, <2>1, <2>3
  <2> HIDE DEF package, entry, shared, root
  <2>5. /\ package.dependencies[s][n].source = DependencySource(shared[n], root)
        /\ package.dependencies[s][n].version = ValueOf(shared[n], "version")
    BY <2>1, <2>2, <2>4, InheritedIs
  <2>6. QED
    BY <2>5, SMTT(30) DEF Shared, shared
<1>8. \A n : Shared(root, n) = <<Shared(root, n)[1], Shared(root, n)[2]>>
  BY DEF Shared
<1> HIDE DEF package, root, profile
<1>9. QED
  BY <1>3, <1>6, <1>7, <1>8, ZenonT(30) DEF package, root, profile

LEMMA ReadKeptStep ==
  ASSUME EditType, AgreedShape, InheritedKept, ReadKept, [EditorNext]_editVars
  PROVE  ReadKept'
<1>1. \A d \in DOMAIN Original : \A s \in Section : InheritedBy(d, s)' \subseteq InheritedBy(d, s)
  BY FewerInherit
<1>2. call' = call
  BY DEF EditorNext, EditorStep, LocateWorkspace, LoadWorkspace, ReadAndEdit, Truncate, Write,
     CutWrite, editVars
<1>3. CASE ws' = ws
  BY <1>1, <1>2, <1>3 DEF ReadKept
<1>4. ASSUME NEW c \in Command, LoadWorkspace(c) PROVE ReadKept'
  <2> DEFINE read == ReadWorkspace(disk, call[c].dir, found[c], call[c].profile)
  <2>1. /\ agreed' = agreed
        /\ \/ ws' = ws
           \/ read # Failed /\ ws' = [ws EXCEPT ![c] = read]
    BY <1>4 DEF LoadWorkspace
  <2>2. ASSUME read # Failed, ws' = [ws EXCEPT ![c] = read] PROVE ReadKept'
    <3>1. read.root \in DOMAIN Original
      BY <2>2, RootIsThere
    <3>2. \A d \in DOMAIN read.packages :
             /\ d \in DOMAIN Original
             /\ read.packages[d].settings =
                    SettingsOf(Original[read.root], call[c].profile)
             /\ d = read.root \/ Original[d].workspace = Absent =>
                   \A s \in Section : \A n \in InheritedBy(d, s) :
                      <<read.packages[d].dependencies[s][n].source,
                        read.packages[d].dependencies[s][n].version>> = Shared(read.root, n)
      BY <2>2, MemberIsRead
    <3>3. \A d, s : InheritedBy(d, s)' = InheritedBy(d, s)
      BY <2>1 DEF InheritedBy
    <3>4. ws'[c] = read /\ \A b \in Command \ {c} : ws'[b] = ws[b]
      BY <2>2 DEF EditType
    <3> HIDE DEF read
    <3>5. QED
      BY <1>2, <3>1, <3>2, <3>3, <3>4, SMTT(30) DEF ReadKept
  <2>3. QED
    BY <1>3, <2>1, <2>2
<1>5. QED
  BY <1>3, <1>4
     DEF EditorNext, EditorStep, LocateWorkspace, ReadAndEdit, Truncate, Write,
     CutWrite, editVars, workVars

-----------------------------------------------------------------------------
LEMMA SettingsDiffer ==
  ASSUME NEW doc, NEW profile, NEW parent, parent = ParentOf(doc, profile),
         ParentOf(doc, parent) = parent, NEW k \in Setting,
         SettingsOf(doc, profile)[k] # SettingsOf(doc, parent)[k]
  PROVE  \/ k \in DOMAIN ProfileSection(doc, profile).cairo
         \/ k \in DOMAIN doc.cairo /\ k \in DOMAIN ProfileSection(doc, parent).cairo
<1> DEFINE own == ProfileSection(doc, profile).cairo
           above == ProfileSection(doc, parent).cairo
           below == DefaultSettings(parent)
<1>1. DOMAIN below = Setting
  BY DEF DefaultSettings
<1>2. /\ SettingsOf(doc, profile) = Overlaid(own, Overlaid(doc.cairo, Overlaid(above, below)))
      /\ SettingsOf(doc, parent) = Overlaid(above, Overlaid(doc.cairo, Overlaid(above, below)))
  BY DEF SettingsOf
<1> HIDE DEF own, above, below
<1>3. \A f, g : \A x \in DOMAIN f \cup DOMAIN g :
         /\ x \in DOMAIN Overlaid(f, g)
         /\ Overlaid(f, g)[x] = IF x \in DOMAIN f THEN f[x] ELSE g[x]
  BY DEF Overlaid
<1>4. k \in DOMAIN Overlaid(above, below)
  BY <1>1, <1>3
<1>5. k \in DOMAIN Overlaid(doc.cairo, Overlaid(above, below))
  BY <1>3, <1>4
<1>6. SUFFICES ASSUME k \notin DOMAIN own, k \notin DOMAIN doc.cairo \/ k \notin DOMAIN above
               PROVE  FALSE
  BY DEF own, above
<1>7. SettingsOf(doc, profile)[k] = Overlaid(doc.cairo, Overlaid(above, below))[k]
  BY <1>2, <1>3, <1>5, <1>6
<1>8. CASE k \notin DOMAIN above
  BY <1>2, <1>3, <1>5, <1>7, <1>8
<1>9. CASE k \in DOMAIN above /\ k \notin DOMAIN doc.cairo
  <2>1. SettingsOf(doc, parent)[k] = above[k]
    BY <1>2, <1>3, <1>9
  <2>2. Overlaid(doc.cairo, Overlaid(above, below))[k] = Overlaid(above, below)[k]
    BY <1>3, <1>4, <1>9
  <2>3. Overlaid(above, below)[k] = above[k]
    BY <1>3, <1>9
  <2>4. QED
    BY <1>7, <2>1, <2>2, <2>3
<1>10. QED
  BY <1>6, <1>8, <1>9

LEMMA ReadKeptIsAlike == EditType /\ ReadKept => InheritedAlike
<1> SUFFICES ASSUME EditType, ReadKept,
                    NEW c \in {b \in Command : ws[b] # Absent},
                    NEW e \in {b \in Command : ws[b] # Absent}
             PROVE  LET root == ws[c].root
                        doc == Original[root]
                        members == {d \in DOMAIN ws[c].packages :
                                       d = root \/ Original[d].workspace = Absent}
                        profile == call[c].profile
                        parent == ParentOf(doc, profile)
                    IN  /\ \A d, f \in members : \A s, t \in Section :
                             \A n \in InheritedBy(d, s) \cap InheritedBy(f, t) :
                                LET one == ws[c].packages[d].dependencies[s][n]
                                    other == ws[c].packages[f].dependencies[t][n]
                                IN  <<one.source, one.version>>
                                        = <<other.source, other.version>>
                        /\ /\ root = ws[e].root
                           /\ call[e].profile = parent /\ ParentOf(doc, parent) = parent
                           =>
                             \A d \in DOMAIN ws[c].packages \cap DOMAIN ws[e].packages :
                                {k \in Setting : ws[c].packages[d].settings[k]
                                                   # ws[e].packages[d].settings[k]}
                                    \subseteq DOMAIN ProfileSection(doc, profile).cairo
                                                \cup (DOMAIN doc.cairo \cap DOMAIN
                                                       ProfileSection(doc, parent).cairo)
  BY DEF InheritedAlike
<1> DEFINE root == ws[c].root
           doc == Original[root]
           profile == call[c].profile
           parent == ParentOf(doc, profile)
<1>1. ASSUME NEW d \in DOMAIN ws[c].packages, d = root \/ Original[d].workspace = Absent,
             NEW s \in Section, NEW n \in InheritedBy(d, s)
      PROVE  <<ws[c].packages[d].dependencies[s][n].source,
               ws[c].packages[d].dependencies[s][n].version>> = Shared(root, n)
  BY <1>1 DEF ReadKept
<1>2. ASSUME root = ws[e].root, call[e].profile = parent, ParentOf(doc, parent) = parent,
             NEW d \in DOMAIN ws[c].packages \cap DOMAIN ws[e].packages, NEW k \in Setting,
             ws[c].packages[d].settings[k] # ws[e].packages[d].settings[k]
      PROVE  \/ k \in DOMAIN ProfileSection(doc, profile).cairo
             \/ k \in DOMAIN doc.cairo /\ k \in DOMAIN ProfileSection(doc, parent).cairo
  <2>1. /\ ws[c].packages[d].settings = SettingsOf(doc, profile)
        /\ ws[e].packages[d].settings = SettingsOf(doc, parent)
    BY <1>2 DEF ReadKept
  <2> HIDE DEF doc, profile
  <2>2. QED
    BY <1>2, <2>1, SettingsDiffer
<1> HIDE DEF root, doc, profile, parent
<1>3. \A d, f \in {m \in DOMAIN ws[c].packages : m = root \/ Original[m].workspace = Absent} :
         \A s, t \in Section : \A n \in InheritedBy(d, s) \cap InheritedBy(f, t) :
            <<ws[c].packages[d].dependencies[s][n].source,
              ws[c].packages[d].dependencies[s][n].version>>
            = <<ws[c].packages[f].dependencies[t][n].source,
                ws[c].packages[f].dependencies[t][n].version>>
  BY <1>1
<1>4. root = ws[e].root /\ call[e].profile = parent /\ ParentOf(doc, parent) = parent =>
         \A d \in DOMAIN ws[c].packages \cap DOMAIN ws[e].packages :
            {k \in Setting : ws[c].packages[d].settings[k] # ws[e].packages[d].settings[k]}
                \subseteq DOMAIN ProfileSection(doc, profile).cairo
                            \cup (DOMAIN doc.cairo \cap DOMAIN ProfileSection(doc, parent).cairo)
  BY <1>2
<1>5. QED
  BY <1>3, <1>4, Zenon DEF root, doc, profile, parent

InheritInv == EditType /\ AgreedShape /\ InheritedKept /\ ReadKept

LEMMA InheritAlways == EditorSpec => []InheritInv
<1>1. EditorInit => InheritInv
  BY EditTypeInit, AgreedShapeInit, InheritedKeptInit, ReadKeptInit
     DEF InheritInv
<1>2. InheritInv /\ [EditorNext]_editVars => InheritInv'
  BY EditTypeStep, AgreedShapeStep, InheritedKeptStep, ReadKeptStep
     DEF InheritInv
<1>3. QED
  BY <1>1, <1>2, PTL DEF EditorSpec

(* However manifests are edited meanwhile, what members of a workspace     *)
(* inherit is one package, relative to the manifest of the workspace and   *)
(* not to theirs, and profiles differ from what they inherit only where    *)
(* they say so.  What a command has read of them is still what is there,   *)
(* because an edit never makes an entry inherit.                           *)
THEOREM MembersInheritAlike == EditorSpec => []InheritedAlike
<1>1. InheritInv => InheritedAlike
  BY ReadKeptIsAlike DEF InheritInv
<1>2. QED
  BY <1>1, InheritAlways, PTL

(* path_value and relative_to_file undo each other.                        *)
LEMMA PrefixIs ==
  ASSUME NEW p, NEW dir \in Seq(STRING), NEW to \in Seq(STRING),
         p \in CommonPrefixes({dir, to})
  PROVE  /\ Len(p) \in 0 .. Len(dir) /\ Len(p) <= Len(to)
         /\ SubSeq(dir, 1, Len(p)) = SubSeq(to, 1, Len(p))
<1>1. PICK seq \in {dir, to} : \E l \in 0 .. Len(seq) : p = SubSeq(seq, 1, l)
  BY DEF CommonPrefixes, Prefixes
<1>2. IsPrefix(p, dir) /\ IsPrefix(p, to)
  BY DEF CommonPrefixes
<1>3. Len(p) \in Nat
  <2>1. PICK l \in 0 .. Len(seq) : p = SubSeq(seq, 1, l)
    BY <1>1
  <2>2. seq \in Seq(STRING) /\ l \in Int /\ \A i \in 1 .. l : seq[i] \in STRING
    BY <2>1
  <2>3. p \in Seq(STRING)
    BY <2>1, <2>2, SubSeqProperties
  <2>4. QED
    BY <2>3
<1>4. QED
  BY <1>2, <1>3 DEF IsPrefix

LEMMA ThereAndBack ==
  ASSUME NEW dir \in Seq(STRING), NEW to \in Seq(STRING)
  PROVE  Joined(dir, PathFrom(dir, to)) = to
<1> DEFINE C == CommonPrefixes({dir, to})
           D == {Len(dir) - Len(p) : p \in C}
           common == LongestCommonPrefix({dir, to})
<1>1. \A p \in C : Len(p) \in 0 .. Len(dir)
  BY PrefixIs
<1>2. C # {}
  <2>1. SubSeq(dir, 1, 0) = <<>> /\ SubSeq(to, 1, 0) = <<>>
    OBVIOUS
  <2>2. <<>> \in Prefixes(dir)
    BY <2>1 DEF Prefixes
  <2>3. IsPrefix(<<>>, dir) /\ IsPrefix(<<>>, to)
    BY <2>1 DEF IsPrefix
  <2>4. QED
    BY <2>2, <2>3 DEF CommonPrefixes
<1> HIDE DEF C
<1>3. common \in C
  <2>1. D \subseteq Nat /\ D # {}
    BY <1>1, <1>2
  <2>2. Min(D) \in D /\ \A n \in D : Min(D) <= n
    <3> HIDE DEF D
    <3>1. QED
      BY <2>1, MinIsLeast
  <2>3. PICK p \in C : Min(D) = Len(dir) - Len(p)
    BY <2>2
  <2>4. \A other \in C : Len(other) <= Len(p)
    <3>1. \A other \in C : Len(dir) - Len(p) <= Len(dir) - Len(other)
      BY <2>2, <2>3
    <3> HIDE DEF D
    <3>2. QED
      BY <1>1, <3>1
  <2>5. QED
    BY <2>4 DEF LongestCommonPrefix, C
<1> HIDE DEF common
<1>4. PICK k \in 0 .. Len(dir) : /\ k = Len(common) /\ k <= Len(to)
                                 /\ SubSeq(dir, 1, k) = SubSeq(to, 1, k)
  BY <1>3, PrefixIs DEF C
<1>5. /\ PathFrom(dir, to).up = Len(dir) - k
      /\ PathFrom(dir, to).down = SubSeq(to, k + 1, Len(to))
  BY <1>4 DEF PathFrom, common
<1>6. Len(dir) - (Len(dir) - k) = k
  OBVIOUS
<1>7. Joined(dir, PathFrom(dir, to)) = SubSeq(to, 1, k) \o SubSeq(to, k + 1, Len(to))
  BY <1>4, <1>5, <1>6 DEF Joined
<1>8. SubSeq(to, 1, k) \o SubSeq(to, k + 1, Len(to)) = SubSeq(to, 1, Len(to))
  <2>1. /\ 1 \in 1 .. Len(to) + 1 /\ k \in 1 - 1 .. Len(to)
        /\ Len(to) \in k .. Len(to)
    BY <1>4
  <2>2. QED
    BY <2>1, ConcatAdjacentSubSeq
<1>9. QED
  BY <1>7, <1>8, SubSeqFull
-----------------------------------------------------------------------------
(* What an entry keeps whatever its source is, and what it is to mean.     *)
DefaultOf(keys) ==
    IF "default-features" \in DOMAIN keys THEN keys["default-features"] ELSE TRUE

Keeps(keys, value) ==
    /\ value.version = ValueOf(keys, "version")
    /\ value.registry = ValueOf(keys, "registry")
    /\ value.features = FeaturesOf(keys) /\ value.default = DefaultOf(keys)

Follows(entry, value, dir) ==
    \/ Inherits(entry) /\ (Contradicts(entry) \/ value = Meaning(entry, dir))
    \/ /\ ~Inherits(entry) /\ NoSource(entry.keys, dir)
       /\ "error" \in DOMAIN value /\ value = Meaning(entry, dir)
    \/ /\ ~Inherits(entry) /\ DOMAIN value = DOMAIN Unasked /\ Keeps(entry.keys, value)
       /\ Contradicts(entry) \/ value = Meaning(entry, dir)

LEMMA MeaningParts ==
  ASSUME NEW entry, NEW dir, ~Inherits(entry), ~NoSource(entry.keys, dir)
  PROVE  /\ DOMAIN Meaning(entry, dir) = DOMAIN Unasked
         /\ Meaning(entry, dir) = [x \in DOMAIN Unasked |-> Meaning(entry, dir)[x]]
         /\ Meaning(entry, dir).source = DependencySource(entry.keys, dir)
         /\ Keeps(entry.keys, Meaning(entry, dir))
<1>1. DOMAIN Meaning(entry, dir) = DOMAIN Unasked
  BY MeaningShape
<1>2. Meaning(entry, dir) = Overlaid(ToDependency(entry.keys, dir),
                                     [registry |-> ValueOf(entry.keys, "registry")])
  BY DEF Meaning
<1>3. \A f, g : Overlaid(f, g) = [x \in DOMAIN Overlaid(f, g) |-> Overlaid(f, g)[x]]
  BY DEF Overlaid
<1>4. ToDependency(entry.keys, dir)
         = [source |-> DependencySource(entry.keys, dir),
            version |-> ValueOf(entry.keys, "version"),
            features |-> FeaturesOf(entry.keys), default |-> DefaultOf(entry.keys)]
  BY DEF ToDependency, DefaultOf
<1>5. /\ Meaning(entry, dir).source = DependencySource(entry.keys, dir)
      /\ Keeps(entry.keys, Meaning(entry, dir))
  <2> DEFINE top == ToDependency(entry.keys, dir)
             low == [registry |-> ValueOf(entry.keys, "registry")]
  <2>1. /\ DOMAIN top = {"source", "version", "features", "default"}
        /\ DOMAIN low = {"registry"} /\ low.registry = ValueOf(entry.keys, "registry")
        /\ top.source = DependencySource(entry.keys, dir)
        /\ top.version = ValueOf(entry.keys, "version")
        /\ top.features = FeaturesOf(entry.keys) /\ top.default = DefaultOf(entry.keys)
    BY <1>4
  <2> HIDE DEF top, low
  <2>2. Meaning(entry, dir) = Overlaid(top, low)
    BY <1>2 DEF top, low
  <2>3. QED
    BY <2>1, <2>2 DEF Overlaid, Keeps
<1>6. QED
  BY <1>1, <1>2, <1>3, <1>5

LEMMA MeaningFollows ==
  ASSUME NEW entry, NEW dir
  PROVE  Follows(entry, Meaning(entry, dir), dir)
BY MeaningShape, MeaningParts DEF Follows

LEMMA UpsertedFollows ==
  ASSUME NEW old, NEW value, DOMAIN value = DOMAIN Unasked,
         Inherits(old) \/ Keeps(old.keys, value),
         NEW ask, DOMAIN ask \subseteq {"version"} \cup SourceKeys, ~Refused(ask),
         NEW dir \in Directory
  PROVE  Follows(Upserted(old, ask, dir), Asked(ask, value), dir)
<1> DEFINE keys == Upserted(old, ask, dir).keys
           asked == Asked(ask, value)
<1>1. /\ \A k \in DOMAIN ask : k \in DOMAIN keys /\ keys[k] =
             IF k = "path" THEN PathFrom(dir, ask[k]) ELSE ask[k]
      /\ \A k \in DOMAIN old.keys \ DOMAIN ask :
             k \notin SourceKeys => k \in DOMAIN keys /\ keys[k] = old.keys[k]
      /\ \A k \in DOMAIN keys :
             k \in DOMAIN ask \/ (k \in DOMAIN old.keys /\ k \notin SourceKeys)
  BY DEF Upserted, Overlaid, Purged
<1>2. Inherits(Upserted(old, ask, dir)) <=> "workspace" \in DOMAIN keys
  BY DEF Inherits
<1>3. SourceKeys = {"path", "git", "branch", "tag", "rev"}
  BY DEF SourceKeys
<1>4. /\ "path" \in DOMAIN ask => ask["path"] \in Directory /\ "git" \notin DOMAIN ask
      /\ References(ask) # {} => "git" \in DOMAIN ask
      /\ ~(Cardinality(References(ask)) > 1)
      /\ "path" \in DOMAIN ask \/ "git" \in DOMAIN ask \/ "version" \in DOMAIN ask
  BY DEF Refused
<1>5. DOMAIN asked = DOMAIN Unasked
  BY DEF Asked
<1>6. CASE Inherits(old)
  <2>1. "workspace" \in DOMAIN keys
    BY <1>1, <1>3, <1>6 DEF Inherits
  <2>2. Contradicts(Upserted(old, ask, dir))
    BY <1>1, <1>2, <1>3, <1>4, <2>1 DEF Contradicts
  <2>3. QED
    BY <1>2, <2>1, <2>2 DEF Follows
<1>7. CASE ~Inherits(old)
  <2>1. "workspace" \notin DOMAIN keys
    BY <1>1, <1>3, <1>7 DEF Inherits
  <2>2. /\ ValueOf(keys, "version") = IF "version" \in DOMAIN ask THEN ask["version"]
                                      ELSE ValueOf(old.keys, "version")
        /\ ValueOf(keys, "registry") = ValueOf(old.keys, "registry")
        /\ FeaturesOf(keys) = FeaturesOf(old.keys) /\ DefaultOf(keys) = DefaultOf(old.keys)
    BY <1>1, <1>3 DEF ValueOf, FeaturesOf, DefaultOf
  <2>3. References(keys) = References(ask)
    BY <1>1, <1>3 DEF References
  <2>4. \A k \in {"path", "git"} : k \in DOMAIN keys <=> k \in DOMAIN ask
    BY <1>1, <1>3
  <2>5. Keeps(keys, asked)
    <3>1. Keeps(old.keys, value)
      BY <1>7
    <3>2. /\ asked.version = IF "version" \in DOMAIN ask THEN ask["version"] ELSE value.version
          /\ asked.registry = value.registry /\ asked.features = value.features
          /\ asked.default = value.default
      BY DEF Asked, Unasked
    <3> HIDE DEF keys, asked
    <3>3. QED
      BY <2>2, <3>1, <3>2 DEF Keeps
  <2>6. ASSUME ~Contradicts(Upserted(old, ask, dir))
        PROVE  asked = Meaning(Upserted(old, ask, dir), dir)
    <3>1. ~("registry" \in DOMAIN keys /\ "git" \in DOMAIN keys)
      BY <2>6 DEF Contradicts
    <3>2. "path" \in DOMAIN keys => Joined(dir, keys["path"]) = ask["path"]
      BY <1>1, <1>4, <2>4, ThereAndBack, EditorAssumption
    <3>3. ~NoSource(keys, dir)
      <4>1. {"version", "git", "path"} \cap DOMAIN keys # {}
        BY <1>1, <1>4
      <4> HIDE DEF keys
      <4>2. QED
        BY <1>4, <2>3, <2>4, <3>1, <3>2, <4>1 DEF NoSource
    <3>4. asked.source = DependencySource(keys, dir)
      <4>1. asked.source = IF "path" \in DOMAIN ask THEN <<"path", ask["path"]>>
                           ELSE IF "git" \in DOMAIN ask
                           THEN <<"git", ask["git"], {<<k, ask[k]>> : k \in References(ask)}>>
                           ELSE <<"registry", value.registry>>
        BY DEF Asked, Unasked
      <4>2. {<<k, ask[k]>> : k \in References(ask)} = {<<k, keys[k]>> : k \in References(keys)}
        <5>1. \A k \in References(ask) : keys[k] = ask[k]
          BY <1>1 DEF References
        <5> HIDE DEF keys
        <5>2. QED
          BY <2>3, <5>1
      <4>3. "git" \in DOMAIN ask => keys["git"] = ask["git"]
        BY <1>1
      <4>4. ValueOf(keys, "registry") = value.registry
        BY <1>7, <2>2 DEF Keeps
      <4> HIDE DEF keys, asked
      <4>5. CASE "path" \in DOMAIN ask
        BY <2>4, <3>2, <4>1, <4>5 DEF DependencySource
      <4>6. CASE "path" \notin DOMAIN ask /\ "git" \in DOMAIN ask
        BY <2>4, <4>1, <4>2, <4>3, <4>6 DEF DependencySource
      <4>7. CASE "path" \notin DOMAIN ask /\ "git" \notin DOMAIN ask
        BY <2>4, <4>1, <4>4, <4>7 DEF DependencySource
      <4>8. QED
        BY <4>5, <4>6, <4>7
    <3>5. asked = [x \in DOMAIN Unasked |-> asked[x]]
      BY DEF Asked
    <3> DEFINE means == Meaning(Upserted(old, ask, dir), dir)
    <3>6. /\ means = [x \in DOMAIN Unasked |-> means[x]]
          /\ means.source = DependencySource(keys, dir) /\ Keeps(keys, means)
      <4> HIDE DEF means
      <4>1. ~Inherits(Upserted(old, ask, dir))
        BY <1>2, <2>1
      <4>2. QED
        BY <3>3, <4>1, MeaningParts DEF means
    <3> HIDE DEF means, asked, keys
    <3>7. \A x \in DOMAIN Unasked : asked[x] = means[x]
      BY <2>5, <3>4, <3>6 DEF Keeps, Unasked
    <3>8. QED
      BY <3>5, <3>6, <3>7 DEF means
  <2>7. /\ ~Inherits(Upserted(old, ask, dir))
        /\ Contradicts(Upserted(old, ask, dir)) \/ asked = Meaning(Upserted(old, ask, dir), dir)
    BY <1>2, <2>1, <2>6
  <2>8. QED
    BY <1>5, <2>5, <2>7 DEF Follows
<1>8. QED
  BY <1>6, <1>7
-----------------------------------------------------------------------------
(* Edits that do not overlap are one after the other.                      *)
AgreesWith(doc, table, d) ==
    /\ Rest(doc) = Rest(Original[d])
    /\ \A s \in Section :
          /\ DOMAIN doc.dependencies[s] = DOMAIN table[s]
          /\ \A n \in DOMAIN table[s] : Follows(doc.dependencies[s][n], table[s][n], d)

Emptied(d) == \E c \in Command : at[c] = "truncated" /\ target[c] = d

Sound(d) ==
    \A s \in Section : \A n \in DOMAIN agreed[d][s] : "error" \notin DOMAIN agreed[d][s][n]

DraftAgrees(c) == AgreesWith(draft[c], AgreedAfter(c)[target[c]], target[c])

DiskAgrees ==
    \A d \in DOMAIN Original \ clobbered : Emptied(d) \/ AgreesWith(disk[d], agreed[d], d)

EditingSound ==
    \A c \in Command :
        at[c] \in {"read", "write", "truncated"} /\ target[c] \notin clobbered => Sound(target[c])

WriteAgrees ==
    \A c \in Command : at[c] = "write" /\ target[c] \notin clobbered =>
        ~Emptied(target[c]) /\ DraftAgrees(c)

EmptiedAlone ==
    \A c \in Command : at[c] = "truncated" /\ target[c] \notin clobbered =>
        /\ disk[target[c]] = EmptyDocument /\ DraftAgrees(c)
        /\ \A e \in Others(c) : at[e] \notin {"write", "truncated"}

EditsKept == DiskAgrees /\ EditingSound /\ WriteAgrees /\ EmptiedAlone

LEMMA EditsKeptInit == EditorInit => EditsKept
<1> SUFFICES ASSUME EditorInit PROVE EditsKept
  OBVIOUS
<1>1. \A c \in Command : at[c] = "locate"
  BY DEF EditorInit
<1>2. ASSUME NEW d \in DOMAIN Original PROVE AgreesWith(disk[d], agreed[d], d)
  <2>1. /\ disk[d] = Original[d]
        /\ \A s \in Section :
              /\ DOMAIN agreed[d][s] = DOMAIN Original[d].dependencies[s]
              /\ \A n \in DOMAIN agreed[d][s] :
                    agreed[d][s][n] = Meaning(Original[d].dependencies[s][n], d)
    BY DEF EditorInit, MeaningOf
  <2>2. QED
    BY <2>1, MeaningFollows DEF AgreesWith
<1>3. QED
  BY <1>1, <1>2
     DEF EditsKept, DiskAgrees, EditingSound, WriteAgrees, EmptiedAlone

LEMMA OpIsKnown ==
  ASSUME EditType, NEW c \in Command PROVE call[c].op \in {"none", "add", "remove"}
BY EditorAssumption DEF EditType, EditorTypeOK

LEMMA EditAgrees ==
  ASSUME EditType, AgreedShape, NEW c \in Command, NEW t, t = target[c],
         t \in DOMAIN Original, call[c].op # "none", Sound(t),
         AgreesWith(disk[t], agreed[t], t),
         NEW new, new = Edited(disk[t], call[c], t), new # Failed
  PROVE  AgreesWith(new, AgreedAfter(c)[t], t)
<1> DEFINE doc == disk[t]
           s0 == call[c].section
           n0 == call[c].name
           table == AgreedAfter(c)[t]
           asked == Asked(call[c].ask, OwnBefore(c))
           put == Upserted(Before(doc, call[c]), call[c].ask, t)
<1>1. s0 \in Section /\ DOMAIN call[c].ask \subseteq {"version"} \cup SourceKeys
      /\ call[c].op \in {"add", "remove"} /\ t \in Directory
  BY CallIsKnown, OpIsKnown, EditorAssumption
<1>2. /\ call[c].op = "add" => ~Refused(call[c].ask)
      /\ Rest(new) = Rest(doc)
      /\ \A s \in Section : s # s0 => new.dependencies[s] = doc.dependencies[s]
      /\ call[c].op = "remove" =>
             Without(new.dependencies[s0], doc.dependencies[s0], n0)
      /\ call[c].op # "remove" =>
             With(new.dependencies[s0], doc.dependencies[s0], n0, put)
  <2>1. PICK edit : edit = call[c] /\ edit.section \in Section
    BY <1>1
  <2>2. PICK d : d = doc /\ IsDocument(d)
    BY DEF EditType
  <2>3. Edited(d, edit, t) # Failed
    BY <2>1, <2>2
  <2>4. /\ edit.op = "add" => ~Refused(edit.ask)
        /\ Rest(Edited(d, edit, t)) = Rest(d)
        /\ \A s \in Section : s # edit.section =>
               Edited(d, edit, t).dependencies[s] = d.dependencies[s]
        /\ edit.op = "remove" =>
               Without(Edited(d, edit, t).dependencies[edit.section],
                       d.dependencies[edit.section], edit.name)
        /\ edit.op # "remove" =>
               With(Edited(d, edit, t).dependencies[edit.section],
                    d.dependencies[edit.section], edit.name,
                    Upserted(Before(d, edit), edit.ask, t))
    BY <2>1, <2>2, <2>3, EditedIs
  <2>5. QED
    BY <2>1, <2>2, <2>4
<1>3. /\ \A s \in Section : s # s0 => table[s] = agreed[t][s]
      /\ call[c].op = "remove" => Without(table[s0], agreed[t][s0], n0)
      /\ call[c].op # "remove" => With(table[s0], agreed[t][s0], n0, asked)
  BY <1>1, AgreedIs
<1>4. /\ Rest(doc) = Rest(Original[t])
      /\ \A s \in Section :
            /\ DOMAIN doc.dependencies[s] = DOMAIN agreed[t][s]
            /\ \A n \in DOMAIN agreed[t][s] :
                  Follows(doc.dependencies[s][n], agreed[t][s][n], t)
  BY DEF AgreesWith
<1>5. call[c].op = "add" => Follows(put, asked, t)
  <2> DEFINE old == Before(doc, call[c])
             own == OwnBefore(c)
  <2>1. DOMAIN own = DOMAIN Unasked
    BY OwnIsDependency
  <2>2. Inherits(old) \/ Keeps(old.keys, own)
    <3>1. CASE n0 \in DOMAIN doc.dependencies[s0]
      <4>1. old = doc.dependencies[s0][n0] /\ n0 \in DOMAIN agreed[t][s0]
        BY <1>1, <1>4, <3>1 DEF Before
      <4>2. Follows(old, agreed[t][s0][n0], t) /\ "error" \notin DOMAIN agreed[t][s0][n0]
        BY <1>1, <1>4, <4>1 DEF Sound
      <4> HIDE DEF old
      <4>3. Inherits(old) \/ (DOMAIN agreed[t][s0][n0] = DOMAIN Unasked
                              /\ Keeps(old.keys, agreed[t][s0][n0]))
        BY <4>2 DEF Follows
      <4>4. DOMAIN agreed[t][s0][n0] = DOMAIN Unasked => own = agreed[t][s0][n0]
        BY <4>1 DEF OwnBefore, Unasked
      <4> HIDE DEF own
      <4>5. QED
        BY <4>3, <4>4
    <3>2. CASE n0 \notin DOMAIN doc.dependencies[s0]
      <4>1. old.keys = <<>> /\ own = Unasked
        BY <1>1, <1>4, <3>2 DEF Before, NewEntry, OwnBefore
      <4>2. Keeps(<<>>, Unasked)
        BY DEF Keeps, Unasked, ValueOf, FeaturesOf, DefaultOf
      <4> HIDE DEF old, own
      <4>3. QED
        BY <4>1, <4>2
    <3>3. QED
      BY <3>1, <3>2
  <2>3. PICK ask : ask = call[c].ask
    OBVIOUS
  <2> HIDE DEF old, own
  <2>4. call[c].op = "add" => Follows(Upserted(old, ask, t), Asked(ask, own), t)
    BY <1>1, <1>2, <2>1, <2>2, <2>3, UpsertedFollows
  <2>5. QED
    BY <2>3, <2>4 DEF old, own
<1> HIDE DEF table, asked, put, doc
<1>6. ASSUME NEW s \in Section
      PROVE  /\ DOMAIN new.dependencies[s] = DOMAIN table[s]
             /\ \A n \in DOMAIN table[s] : Follows(new.dependencies[s][n], table[s][n], t)
  <2>1. CASE s # s0
    BY <1>2, <1>3, <1>4, <2>1
  <2>2. CASE s = s0 /\ call[c].op = "remove"
    <3>1. /\ Without(new.dependencies[s], doc.dependencies[s], n0)
          /\ Without(table[s], agreed[t][s], n0)
      BY <1>2, <1>3, <2>2
    <3>2. QED
      BY <1>4, <3>1 DEF Without
  <2>3. CASE s = s0 /\ call[c].op = "add"
    <3>1. /\ With(new.dependencies[s], doc.dependencies[s], n0, put)
          /\ With(table[s], agreed[t][s], n0, asked)
      BY <1>2, <1>3, <2>3
    <3>2. QED
      BY <1>4, <1>5, <2>3, <3>1 DEF With
  <2>4. QED
    BY <1>1, <2>1, <2>2, <2>3
<1>7. QED
  BY <1>2, <1>4, <1>6 DEF AgreesWith, table

(* A package that can be read has a source for each of its dependencies.   *)
LEMMA ReadIsSound ==
  ASSUME EditType, DiskAgrees, EmptiedAlone, NEW c \in Command, NEW read, read # Failed,
         read = ReadWorkspace(disk, call[c].dir, found[c], call[c].profile),
         NEW d \in DOMAIN read.packages, d \notin clobbered
  PROVE  Sound(d)
<1> DEFINE root == read.root
           profile == call[c].profile
<1>1. read = ReadRoot(disk, root, profile) /\ d \in DOMAIN Original
  BY RootIsThere, ReadIsThere
<1>2. /\ Parses(disk[d]) /\ read.packages[d] # Failed
      /\ read.packages[d] = PackageOf(disk[d], disk[root], d, root, profile)
  BY <1>1, RootRead
<1> DEFINE package == read.packages[d]
<1>3. /\ disk[d].name # Absent
      /\ \A s \in Section : \A n \in DOMAIN disk[d].dependencies[s] :
            DependencyOf(disk[d].dependencies[s][n],
                         WorkspaceOf(disk[d], disk[root]).dependencies, n, d, root) # Failed
  <2> HIDE DEF root, profile, package
  <2>1. /\ disk[d].name # Absent
        /\ \A s \in Section : \A n \in DOMAIN disk[d].dependencies[s] :
              /\ package.dependencies[s][n] =
                     DependencyOf(disk[d].dependencies[s][n],
                                  WorkspaceOf(disk[d], disk[root]).dependencies, n, d, root)
              /\ package.dependencies[s][n] # Failed
    BY <1>2, PackageIs DEF package
  <2>2. QED
    BY <2>1
<1>4. EmptyDocument.name = Absent
  BY DEF EmptyDocument
<1>5. ~Emptied(d)
  BY <1>3, <1>4 DEF Emptied, EmptiedAlone
<1>6. AgreesWith(disk[d], agreed[d], d)
  BY <1>1, <1>5 DEF DiskAgrees
<1>7. ASSUME NEW s \in Section, NEW n \in DOMAIN agreed[d][s],
             "error" \in DOMAIN agreed[d][s][n]
      PROVE  FALSE
  <2> DEFINE entry == disk[d].dependencies[s][n]
  <2>1. n \in DOMAIN disk[d].dependencies[s] /\ Follows(entry, agreed[d][s][n], d)
    BY <1>6 DEF AgreesWith
  <2>2. DependencyOf(entry, WorkspaceOf(disk[d], disk[root]).dependencies, n, d, root) # Failed
    BY <1>3, <2>1
  <2>3. Inherits(entry) => DOMAIN entry.keys \subseteq {"workspace", "features"}
    BY <1>2, <2>1 DEF Parses
  <2> HIDE DEF entry
  <2>4. CASE Inherits(entry)
    <3>1. ~Contradicts(entry)
      BY <2>3, <2>4 DEF Contradicts, SourceKeys
    <3>2. agreed[d][s][n] = Meaning(entry, d)
      BY <2>1, <2>4, <3>1 DEF Follows
    <3>3. QED
      BY <1>7, <2>4, <3>2, MeaningShape
  <2>5. CASE ~Inherits(entry)
    <3>1. ~NoSource(entry.keys, d)
      BY <2>2, <2>5 DEF DependencyOf, ToDependency
    <3>2. DOMAIN agreed[d][s][n] = DOMAIN Unasked
      BY <2>1, <2>5, <3>1 DEF Follows
    <3>3. QED
      BY <1>7, <3>2, SMTT(30) DEF Unasked
  <2>6. QED
    BY <2>4, <2>5
<1>8. QED
  BY <1>7 DEF Sound

LEMMA SameAgreed ==
  ASSUME EditType, EditType', NEW c \in Command, target[c] \in DOMAIN Original,
         call'[c] = call[c], target'[c] = target[c], agreed'[target[c]] = agreed[target[c]]
  PROVE  AgreedAfter(c)'[target[c]] = AgreedAfter(c)[target[c]]
<1>1. target[c] \in DOMAIN agreed /\ target[c] \in DOMAIN agreed'
  BY DEF EditType, EditorTypeOK
<1>2. QED
  BY <1>1 DEF AgreedAfter

LEMMA SameDraft ==
  ASSUME EditType, EditType', NEW c \in Command, target[c] \in DOMAIN Original,
         call'[c] = call[c], target'[c] = target[c], agreed'[target[c]] = agreed[target[c]],
         draft'[c] = draft[c]
  PROVE  DraftAgrees(c)' <=> DraftAgrees(c)
BY SameAgreed DEF DraftAgrees, AgreesWith

(* Edits ask for dependencies that have a source.                          *)
LEMMA SoundStays ==
  ASSUME EditType, AgreedShape, [EditorNext]_editVars, NEW d \in DOMAIN Original, Sound(d)
  PROVE  Sound(d)'
<1>1. CASE agreed' = agreed
  BY <1>1 DEF Sound
<1>2. ASSUME NEW c \in Command, agreed' = AgreedAfter(c), at[c] = "truncated"
      PROVE  Sound(d)'
  <2>1. target[c] \in DOMAIN Original
    BY <1>2 DEF EditType
  <2>2. \A s \in Section : \A n \in DOMAIN agreed'[d][s] :
           \/ n \in DOMAIN agreed[d][s] /\ agreed'[d][s][n] = agreed[d][s][n]
           \/ DOMAIN agreed'[d][s][n] = DOMAIN Unasked
    BY <1>2, <2>1, AgreedStep
  <2>3. "error" \notin DOMAIN Unasked
    BY DEF Unasked
  <2>4. QED
    BY <2>2, <2>3 DEF Sound
<1>3. QED
  BY <1>1, <1>2
     DEF EditorNext, EditorStep, LocateWorkspace, LoadWorkspace, ReadAndEdit,
     Truncate, Write, CutWrite, editVars

(* Steps that change no file, and of the commands only where they are.     *)
LEMMA EditsKeptSame ==
  ASSUME EditType, EditType', EditsKept,
         UNCHANGED <<disk, call, agreed>>, clobbered \subseteq clobbered',
         \A c \in Command :
             \/ at'[c] \notin {"read", "write", "truncated"} /\ at[c] # "truncated"
             \/ at'[c] \notin {"read", "write", "truncated"} /\ target[c] \in clobbered'
             \/ at'[c] = "read" /\ at[c] # "truncated"
                /\ (target'[c] \in clobbered \/ Sound(target'[c]))
             \/ at'[c] = at[c] /\ target'[c] = target[c] /\ draft'[c] = draft[c]
  PROVE  EditsKept'
<1>1. \A c \in Command : at[c] \in {"read", "write", "truncated"} =>
         target[c] \in DOMAIN Original
  BY DEF EditType
<1>2. \A c \in Command : at'[c] \in {"write", "truncated"} =>
         at'[c] = at[c] /\ target'[c] = target[c] /\ draft'[c] = draft[c]
  OBVIOUS
<1>3. \A d \in DOMAIN Original \ clobbered' : Emptied(d)' <=> Emptied(d)
  BY DEF Emptied
<1>4. DiskAgrees'
  BY <1>3 DEF EditsKept, DiskAgrees, AgreesWith
<1>5. EditingSound'
  <2> SUFFICES ASSUME NEW c \in Command, at'[c] \in {"read", "write", "truncated"},
                      target'[c] \notin clobbered'
               PROVE  Sound(target'[c])
    BY DEF EditingSound, Sound
  <2>1. CASE at'[c] = at[c] /\ target'[c] = target[c]
    BY <2>1 DEF EditsKept, EditingSound
  <2>2. CASE ~(at'[c] = at[c] /\ target'[c] = target[c])
    BY <2>2
  <2>3. QED
    BY <2>1, <2>2
<1>6. \A c \in Command : at'[c] \in {"write", "truncated"} => (DraftAgrees(c)' <=> DraftAgrees(c))
  <2> TAKE c \in Command
  <2> HAVE at'[c] \in {"write", "truncated"}
  <2>1. /\ target[c] \in DOMAIN Original /\ call'[c] = call[c] /\ target'[c] = target[c]
        /\ agreed'[target[c]] = agreed[target[c]] /\ draft'[c] = draft[c]
    BY <1>1, <1>2
  <2>2. QED
    BY <2>1, SameDraft
<1>7. WriteAgrees'
  <2> SUFFICES ASSUME NEW c \in Command, at'[c] = "write", target'[c] \notin clobbered'
               PROVE  ~Emptied(target[c])' /\ DraftAgrees(c)'
    BY DEF WriteAgrees
  <2>1. /\ at[c] = "write" /\ target'[c] = target[c] /\ target[c] \in DOMAIN Original
        /\ target[c] \notin clobbered
    BY <1>1, <1>2
  <2>2. ~Emptied(target[c]) /\ DraftAgrees(c)
    BY <2>1 DEF EditsKept, WriteAgrees
  <2>3. ~Emptied(target[c])'
    BY <1>2, <2>1, <2>2 DEF Emptied
  <2>4. QED
    BY <1>6, <2>1, <2>2, <2>3 DEF Emptied
<1>8. EmptiedAlone'
  <2> SUFFICES ASSUME NEW c \in Command, at'[c] = "truncated", target'[c] \notin clobbered'
               PROVE  /\ disk'[target'[c]] = EmptyDocument /\ DraftAgrees(c)'
                      /\ \A e \in Others(c)' : at'[e] \notin {"write", "truncated"}
    BY DEF EmptiedAlone
  <2>1. /\ at[c] = "truncated" /\ target'[c] = target[c] /\ target[c] \notin clobbered
    BY <1>2
  <2>2. /\ disk[target[c]] = EmptyDocument /\ DraftAgrees(c)
        /\ \A e \in Others(c) : at[e] \notin {"write", "truncated"}
    BY <2>1 DEF EditsKept, EmptiedAlone
  <2>3. \A e \in Others(c)' : at'[e] \notin {"write", "truncated"}
    BY <1>2, <2>1, <2>2 DEF Others
  <2>4. QED
    BY <1>6, <2>1, <2>2, <2>3
<1>9. QED
  BY <1>4, <1>5, <1>7, <1>8 DEF EditsKept
LEMMA EditKeeps ==
  ASSUME EditType, EditType', AgreedShape, EditsKept, NEW c \in Command, ReadAndEdit(c)
  PROVE  EditsKept'
<1> DEFINE t == target[c]
           new == Edited(disk[t], call[c], t)
<1>1. /\ UNCHANGED <<disk, call, target, agreed>> /\ clobbered \subseteq clobbered'
      /\ at[c] = "read" /\ t \in DOMAIN Original /\ call[c].op # "none"
      /\ t \notin clobbered' => ~Emptied(t)
      /\ \A e \in Command \ {c} : at'[e] = at[e] /\ draft'[e] = draft[e]
      /\ \/ at'[c] \notin {"read", "write", "truncated"}
         \/ at'[c] = "write" /\ new # Failed /\ draft'[c] = new
  <2>1. at[c] = "read" /\ t \in DOMAIN Original /\ call[c].op # "none"
    BY DEF ReadAndEdit, EditType
  <2>2. t \notin clobbered' => \A e \in Others(c) : at[e] # "truncated"
    BY DEF ReadAndEdit
  <2>3. t \notin clobbered' => ~Emptied(t)
    BY <2>1, <2>2 DEF Emptied, Others
  <2>4. UNCHANGED <<disk, call, target, agreed>> /\ clobbered \subseteq clobbered'
    BY DEF ReadAndEdit
  <2>5. \E next \in At : /\ Proceed(c, next)
                         /\ \/ draft' = draft /\ next \notin {"read", "write", "truncated"}
                            \/ /\ draft' = [draft EXCEPT ![c] = new] /\ new # Failed
                               /\ next \notin {"read", "truncated"}
    BY DEF ReadAndEdit, At
  <2>6. QED
    BY <2>1, <2>3, <2>4, <2>5 DEF Proceed, EditType, EditorTypeOK
<1>2. CASE at'[c] \notin {"read", "write", "truncated"}
  BY <1>1, <1>2, EditsKeptSame
<1>3. CASE at'[c] = "write"
  <2>1. \A d : Emptied(d)' <=> Emptied(d)
    BY <1>1, <1>3 DEF Emptied
  <2>2. DiskAgrees'
    BY <1>1, <2>1 DEF EditsKept, DiskAgrees, AgreesWith
  <2>3. EditingSound'
    BY <1>1, <1>3 DEF EditsKept, EditingSound, Sound
  <2>4. t \notin clobbered' => DraftAgrees(c)'
    <3> SUFFICES ASSUME t \notin clobbered' PROVE DraftAgrees(c)'
      OBVIOUS
    <3>1. ~Emptied(t) /\ t \notin clobbered /\ Sound(t)
      BY <1>1 DEF EditsKept, EditingSound
    <3>2. AgreesWith(disk[t], agreed[t], t)
      BY <1>1, <3>1 DEF EditsKept, DiskAgrees
    <3>3. PICK n, d : n = new /\ n # Failed /\ d = t
      BY <1>1, <1>3
    <3>4. AgreesWith(n, AgreedAfter(c)[d], d)
      <4> HIDE DEF new
      <4>1. d = target[c] /\ d \in DOMAIN Original /\ AgreesWith(disk[d], agreed[d], d)
            /\ Sound(d)
        BY <1>1, <3>1, <3>2, <3>3
      <4>2. n = Edited(disk[d], call[c], d)
        BY <3>3 DEF new
      <4>3. QED
        BY <1>1, <3>3, <4>1, <4>2, EditAgrees
    <3>5. AgreedAfter(c)'[t] = AgreedAfter(c)[t]
      BY <1>1, SameAgreed
    <3>6. AgreesWith(draft'[c], AgreedAfter(c)'[t], t)
      BY <1>1, <1>3, <3>3, <3>4, <3>5
    <3>7. QED
      BY <1>1, <3>6 DEF DraftAgrees, AgreesWith
  <2>5. \A e \in Command \ {c} : at[e] \in {"write", "truncated"} =>
           (DraftAgrees(e)' <=> DraftAgrees(e))
    <3> TAKE e \in Command \ {c}
    <3> HAVE at[e] \in {"write", "truncated"}
    <3>1. /\ target[e] \in DOMAIN Original /\ call'[e] = call[e] /\ target'[e] = target[e]
          /\ agreed'[target[e]] = agreed[target[e]] /\ draft'[e] = draft[e]
      BY <1>1 DEF EditType
    <3>2. QED
      BY <3>1, SameDraft
  <2>6. WriteAgrees'
    <3> SUFFICES ASSUME NEW e \in Command, at'[e] = "write", target'[e] \notin clobbered'
                 PROVE  ~Emptied(target[e])' /\ DraftAgrees(e)'
      BY DEF WriteAgrees
    <3>1. target'[e] = target[e] /\ target[e] \notin clobbered
      BY <1>1
    <3>2. CASE e = c
      BY <1>1, <2>1, <2>4, <3>1, <3>2 DEF Emptied
    <3>3. CASE e # c
      <4>1. at[e] = "write"
        BY <1>1, <3>3
      <4>2. ~Emptied(target[e]) /\ DraftAgrees(e)
        BY <3>1, <4>1 DEF EditsKept, WriteAgrees
      <4>3. DraftAgrees(e)'
        BY <2>5, <3>3, <4>1, <4>2
      <4>4. QED
        BY <1>1, <1>3, <4>2, <4>3 DEF Emptied
    <3>4. QED
      BY <3>2, <3>3
  <2>7. EmptiedAlone'
    <3> SUFFICES ASSUME NEW e \in Command, at'[e] = "truncated", target'[e] \notin clobbered'
                 PROVE  /\ disk'[target'[e]] = EmptyDocument /\ DraftAgrees(e)'
                        /\ \A b \in Others(e)' : at'[b] \notin {"write", "truncated"}
      BY DEF EmptiedAlone
    <3>1. e # c /\ at[e] = "truncated" /\ target'[e] = target[e] /\ target[e] \notin clobbered
      BY <1>1, <1>3
    <3>2. /\ disk[target[e]] = EmptyDocument /\ DraftAgrees(e)
          /\ \A b \in Others(e) : at[b] \notin {"write", "truncated"}
      BY <3>1 DEF EditsKept, EmptiedAlone
    <3>3. target[e] # t
      BY <1>1, <3>1 DEF Emptied
    <3>4. \A b \in Others(e)' : at'[b] \notin {"write", "truncated"}
      BY <1>1, <3>2, <3>3 DEF Others
    <3>5. QED
      BY <1>1, <2>5, <3>1, <3>2, <3>4
  <2>8. QED
    BY <2>2, <2>3, <2>6, <2>7 DEF EditsKept
<1>4. QED
  BY <1>1, <1>2, <1>3

LEMMA TruncateKeeps ==
  ASSUME EditType, EditType', EditsKept, NEW c \in Command, Truncate(c)
  PROVE  EditsKept'
<1> DEFINE t == target[c]
<1>1. /\ UNCHANGED <<call, target, draft, agreed>> /\ clobbered \subseteq clobbered'
      /\ at[c] = "write" /\ at'[c] = "truncated" /\ t \in DOMAIN Original
      /\ t \notin clobbered' => \A e \in Others(c) : at[e] \notin {"write", "truncated"}
      /\ \A e \in Command \ {c} : at'[e] = at[e]
      /\ disk'[t] = EmptyDocument /\ \A d \in DOMAIN Original \ {t} : disk'[d] = disk[d]
  <2>1. at[c] = "write" /\ t \in DOMAIN Original /\ t \in DOMAIN disk
    BY DEF Truncate, EditType, EditorTypeOK
  <2>2. /\ UNCHANGED <<call, target, draft, agreed>> /\ clobbered \subseteq clobbered'
        /\ t \notin clobbered' => \A e \in Others(c) : at[e] \notin {"write", "truncated"}
    BY DEF Truncate, workVars
  <2>3. at'[c] = "truncated" /\ \A e \in Command \ {c} : at'[e] = at[e]
    BY DEF Truncate, Proceed, EditType, EditorTypeOK
  <2>4. disk' = [disk EXCEPT ![t] = EmptyDocument]
    BY DEF Truncate
  <2>5. DOMAIN disk = DOMAIN Original
    BY DEF EditType, EditorTypeOK
  <2>6. QED
    BY <2>1, <2>2, <2>3, <2>4, <2>5
<1>2. Emptied(t)' /\ \A d : d # t => (Emptied(d)' <=> Emptied(d))
  BY <1>1 DEF Emptied
<1>3. DiskAgrees'
  BY <1>1, <1>2 DEF EditsKept, DiskAgrees, AgreesWith
<1>4. EditingSound'
  BY <1>1 DEF EditsKept, EditingSound, Sound
<1>5. \A e \in Command : at[e] \in {"write", "truncated"} => (DraftAgrees(e)' <=> DraftAgrees(e))
  <2> TAKE e \in Command
  <2> HAVE at[e] \in {"write", "truncated"}
  <2>1. /\ target[e] \in DOMAIN Original /\ call'[e] = call[e] /\ target'[e] = target[e]
        /\ agreed'[target[e]] = agreed[target[e]] /\ draft'[e] = draft[e]
    BY <1>1 DEF EditType
  <2>2. QED
    BY <2>1, SameDraft
<1>6. WriteAgrees'
  <2> SUFFICES ASSUME NEW e \in Command, at'[e] = "write", target'[e] \notin clobbered'
               PROVE  ~Emptied(target[e])' /\ DraftAgrees(e)'
    BY DEF WriteAgrees
  <2>1. e # c /\ at[e] = "write" /\ target'[e] = target[e] /\ target[e] \notin clobbered
    BY <1>1
  <2>2. ~Emptied(target[e]) /\ DraftAgrees(e)
    BY <2>1 DEF EditsKept, WriteAgrees
  <2>3. target[e] # t
    BY <1>1, <2>1 DEF Others
  <2>4. ~Emptied(target[e])'
    BY <1>1, <2>1, <2>2, <2>3 DEF Emptied
  <2>5. QED
    BY <1>5, <2>1, <2>2, <2>4
<1>7. EmptiedAlone'
  <2> SUFFICES ASSUME NEW e \in Command, at'[e] = "truncated", target'[e] \notin clobbered'
               PROVE  /\ disk'[target'[e]] = EmptyDocument /\ DraftAgrees(e)'
                      /\ \A b \in Others(e)' : at'[b] \notin {"write", "truncated"}
    BY DEF EmptiedAlone
  <2>1. target'[e] = target[e] /\ target[e] \notin clobbered
    BY <1>1
  <2>2. CASE e = c
    <3>1. DraftAgrees(c)
      BY <1>1, <2>1, <2>2 DEF EditsKept, WriteAgrees
    <3>2. \A b \in Others(c)' : at'[b] \notin {"write", "truncated"}
      BY <1>1, <2>1, <2>2 DEF Others
    <3>3. QED
      BY <1>1, <1>5, <2>1, <2>2, <3>1, <3>2
  <2>3. CASE e # c
    <3>1. at[e] = "truncated"
      BY <1>1, <2>3
    <3>2. /\ disk[target[e]] = EmptyDocument /\ DraftAgrees(e)
          /\ \A b \in Others(e) : at[b] \notin {"write", "truncated"}
      BY <2>1, <3>1 DEF EditsKept, EmptiedAlone
    <3>3. target[e] # t
      BY <1>1, <2>3, <3>2 DEF Others
    <3>4. target[e] \in DOMAIN Original
      BY <3>1 DEF EditType
    <3>5. \A b \in Others(e)' : at'[b] \notin {"write", "truncated"}
      BY <1>1, <3>2, <3>3 DEF Others
    <3>6. QED
      BY <1>1, <1>5, <2>1, <3>1, <3>2, <3>3, <3>4, <3>5
  <2>4. QED
    BY <2>2, <2>3
<1>8. QED
  BY <1>3, <1>4, <1>6, <1>7 DEF EditsKept

LEMMA WriteKeeps ==
  ASSUME EditType, EditType', AgreedShape, EditsKept, NEW c \in Command, Write(c)
  PROVE  EditsKept'
<1> DEFINE t == target[c]
<1>1. PICK text \in {draft[c], Garbled} :
         /\ text = Garbled => disk[t] # EmptyDocument
         /\ disk' = [disk EXCEPT ![t] = text]
  BY DEF Write
<1>2. /\ UNCHANGED <<call, target, draft, clobbered>> /\ agreed' = AgreedAfter(c)
      /\ at[c] = "truncated" /\ at'[c] = "locate again" /\ t \in DOMAIN Original
      /\ \A e \in Command \ {c} : at'[e] = at[e]
  BY DEF Write, workVars, Proceed, EditType, EditorTypeOK
<1>3. \A d \in DOMAIN Original \ {t} : agreed'[d] = agreed[d]
  BY <1>2 DEF AgreedAfter, EditType, EditorTypeOK
<1>4. /\ \A d \in DOMAIN Original \ {t} : disk'[d] = disk[d]
      /\ disk'[t] = text
  BY <1>1, <1>2 DEF EditType, EditorTypeOK
<1>5. t \notin clobbered =>
         /\ text = draft[c] /\ DraftAgrees(c)
         /\ \A e \in Others(c) : at[e] \notin {"write", "truncated"}
  BY <1>1, <1>2 DEF EditsKept, EmptiedAlone
<1>6. \A d : d # t => (Emptied(d)' <=> Emptied(d))
  BY <1>2 DEF Emptied
<1>7. DiskAgrees'
  <2> SUFFICES ASSUME NEW d \in DOMAIN Original, d \notin clobbered, ~Emptied(d)'
               PROVE  AgreesWith(disk[d], agreed[d], d)'
    BY <1>2 DEF DiskAgrees
  <2>1. CASE d = t
    <3>1. AgreesWith(draft[c], AgreedAfter(c)[t], t)
      BY <1>5, <2>1 DEF DraftAgrees
    <3>2. QED
      BY <1>2, <1>4, <1>5, <2>1, <3>1 DEF AgreesWith
  <2>2. CASE d # t
    <3>1. AgreesWith(disk[d], agreed[d], d)
      BY <1>6, <2>2 DEF EditsKept, DiskAgrees
    <3>2. QED
      BY <1>3, <1>4, <2>2, <3>1 DEF AgreesWith
  <2>3. QED
    BY <2>1, <2>2
<1>8. EditingSound'
  <2> SUFFICES ASSUME NEW e \in Command, at'[e] \in {"read", "write", "truncated"},
                      target[e] \notin clobbered
               PROVE  Sound(target[e])'
    BY <1>2 DEF EditingSound
  <2>1. at[e] = at'[e] /\ target[e] \in DOMAIN Original
    BY <1>2 DEF EditType
  <2>2. PICK d \in DOMAIN Original : d = target[e]
    BY <2>1
  <2>3. Sound(d)
    BY <2>1, <2>2 DEF EditsKept, EditingSound
  <2>4. Sound(d)'
    BY <2>3, SoundStays DEF EditorNext, EditorStep
  <2>5. QED
    BY <1>2, <2>2, <2>4 DEF Sound
<1>9. \A e \in Command \ {c} :
         at[e] \in {"write", "truncated"} /\ target[e] \notin clobbered =>
             /\ target[e] # t
             /\ DraftAgrees(e)' <=> DraftAgrees(e)
  <2> TAKE e \in Command \ {c}
  <2> HAVE at[e] \in {"write", "truncated"} /\ target[e] \notin clobbered
  <2>1. target[e] # t
    BY <1>5 DEF Others
  <2>2. /\ target[e] \in DOMAIN Original /\ call'[e] = call[e] /\ target'[e] = target[e]
        /\ agreed'[target[e]] = agreed[target[e]] /\ draft'[e] = draft[e]
    BY <1>2, <1>3, <2>1 DEF EditType
  <2>3. QED
    BY <2>1, <2>2, SameDraft
<1>10. WriteAgrees'
  <2> SUFFICES ASSUME NEW e \in Command, at'[e] = "write", target[e] \notin clobbered
               PROVE  ~Emptied(target[e])' /\ DraftAgrees(e)'
    BY <1>2 DEF WriteAgrees
  <2>1. e # c /\ at[e] = "write"
    BY <1>2
  <2>2. ~Emptied(target[e]) /\ DraftAgrees(e)
    BY <2>1 DEF EditsKept, WriteAgrees
  <2>3. ~Emptied(target[e])'
    BY <1>2, <2>2 DEF Emptied
  <2>4. QED
    BY <1>9, <2>1, <2>2, <2>3
<1>11. EmptiedAlone'
  <2> SUFFICES ASSUME NEW e \in Command, at'[e] = "truncated", target[e] \notin clobbered
               PROVE  /\ disk'[target[e]] = EmptyDocument /\ DraftAgrees(e)'
                      /\ \A b \in Others(e)' : at'[b] \notin {"write", "truncated"}
    BY <1>2 DEF EmptiedAlone
  <2>1. e # c /\ at[e] = "truncated" /\ target[e] \in DOMAIN Original
    BY <1>2 DEF EditType
  <2>2. /\ disk[target[e]] = EmptyDocument /\ DraftAgrees(e)
        /\ \A b \in Others(e) : at[b] \notin {"write", "truncated"}
    BY <2>1 DEF EditsKept, EmptiedAlone
  <2>3. \A b \in Others(e)' : at'[b] \notin {"write", "truncated"}
    BY <1>2, <2>2 DEF Others
  <2>4. QED
    BY <1>4, <1>9, <2>1, <2>2, <2>3
<1>12. QED
  BY <1>7, <1>8, <1>10, <1>11 DEF EditsKept

LEMMA EditsKeptStep ==
  ASSUME EditType, EditType', AgreedShape, EditsKept, [EditorNext]_editVars
  PROVE  EditsKept'
<1>1. CASE UNCHANGED editVars
  BY <1>1, EditsKeptSame DEF editVars
<1>2. ASSUME NEW c \in Command, LocateWorkspace(c) PROVE EditsKept'
  <2>1. /\ UNCHANGED <<disk, call, agreed, target, draft, clobbered>>
        /\ at[c] # "truncated" /\ at'[c] \notin {"read", "write", "truncated"}
        /\ \A e \in Command \ {c} : at'[e] = at[e]
    BY <1>2 DEF LocateWorkspace, Proceed, EditType, EditorTypeOK
  <2>2. QED
    BY <2>1, EditsKeptSame
<1>3. ASSUME NEW c \in Command, LoadWorkspace(c) PROVE EditsKept'
  <2> DEFINE read == ReadWorkspace(disk, call[c].dir, found[c], call[c].profile)
             one == MatchOne(read, call[c].dir, call[c].package)
  <2>1. read # Failed /\ one # Failed => one \in clobbered \/ Sound(one)
    <3> SUFFICES ASSUME read # Failed, one # Failed, one \notin clobbered
                 PROVE  Sound(one)
      OBVIOUS
    <3>1. PICK d \in DOMAIN read.packages : d = one
      BY OneMatched
    <3>2. PICK what : what = read
      OBVIOUS
    <3>3. Sound(d)
      <4> HIDE DEF one
      <4>1. /\ what # Failed /\ d \in DOMAIN what.packages /\ d \notin clobbered
            /\ what = ReadWorkspace(disk, call[c].dir, found[c], call[c].profile)
        BY <3>1, <3>2
      <4> HIDE DEF read
      <4>2. QED
        BY <4>1, ReadIsSound DEF EditsKept
    <3>4. QED
      BY <3>1, <3>3
  <2>2. /\ UNCHANGED <<disk, call, agreed, draft, clobbered>>
        /\ at[c] \in {"load", "load again"}
        /\ \/ target' = target /\ \E next \in {"failed", "done"} : Proceed(c, next)
           \/ target' = [target EXCEPT ![c] = one] /\ one = Failed /\ Proceed(c, "failed")
           \/ /\ target' = [target EXCEPT ![c] = one] /\ Proceed(c, "read")
              /\ read # Failed /\ one # Failed
    BY <1>3 DEF LoadWorkspace
  <2> HIDE DEF read, one
  <2>3. /\ \A e \in Command \ {c} : at'[e] = at[e] /\ target'[e] = target[e]
        /\ at[c] # "truncated"
        /\ \/ at'[c] \notin {"read", "write", "truncated"}
           \/ at'[c] = "read" /\ (target'[c] \in clobbered \/ Sound(target'[c]))
    BY <2>1, <2>2 DEF Proceed, EditType, EditorTypeOK
  <2>4. QED
    BY <2>2, <2>3, EditsKeptSame
<1>4. ASSUME NEW c \in Command, CutWrite(c) PROVE EditsKept'
  <2>1. /\ UNCHANGED <<disk, call, agreed, target, draft>>
        /\ clobbered' = clobbered \cup {target[c]}
        /\ at'[c] \notin {"read", "write", "truncated"}
        /\ \A e \in Command \ {c} : at'[e] = at[e]
    BY <1>4 DEF CutWrite, workVars, Proceed, EditType, EditorTypeOK
  <2>2. QED
    BY <2>1, EditsKeptSame
<1>5. QED
  BY <1>1, <1>2, <1>3, <1>4, EditKeeps, TruncateKeeps, WriteKeeps
     DEF EditorNext, EditorStep

LEMMA KeptIsApplied == EditType /\ EditsKept => EditsApplied
<1> SUFFICES ASSUME EditType, EditsKept, NEW d \in DOMAIN disk \ clobbered, ~Emptied(d)
             PROVE  /\ Rest(disk[d]) = Rest(Original[d])
                    /\ \A s \in Section :
                          LET entries == disk[d].dependencies[s]
                          IN  /\ DOMAIN entries = DOMAIN agreed[d][s]
                              /\ \A n \in DOMAIN entries :
                                    \/ Contradicts(entries[n])
                                    \/ Meaning(entries[n], d) = agreed[d][s][n]
  BY DEF EditsApplied, Emptied
<1>1. AgreesWith(disk[d], agreed[d], d) /\ d \in DOMAIN Original
  BY DEF EditsKept, DiskAgrees, EditType, EditorTypeOK
<1>2. QED
  BY <1>1 DEF AgreesWith, Follows

EditsInv == EditType /\ AgreedShape /\ EditsKept

(* For any number of commands: as long as no two edits of a manifest       *)
(* overlap and none is cut, every dependency in it is what was last asked  *)
(* for, from the source given last and with the features it had before,    *)
(* and nothing else in it has changed.                                     *)
THEOREM EditsAddUp == EditorSpec => []EditsApplied
<1>1. EditorInit => EditsInv
  BY EditTypeInit, AgreedShapeInit, EditsKeptInit DEF EditsInv
<1>2. EditsInv /\ [EditorNext]_editVars => EditsInv'
  BY EditTypeStep, AgreedShapeStep, EditsKeptStep DEF EditsInv
<1>3. EditsInv => EditsApplied
  BY KeptIsApplied DEF EditsInv
<1>4. QED
  BY <1>1, <1>2, <1>3, PTL DEF EditorSpec

(* Where a command is to work: in a workspace, or in the package alone     *)
(* that it was called in, if there is no workspace above it, or one that   *)
(* does not have the package.                                              *)
RightWorkspace(read, dir) ==
    \/ /\ read.root \in DOMAIN Original /\ Original[read.root].workspace # Absent
       /\ DOMAIN read.packages = MembersIn(Original, read.root)
    \/ /\ read.root = dir /\ DOMAIN read.packages \subseteq {dir}
       /\ \/ WorkspacesAbove(dir) = {}
          \/ \E a \in WorkspacesAbove(dir) : dir \notin MembersIn(Original, a)

(* find_workspace_manifest_path has found the nearest workspace.           *)
NearestAbove(there, dir) ==
    \/ there = Failed
    \/ there = Absent /\ WorkspacesAbove(dir) = {}
    \/ there \in WorkspacesAbove(dir) /\ (there # dir => dir \notin WorkspacesAbove(dir))

WorkspaceInv ==
    /\ \A c \in Command \ misled : at[c] \in {"load", "load again"} =>
           NearestAbove(found[c], call[c].dir)
    /\ \A c \in Command : ws[c] # Absent =>
           /\ call[c].dir \in DOMAIN ws[c].packages \cup {ws[c].root}
           /\ c \notin misled => RightWorkspace(ws[c], call[c].dir)

LEMMA WorkspaceInvInit == EditorInit => WorkspaceInv
BY DEF EditorInit, WorkspaceInv

LEMMA UpNone ==
  ASSUME NEW dir \in Seq(STRING)
  PROVE  Up(dir, 0) = dir /\ Len(dir) \in Nat
<1>1. Len(dir) \in Nat /\ Len(dir) - 0 = Len(dir)
  OBVIOUS
<1>2. QED
  BY <1>1, SubSeqFull DEF Up

(* Workspaces are above their members.                                     *)
LEMMA AboveMembers ==
  ASSUME NEW root \in DOMAIN Original, Original[root].workspace # Absent,
         NEW d \in MembersIn(Original, root)
  PROVE  root \in WorkspacesAbove(d)
<1>1. d \in DOMAIN Original
  BY MembersAreThere
<1>2. d \in Seq(STRING) /\ root \in Seq(STRING)
  BY <1>1, EditorAssumption
<1>3. CASE d = root
  <2>1. d = Up(d, 0) /\ 0 \in 0 .. Len(d)
    BY <1>2, UpNone
  <2>2. QED
    BY <1>3, <2>1 DEF WorkspacesAbove
<1>4. CASE d # root
  <2>1. PICK p \in Original[root].workspace.members : Matches(root, p, d)
    BY <1>4 DEF MembersIn, MemberPaths
  <2>2. p \in Seq(STRING)
    BY <2>1, EditorAssumption
  <2>3. Len(p) \in 0 .. Len(d) /\ Up(d, Len(p)) = root
    BY <1>2, <2>1, <2>2 DEF Matches
  <2>4. QED
    BY <2>3 DEF WorkspacesAbove
<1>5. QED
  BY <1>3, <1>4

LEMMA LocatedNearest ==
  ASSUME EditType, NEW dir \in Seq(STRING), NEW there, there = Locate(disk, dir),
         \A n \in 0 .. Len(dir) : Up(dir, n) \in DOMAIN disk =>
             disk[Up(dir, n)].workspace = Original[Up(dir, n)].workspace
  PROVE  NearestAbove(there, dir)
<1>1. Len(dir) \in Nat /\ Up(dir, 0) = dir
  BY UpNone
<1>2. DOMAIN disk = DOMAIN Original
  BY DEF EditType, EditorTypeOK
<1>3. \/ there = Failed
      \/ /\ there = Absent
         /\ \A n \in 0 .. Len(dir) :
                Up(dir, n) \in DOMAIN disk => disk[Up(dir, n)].workspace = Absent
      \/ \E n \in 0 .. Len(dir) :
            /\ there = Up(dir, n) /\ there \in DOMAIN disk
            /\ disk[there].workspace # Absent
            /\ \A m \in 0 .. n - 1 :
                  Up(dir, m) \in DOMAIN disk => disk[Up(dir, m)].workspace = Absent
  BY <1>1, Located
<1>4. CASE there = Absent /\ \A n \in 0 .. Len(dir) :
             Up(dir, n) \in DOMAIN disk => disk[Up(dir, n)].workspace = Absent
  <2>1. WorkspacesAbove(dir) = {}
    BY <1>2, <1>4 DEF WorkspacesAbove
  <2>2. QED
    BY <1>4, <2>1 DEF NearestAbove
<1>5. ASSUME NEW n \in 0 .. Len(dir), there = Up(dir, n), there \in DOMAIN disk,
             disk[there].workspace # Absent,
             \A m \in 0 .. n - 1 :
                 Up(dir, m) \in DOMAIN disk => disk[Up(dir, m)].workspace = Absent
      PROVE  NearestAbove(there, dir)
  <2>1. there \in WorkspacesAbove(dir)
    BY <1>2, <1>5 DEF WorkspacesAbove
  <2>2. there # dir => dir \notin WorkspacesAbove(dir)
    <3> SUFFICES ASSUME there # dir, dir \in WorkspacesAbove(dir) PROVE FALSE
      OBVIOUS
    <3>1. n # 0
      BY <1>1, <1>5
    <3>2. 0 \in 0 .. n - 1 /\ 0 \in 0 .. Len(dir)
      BY <1>1, <3>1
    <3>3. dir \in DOMAIN disk /\ Original[dir].workspace # Absent
      BY <1>2 DEF WorkspacesAbove
    <3>4. QED
      BY <1>1, <1>5, <3>2, <3>3
  <2>3. QED
    BY <2>1, <2>2 DEF NearestAbove
<1>6. QED
  BY <1>3, <1>4, <1>5 DEF NearestAbove

(* What is read of a root is what was there at the start.                  *)
LEMMA RootMembers ==
  ASSUME EditType, NEW root \in DOMAIN Original, NEW profile,
         NEW read, read = ReadRoot(disk, root, profile), read # Failed
  PROVE  /\ read.root = root /\ DOMAIN read.packages = MembersIn(Original, root)
         /\ Original[root].workspace = Absent => DOMAIN read.packages \subseteq {root}
<1>1. DOMAIN disk = DOMAIN Original
  BY DEF EditType, EditorTypeOK
<1>2. /\ read.root = root /\ DOMAIN read.packages = MembersIn(disk, root)
      /\ disk[root].name # Absent \/ disk[root].workspace # Absent
  BY RootRead
<1>3. disk[root].name = Original[root].name /\ disk[root].workspace = Original[root].workspace
  BY <1>2, ReadableIsOriginal
<1>4. MembersIn(disk, root) = MembersIn(Original, root)
  BY <1>1, <1>3 DEF MembersIn, MemberPaths
<1>5. Original[root].workspace = Absent => MembersIn(Original, root) \subseteq {root}
  BY DEF MembersIn, MemberPaths
<1>6. QED
  BY <1>2, <1>4, <1>5

LEMMA ReadIsRight ==
  ASSUME EditType, NEW c \in Command, NEW read, read # Failed,
         read = ReadWorkspace(disk, call[c].dir, found[c], call[c].profile)
  PROVE  /\ call[c].dir \in DOMAIN read.packages \cup {read.root}
         /\ NearestAbove(found[c], call[c].dir) => RightWorkspace(read, call[c].dir)
<1> DEFINE dir == call[c].dir
           profile == call[c].profile
<1>1. dir \in Seq(STRING)
  BY CallIsKnown, EditorAssumption
<1>2. /\ found[c] # Failed /\ dir \in DOMAIN Original
      /\ \/ found[c] = Absent /\ read = ReadRoot(disk, dir, profile)
         \/ /\ found[c] # Absent /\ read = ReadRoot(disk, found[c], profile)
            /\ found[c] = dir \/ dir \in DOMAIN read.packages
         \/ /\ found[c] # Absent /\ found[c] # dir
            /\ ReadRoot(disk, found[c], profile) # Failed
            /\ dir \notin DOMAIN ReadRoot(disk, found[c], profile).packages
            /\ read = ReadRoot(disk, dir, profile)
  BY WorkspaceRead DEF EditType, EditorTypeOK
<1>3. found[c] # Absent => found[c] \in DOMAIN Original
  BY <1>2 DEF EditType, EditorTypeOK
<1>4. dir = Up(dir, 0) /\ 0 \in 0 .. Len(dir)
  BY <1>1, UpNone
<1>5. dir \notin WorkspacesAbove(dir) => Original[dir].workspace = Absent
  BY <1>2, <1>4 DEF WorkspacesAbove
<1> HIDE DEF dir, profile
<1>6. CASE found[c] = Absent /\ read = ReadRoot(disk, dir, profile)
  <2>1. /\ read.root = dir
        /\ Original[dir].workspace = Absent => DOMAIN read.packages \subseteq {dir}
    BY <1>2, <1>6, RootMembers
  <2>2. NearestAbove(found[c], dir) => WorkspacesAbove(dir) = {}
    BY <1>6, <1>2, EditorAssumption DEF NearestAbove, WorkspacesAbove
  <2>3. QED
    BY <1>5, <2>1, <2>2 DEF RightWorkspace, dir
<1>7. CASE /\ found[c] # Absent /\ read = ReadRoot(disk, found[c], profile)
           /\ found[c] = dir \/ dir \in DOMAIN read.packages
  <2>1. read.root = found[c] /\ DOMAIN read.packages = MembersIn(Original, found[c])
    BY <1>3, <1>7, RootMembers
  <2>2. NearestAbove(found[c], dir) => Original[found[c]].workspace # Absent
    BY <1>2, <1>7 DEF NearestAbove, WorkspacesAbove
  <2>3. QED
    BY <1>3, <1>7, <2>1, <2>2 DEF RightWorkspace, dir
<1>8. CASE /\ found[c] # Absent /\ found[c] # dir
           /\ ReadRoot(disk, found[c], profile) # Failed
           /\ dir \notin DOMAIN ReadRoot(disk, found[c], profile).packages
           /\ read = ReadRoot(disk, dir, profile)
  <2>1. /\ read.root = dir
        /\ Original[dir].workspace = Absent => DOMAIN read.packages \subseteq {dir}
    BY <1>2, <1>8, RootMembers
  <2>2. PICK candidate : candidate = ReadRoot(disk, found[c], profile)
    OBVIOUS
  <2>3. dir \notin MembersIn(Original, found[c])
    BY <1>3, <1>8, <2>2, RootMembers
  <2>4. NearestAbove(found[c], dir) =>
           found[c] \in WorkspacesAbove(dir) /\ dir \notin WorkspacesAbove(dir)
    BY <1>2, <1>8 DEF NearestAbove
  <2>5. QED
    BY <1>5, <2>1, <2>3, <2>4 DEF RightWorkspace, dir
<1>9. QED
  BY <1>2, <1>6, <1>7, <1>8

LEMMA WorkspaceInvStep ==
  ASSUME EditType, EditType', WorkspaceInv, [EditorNext]_editVars
  PROVE  WorkspaceInv'
<1>1. ASSUME UNCHANGED <<call, ws, misled>>,
             \A c \in Command : at'[c] \in {"load", "load again"} =>
                 at[c] \in {"load", "load again"} /\ found'[c] = found[c]
      PROVE  WorkspaceInv'
  BY <1>1 DEF WorkspaceInv, RightWorkspace, NearestAbove
<1>2. CASE UNCHANGED editVars
  BY <1>1, <1>2 DEF editVars
<1>3. ASSUME NEW c \in Command, LocateWorkspace(c) PROVE WorkspaceInv'
  <2>1. call[c].dir \in Seq(STRING) /\ c \in Command
    BY CallIsKnown, EditorAssumption
  <2>2. /\ UNCHANGED <<call, ws, disk>> /\ misled \subseteq misled'
        /\ found'[c] = Locate(disk, call[c].dir)
        /\ \A e \in Command \ {c} : at'[e] = at[e] /\ found'[e] = found[e]
        /\ c \notin misled' => \A n \in 0 .. Len(call[c].dir) :
               Up(call[c].dir, n) \in DOMAIN disk =>
                   disk[Up(call[c].dir, n)].workspace
                       = Original[Up(call[c].dir, n)].workspace
    BY <1>3 DEF LocateWorkspace, Proceed, EditType, EditorTypeOK
  <2>3. c \notin misled' => NearestAbove(found'[c], call[c].dir)
    BY <2>1, <2>2, LocatedNearest
  <2>4. QED
    BY <2>2, <2>3 DEF WorkspaceInv, RightWorkspace, NearestAbove
<1>4. ASSUME NEW c \in Command, LoadWorkspace(c) PROVE WorkspaceInv'
  <2> DEFINE read == ReadWorkspace(disk, call[c].dir, found[c], call[c].profile)
  <2>1. /\ UNCHANGED <<call, found, misled>> /\ at[c] \in {"load", "load again"}
        /\ \A e \in Command \ {c} : at'[e] = at[e]
        /\ at'[c] \notin {"load", "load again"}
        /\ \/ ws' = ws
           \/ read # Failed /\ ws' = [ws EXCEPT ![c] = read]
    BY <1>4 DEF LoadWorkspace, Proceed, EditType, EditorTypeOK
  <2>2. CASE ws' = ws
    BY <1>1, <2>1, <2>2
  <2>3. CASE read # Failed /\ ws' = [ws EXCEPT ![c] = read]
    <3>1. /\ call[c].dir \in DOMAIN read.packages \cup {read.root}
          /\ NearestAbove(found[c], call[c].dir) => RightWorkspace(read, call[c].dir)
      BY <2>3, ReadIsRight
    <3>2. ws'[c] = read /\ \A e \in Command \ {c} : ws'[e] = ws[e]
      BY <2>3 DEF EditType
    <3> HIDE DEF read
    <3>3. QED
      BY <2>1, <3>1, <3>2 DEF WorkspaceInv, RightWorkspace, NearestAbove
  <2>4. QED
    BY <2>1, <2>2, <2>3
<1>5. ASSUME NEW c \in Command,
             ReadAndEdit(c) \/ Truncate(c) \/ Write(c) \/ CutWrite(c)
      PROVE  WorkspaceInv'
  <2>1. /\ UNCHANGED <<call, ws, misled, found>>
        /\ \A e \in Command : at'[e] \in {"load", "load again"} =>
               at[e] \in {"load", "load again"}
    BY <1>5
       DEF ReadAndEdit, Truncate, Write, CutWrite, workVars, Proceed, EditType,
       EditorTypeOK
  <2>2. QED
    BY <1>1, <2>1
<1>6. QED
  BY <1>2, <1>3, <1>4, <1>5 DEF EditorNext, EditorStep

LEMMA RightIsOne ==
  ASSUME NEW one, NEW other, NEW dir, NEW from, RightWorkspace(one, dir),
         RightWorkspace(other, from),
         NEW d \in DOMAIN one.packages \cap DOMAIN other.packages
  PROVE  one.root = other.root \/ \E a, b \in WorkspacesAbove(d) : a # b
<1> DEFINE Whole(read) == /\ read.root \in DOMAIN Original
                          /\ Original[read.root].workspace # Absent
                          /\ DOMAIN read.packages = MembersIn(Original, read.root)
           Alone(read) == /\ read.root = d
                          /\ \/ WorkspacesAbove(d) = {}
                             \/ \E a \in WorkspacesAbove(d) : d \notin MembersIn(Original, a)
<1>1. (Whole(one) \/ Alone(one)) /\ (Whole(other) \/ Alone(other))
  BY DEF RightWorkspace
<1>2. \A read \in {one, other} : Whole(read) => read.root \in WorkspacesAbove(d)
  BY AboveMembers
<1>3. QED
  BY <1>1, <1>2

LEMMA WorkspaceInvIsOne == WorkspaceInv => OneWorkspace
<1> SUFFICES ASSUME WorkspaceInv, NEW c \in Command, ws[c] # Absent
             PROVE  /\ call[c].dir \in DOMAIN ws[c].packages \cup {ws[c].root}
                    /\ \A e \in {b \in Command : ws[b] # Absent} :
                          c \notin misled /\ e \notin misled =>
                             \A d \in DOMAIN ws[c].packages \cap DOMAIN ws[e].packages :
                                \/ ws[c].root = ws[e].root
                                \/ \E a, b \in WorkspacesAbove(d) : a # b
  BY DEF OneWorkspace
<1>1. call[c].dir \in DOMAIN ws[c].packages \cup {ws[c].root}
  BY DEF WorkspaceInv
<1>2. ASSUME NEW e \in Command, ws[e] # Absent, c \notin misled, e \notin misled,
             NEW d \in DOMAIN ws[c].packages \cap DOMAIN ws[e].packages
      PROVE  \/ ws[c].root = ws[e].root
             \/ \E a, b \in WorkspacesAbove(d) : a # b
  <2>1. RightWorkspace(ws[c], call[c].dir) /\ RightWorkspace(ws[e], call[e].dir)
    BY <1>2 DEF WorkspaceInv
  <2>2. QED
    BY <2>1, RightIsOne
<1>3. QED
  BY <1>1, <1>2

(* Whichever command reads a package, from whichever directory, works in   *)
(* the same workspace, in which it was called, unless there are two on     *)
(* the way up or a manifest above was being edited.                        *)
THEOREM OneWorkspaceEach == EditorSpec => []OneWorkspace
<1>1. EditorInit => EditType /\ WorkspaceInv
  BY EditTypeInit, WorkspaceInvInit
<1>2. EditType /\ WorkspaceInv /\ [EditorNext]_editVars => EditType' /\ WorkspaceInv'
  BY EditTypeStep, WorkspaceInvStep
<1>3. WorkspaceInv => OneWorkspace
  BY WorkspaceInvIsOne
<1>4. QED
  BY <1>1, <1>2, <1>3, PTL DEF EditorSpec
=============================================================================
