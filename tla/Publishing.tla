----------------------------- MODULE Publishing -----------------------------
(***************************************************************************)
(* `scarb publish` to a local registry (src/scarb/src/ops/publish.rs,      *)
(* core/registry/client/local.rs) and the commands that fetch a package    *)
(* from it (sources/registry.rs, client/cache.rs), all at once.            *)
(*                                                                         *)
(* A run of `scarb publish` packages as in Packaging.  It takes the digest *)
(* of the tarball, lets go of its lock, copies whatever is under its name  *)
(* over the archive of the registry, and rewrites the records of the       *)
(* package, under the lock of the records file.  Neither the copy nor the  *)
(* readers of the records take that lock.  A publisher may also come from  *)
(* another target directory; its tarball is ready.                         *)
(*                                                                         *)
(* `disturbed`, `lost` and `rewritten` are history: they name the causes   *)
(* for which the properties make an exception.                             *)
(***************************************************************************)
EXTENDS Packaging, PackageArchive

CONSTANTS Elsewhere,  \* publishers from other target directories
          Client,     \* commands that fetch the package
          Version,
          PackagesOf, \* of each publisher: what its package may be
          AllowDirty,
          NoArchive, \* nothing is there
          Partial,   \* one copy is being written, or was cut
          Mixed      \* what several copies at once leave

Publisher == Process \cup Elsewhere

ASSUME PublishingAssumption ==
    /\ Elsewhere \cap Process = {} /\ AllowDirty \in BOOLEAN
    /\ \A p \in Publisher : \A pkg \in PackagesOf[p] : pkg.version \in Version

VARIABLES
    pkg,       \* of each publisher: the package as it is on the disk
    tarball,   \* of each inode: the archive written to it last
    up,        \* the progress of each publication
    digest,    \* of each publication: the archive it took the digest of
    copied,    \* of each publication: the archive it copies
    list,      \* of each publication: the records it has read
    dl,        \* of each version: the archive in the registry
    recfile,   \* the records file: "absent", "empty", "torn" or "whole"
    records,   \* the records in the file
    holder,    \* the publications that hold the lock of the records file
    get,       \* the progress of each client
    expected,  \* of each client: the record it resolved to; then the one it
               \* verifies the archive against
    unpacked,  \* of each client: the archive whose sources it uses
    store,     \* of each version: the archive unpacked in the cache
    announced, \* the versions that some publication has recorded
    disturbed, \* versions whose publications overlapped, or were cut
    lost,      \* a publication lost the records it had read
    stale,     \* versions published again after they were unpacked
    rewritten  \* clients whose archive was overwritten since they verified it

registryVars == <<dl, recfile, records, holder>>
publicationVars == <<up, digest, copied, list>>
clientVars == <<get, expected, unpacked, store>>
historyVars == <<announced, disturbed, lost, stale, rewritten>>
newVars == <<pkg, tarball, publicationVars, registryVars, clientVars,
             historyVars>>
allVars == <<vars, newVars>>

ArchiveContent == {Archive(q) : q \in UNION {PackagesOf[p] : p \in Publisher}}

(* What is no archive is told from one.                                    *)
ASSUME ContentAssumption ==
    ArchiveContent \cap {NoArchive, Partial, Mixed} = {}

Records == {RecordOf(q, a) : q \in UNION {PackagesOf[p] : p \in Publisher},
                             a \in ArchiveContent}
NoRecord == [version |-> "none", dependencies |-> {}, checksum |-> NoArchive]

Uploading == {"hashed", "copying", "copied", "opened", "locked", "read",
              "cleared"}

PublishingTypeOK ==
    /\ TypeOK
    /\ \A p \in Publisher : pkg[p] \in PackagesOf[p]
    /\ tarball \in [Inode -> ArchiveContent \cup {NoArchive}]
    /\ up \in [Publisher -> {"none", "done", "stopped"} \cup Uploading]
    /\ digest \in [Publisher -> ArchiveContent \cup {NoArchive}]
    /\ copied \in [Publisher -> ArchiveContent \cup {NoArchive}]
    /\ list \in [Publisher -> SUBSET Records]
    /\ dl \in [Version -> ArchiveContent
                              \cup {NoArchive, Partial, Mixed}]
    /\ recfile \in {"absent", "empty", "torn", "whole"}
    /\ records \subseteq Records
    /\ \A p \in holder : up[p] \in {"locked", "read", "cleared"}
    /\ Cardinality(holder) <= 1
    /\ get \in [Client -> {"idle", "resolved", "opened", "checked",
                           "verified", "done", "failed"}]
    /\ expected \in [Client -> Records \cup {NoRecord}]
    /\ unpacked \in [Client -> ArchiveContent \cup {NoArchive}]
    /\ store \in [Version -> ArchiveContent \cup {NoArchive}]
    /\ announced \cup disturbed \cup stale \subseteq Version
    /\ lost \in BOOLEAN /\ rewritten \subseteq Client

PublishingInit ==
    /\ Init
    /\ pkg \in {f \in [Publisher -> UNION {PackagesOf[p] : p \in Publisher}] :
                   \A p \in Publisher : f[p] \in PackagesOf[p]}
    /\ tarball = [i \in Inode |-> NoArchive]
    /\ up = [p \in Publisher |-> IF p \in Elsewhere THEN "hashed" ELSE "none"]
    /\ digest = [p \in Publisher |-> IF p \in Elsewhere THEN Archive(pkg[p])
                                                        ELSE NoArchive]
    /\ copied = [p \in Publisher |-> NoArchive]
    /\ list = [p \in Publisher |-> {}]
    /\ dl = [v \in Version |-> NoArchive]
    /\ recfile = "absent" /\ records = {} /\ holder = {}
    /\ get = [c \in Client |-> "idle"]
    /\ expected = [c \in Client |-> NoRecord]
    /\ unpacked = [c \in Client |-> NoArchive]
    /\ store = [v \in Version |-> NoArchive]
    /\ announced = {} /\ disturbed = {} /\ stale = {}
    /\ lost = FALSE /\ rewritten = {}

VersionOf(p) == pkg[p].version

-----------------------------------------------------------------------------
(* Packaging, with what goes into the tarball                              *)

(* prepare_archive_recipe comes before the scratch file.                   *)
OpenScratch(p) ==
    /\ ~RecipeFails(pkg[p], AllowDirty) /\ ~RecipePanics(pkg[p])
    /\ Open(p)
    /\ UNCHANGED newVars

(* `tar`; the manifest is normalised while the archive is written.         *)
WriteArchive(p) ==
    /\ Normalizable(pkg[p])
    /\ EndWriting(p)
    /\ tarball' = [tarball EXCEPT ![handle[p]] = Archive(pkg[p])]
    /\ UNCHANGED <<pkg, publicationVars, registryVars, clientVars,
                   historyVars>>

(* The tarball is not to be published, or cannot be read again.            *)
JustPackage(p) ==
    /\ Finish(p)
    /\ UNCHANGED newVars

PackageStep(p) ==
    \/ /\ \/ StartScript(p) \/ EndScript(p) \/ Lock(p) \/ StartWriting(p)
          \/ Verify(p) \/ SkipVerification(p) \/ Rename(p) \/ Fail(p)
          \/ Crash(p)
       /\ UNCHANGED newVars
    \/ OpenScratch(p) \/ WriteArchive(p) \/ JustPackage(p)

-----------------------------------------------------------------------------
(* publish_impl                                                            *)

Upload(p, place) == up' = [up EXCEPT ![p] = place]

(* The digest of the tarball is taken with its lock held; then the guard   *)
(* is dropped.                                                             *)
Hash(p) ==
    /\ p \in Process /\ pkg[p].publish
    /\ Finish(p)
    /\ digest' = [digest EXCEPT ![p] = tarball[handle[p]]]
    /\ Upload(p, "hashed")
    /\ UNCHANGED <<pkg, tarball, copied, list, registryVars, clientVars,
                   historyVars>>

Copying(v) == {p \in Publisher : VersionOf(p) = v /\ up[p] = "copying"}
Publishing(v) == {p \in Publisher : VersionOf(p) = v
                                       /\ up[p] \in Uploading \ {"hashed"}}

(* fsx::copy opens the tarball by name, and truncates its target.          *)
StartCopy(p) ==
    /\ up[p] = "hashed"
    /\ LET a == IF p \in Elsewhere THEN digest[p] ELSE tarball[final]
           v == VersionOf(p)
       IN  /\ copied' = [copied EXCEPT ![p] = a]
           /\ dl' = [dl EXCEPT ![v] = IF Copying(v) = {} THEN Partial
                                                         ELSE Mixed]
           /\ disturbed' = IF Publishing(v) = {} /\ a = digest[p]
                           THEN disturbed \ {v} ELSE disturbed \cup {v}
           /\ stale' = IF store[v] = NoArchive THEN stale
                                             ELSE stale \cup {v}
           /\ rewritten' = rewritten \cup
                  {c \in Client : get[c] = "verified"
                                     /\ expected[c].version = v}
    /\ Upload(p, "copying")
    /\ UNCHANGED <<vars, pkg, tarball, digest, list, recfile, records, holder,
                   clientVars, announced, lost>>

(* The last of several copies to one file may leave anything there.        *)
EndCopy(p) ==
    /\ up[p] = "copying"
    /\ LET v == VersionOf(p) IN
       \E a \in {copied[p], Mixed} :
          /\ dl[v] = Partial => a = copied[p]
          /\ Copying(v) # {p} => a = Mixed
          /\ dl' = [dl EXCEPT ![v] = a]
    /\ Upload(p, "copied")
    /\ UNCHANGED <<vars, pkg, tarball, digest, copied, list, recfile, records,
                   holder, clientVars, historyVars>>

(* edit_records: the file is opened, or made.                              *)
OpenRecords(p) ==
    /\ up[p] = "copied"
    /\ recfile' = IF recfile = "absent" THEN "empty" ELSE recfile
    /\ Upload(p, "opened")
    /\ UNCHANGED <<vars, pkg, tarball, digest, copied, list, dl, records,
                   holder, clientVars, historyVars>>

LockRecords(p) ==
    /\ up[p] = "opened" /\ holder = {}
    /\ holder' = {p}
    /\ Upload(p, "locked")
    /\ UNCHANGED <<vars, pkg, tarball, digest, copied, list, dl, recfile,
                   records, clientVars, historyVars>>

(* A file that is torn does not parse: see FailUpload.                     *)
ReadRecords(p) ==
    /\ up[p] = "locked" /\ recfile \in {"empty", "whole"}
    /\ list' = [list EXCEPT ![p] = IF recfile = "empty" THEN {} ELSE records]
    /\ Upload(p, "read")
    /\ UNCHANGED <<vars, pkg, tarball, digest, copied, registryVars,
                   clientVars, historyVars>>

(* set_len(0).                                                             *)
ClearRecords(p) ==
    /\ up[p] = "read"
    /\ recfile' = "empty"
    /\ Upload(p, "cleared")
    /\ UNCHANGED <<vars, pkg, tarball, digest, copied, list, dl, records,
                   holder, clientVars, historyVars>>

(* Mutant of Revised: the record of the version stays as it was.           *)
Revised_KeepsOld(p) ==
    list[p] \cup {r \in {RecordOf(pkg[p], digest[p])} :
                     \A s \in list[p] : s.version # VersionOf(p)}

(* The record of the version is replaced.                                  *)
Revised(p) == {r \in list[p] : r.version # VersionOf(p)}
                  \cup {RecordOf(pkg[p], digest[p])}

(* The buffer is flushed when it is dropped, and an error of that flush    *)
(* goes unnoticed: the publication succeeds.                               *)
WriteRecords(p) ==
    /\ up[p] = "cleared"
    /\ holder' = holder \ {p}
    /\ Upload(p, "done")
    /\ \/ /\ recfile' = "whole" /\ records' = Revised(p)
          /\ announced' = announced \cup {VersionOf(p)}
          /\ UNCHANGED <<disturbed, lost>>
       \/ /\ recfile' \in {"empty", "torn"} /\ lost' = TRUE
          /\ disturbed' = disturbed \cup {VersionOf(p)}
          /\ UNCHANGED <<records, announced>>
    /\ UNCHANGED <<vars, pkg, tarball, digest, copied, list, dl, clientVars,
                   stale, rewritten>>

(* An error, or the process is killed; set_len may already have emptied     *)
(* the file, and the records may be half written.                          *)
StopUpload(p) ==
    /\ up[p] \in Uploading
    /\ Upload(p, "stopped")
    /\ holder' = holder \ {p}
    /\ disturbed' = IF up[p] = "hashed" THEN disturbed
                                        ELSE disturbed \cup {VersionOf(p)}
    /\ IF up[p] = "cleared" THEN recfile' \in {"empty", "torn"} /\ lost' = TRUE
                            ELSE UNCHANGED <<recfile, lost>>
    /\ UNCHANGED <<vars, pkg, tarball, digest, copied, list, dl, records,
                   clientVars, announced, stale, rewritten>>

UploadStep(p) ==
    \/ Hash(p) \/ StartCopy(p) \/ EndCopy(p) \/ OpenRecords(p)
    \/ LockRecords(p) \/ ReadRecords(p) \/ ClearRecords(p) \/ WriteRecords(p)
    \/ StopUpload(p)

-----------------------------------------------------------------------------
(* A command that fetches a version of the package                         *)

Get(c, place) == get' = [get EXCEPT ![c] = place]

RegistryUnchanged ==
    UNCHANGED <<vars, pkg, tarball, publicationVars, registryVars, announced,
                disturbed, lost, stale>>

(* get_records, without the lock; the resolver picks a version.            *)
Resolve(c) ==
    /\ get[c] = "idle" /\ recfile = "whole"
    /\ \E r \in records : expected' = [expected EXCEPT ![c] = r]
    /\ Get(c, "resolved")
    /\ RegistryUnchanged /\ UNCHANGED <<unpacked, store, rewritten>>

(* download: the archive is opened where it lies.                          *)
OpenArchive(c) ==
    /\ get[c] = "resolved" /\ dl[expected[c].version] # NoArchive
    /\ Get(c, "opened")
    /\ RegistryUnchanged /\ UNCHANGED <<expected, unpacked, store, rewritten>>

(* get_record_maybe_uncached: these records are never cached, so the file  *)
(* is read again.                                                          *)
ReadRecordAgain(c) ==
    /\ get[c] = "opened" /\ recfile = "whole"
    /\ \E r \in records :
          /\ r.version = expected[c].version
          /\ expected' = [expected EXCEPT ![c] = r]
    /\ Get(c, "checked")
    /\ RegistryUnchanged /\ UNCHANGED <<unpacked, store, rewritten>>

(* Mutant of VerifyChecksum: the digest is not compared.                   *)
VerifyChecksum_Trusting(c) ==
    /\ get[c] = "checked"
    /\ Get(c, "verified")
    /\ RegistryUnchanged /\ UNCHANGED <<expected, unpacked, store, rewritten>>

VerifyChecksum(c) ==
    /\ get[c] = "checked" /\ dl[expected[c].version] = expected[c].checksum
    /\ Get(c, "verified")
    /\ RegistryUnchanged /\ UNCHANGED <<expected, unpacked, store, rewritten>>

(* The archive is read again, unless the sources of that version are       *)
(* there: they are kept by name and version, not by digest.                *)
Unpack(c) ==
    /\ get[c] = "verified"
    /\ LET v == expected[c].version
           a == IF store[v] = NoArchive THEN dl[v] ELSE store[v]
       IN  /\ a \in ArchiveContent
           /\ unpacked' = [unpacked EXCEPT ![c] = a]
           /\ store' = [store EXCEPT ![v] = a]
           /\ rewritten' = IF v \in stale THEN rewritten \cup {c}
                                          ELSE rewritten
    /\ Get(c, "done")
    /\ RegistryUnchanged /\ UNCHANGED expected

(* No such package, records that do not parse, no archive, a wrong digest, *)
(* an archive that does not unpack, or another error.                      *)
GiveUp(c) ==
    /\ get[c] \notin {"done", "failed"}
    /\ Get(c, "failed")
    /\ RegistryUnchanged /\ UNCHANGED <<expected, unpacked, store, rewritten>>

ClientStep(c) ==
    \/ Resolve(c) \/ OpenArchive(c) \/ ReadRecordAgain(c)
    \/ VerifyChecksum(c) \/ Unpack(c) \/ GiveUp(c)

PublishingNext ==
    \/ \E p \in Process : PackageStep(p)
    \/ \E p \in Publisher : UploadStep(p)
    \/ \E c \in Client : ClientStep(c)

PublishingSpec == PublishingInit /\ [][PublishingNext]_allVars

-----------------------------------------------------------------------------
(* A tarball under its final name can be used anywhere: its manifest can   *)
(* be read, and each dependency comes from a registry, "maximal            *)
(* compatibility" (package.rs:514): no path and no repository of the       *)
(* author's machine is left.                                               *)
ArchivesStandAlone ==
    final # NoFile =>
        \A t \in tarball[final].manifest.dependencies :
            ~Unreadable(t) /\ IsRegistry(Dependency(t).source)

(* A version that a publication has recorded stays in the index, whatever  *)
(* is published at the same time, unless a publication was cut short       *)
(* between truncating the records and writing them (local.rs:236-243).     *)
(* Between publications of a version its record describes the archive in   *)
(* the registry.  The exceptions are publications of one version that      *)
(* overlap, one cut short, and a tarball replaced between its digest and   *)
(* its copy (local.rs:171-176).                                            *)
RecordedArchives ==
    /\ lost \/ announced \subseteq {r.version : r \in records}
    /\ recfile = "whole" =>
           \A r \in records :
               \/ r.version \in disturbed \/ Publishing(r.version) # {}
               \/ dl[r.version] = r.checksum

(* A command uses the sources it has verified, and their dependencies are  *)
(* those of the record; but for a version published again after it was     *)
(* verified or unpacked.                                                   *)
InstalledAsRecorded ==
    \A c \in Client :
        get[c] = "done" /\ c \notin rewritten =>
            /\ unpacked[c] = expected[c].checksum
            /\ expected[c].dependencies =
                  {[name |-> d.name, req |-> d.req] :
                      d \in {e \in Dependencies(
                                      unpacked[c].manifest.dependencies) :
                                e.kind = "normal"}}
=============================================================================
