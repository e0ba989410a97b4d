-------------------------- MODULE ArchiveDownload --------------------------
(***************************************************************************)
(* The archive of a registry package: RegistryClientCache downloads it     *)
(* through an HTTP client into the `dl` directory and compares it with the *)
(* checksum of the index, once; RegistrySource has it extracted            *)
(* (src/scarb/src/core/registry/client/cache.rs, client/http.rs,           *)
(* sources/registry.rs).  A process holds the lock of the registry's       *)
(* database from its first query until it has resolved, so that one        *)
(* process at a time downloads.  Extraction is that of Extraction.         *)
(***************************************************************************)
EXTENDS Extraction

VARIABLES
    dbusers, \* the processes that hold the lock of the registry's database
    archive, \* the archive in `dl`
    got,     \* the archive each process has open
    sources, \* the archive the extracted files come from
    suspect  \* history: an archive that failed verification was used later

dlVars == <<dbusers, archive, got, sources, suspect>>

(* `partial` is one that was cut short, `wrong` one that is whole and not  *)
(* what the index describes.                                               *)
Archives == {"absent", "empty", "partial", "wrong", "right"}

Database == INSTANCE ProcessLock
                WITH Task <- Process, ProcessOf <- [p \in Process |-> p],
                     users <- dbusers

DlInside == {"dl querying", "dl saving", "dl verifying"}

DownloadTypeOK ==
    /\ dbusers \subseteq Process
    /\ archive \in Archives /\ sources \in Archives
    /\ got \in [Process -> Archives]
    /\ suspect \in BOOLEAN

DownloadInit ==
    /\ dbusers = {} /\ archive = "absent" /\ sources = "absent"
    /\ got = [p \in Process |-> "absent"]
    /\ suspect = FALSE

OnlyDownloading == UNCHANGED <<users, files, left, ok, trampled, crashes>>

-----------------------------------------------------------------------------
(* db(), at the first query of the registry.                               *)
OpenDatabase(p) ==
    /\ pc[p] = "dl waiting" /\ Database!Enter(p)
    /\ Go(p, "dl querying")
    /\ OnlyDownloading /\ UNCHANGED <<archive, got, sources, suspect>>

(* is_package_downloaded: an archive that is not empty is used unverified. *)
UseDownloaded(p) ==
    /\ pc[p] = "dl querying" /\ archive \notin {"absent", "empty"}
    /\ got' = [got EXCEPT ![p] = archive]
    /\ suspect' = (suspect \/ archive = "wrong")
    /\ Go(p, "start")
    /\ OnlyDownloading /\ UNCHANGED <<dbusers, archive, sources>>

(* Otherwise it is requested, and create_rw makes the file anew.           *)
Request(p) ==
    /\ pc[p] = "dl querying" /\ archive \in {"absent", "empty"}
    /\ archive' = "empty"
    /\ got' = [got EXCEPT ![p] = "empty"]
    /\ Go(p, "dl saving")
    /\ OnlyDownloading /\ UNCHANGED <<dbusers, sources, suspect>>

(* What p has written is in `dl`, unless a cleaner unlinked the file.      *)
Save(p, content) ==
    /\ got' = [got EXCEPT ![p] = content]
    /\ archive' = IF archive = "absent" THEN "absent" ELSE content

SaveChunk(p) ==
    /\ pc[p] = "dl saving" /\ got[p] = "empty"
    /\ Save(p, "partial")
    /\ OnlyDownloading /\ UNCHANGED <<pc, dbusers, sources, suspect>>

EndDownload(p) ==
    /\ pc[p] = "dl saving" /\ got[p] = "partial"
    /\ \E whole \in {"wrong", "right"} : Save(p, whole)
    /\ Go(p, "dl verifying")
    /\ OnlyDownloading /\ UNCHANGED <<dbusers, sources, suspect>>

(* Mutant of VerifyDownload: any archive will do.                          *)
VerifyDownload_Any(p) ==
    /\ pc[p] = "dl verifying"
    /\ Go(p, "start")
    /\ OnlyDownloading /\ UNCHANGED dlVars

VerifyDownload(p) ==
    /\ pc[p] = "dl verifying" /\ got[p] = "right"
    /\ Go(p, "start")
    /\ OnlyDownloading /\ UNCHANGED dlVars

(* Extraction ends with the mark; a cut archive does not decompress.       *)
MarkSources(p) ==
    /\ Mark(p) /\ got[p] # "partial"
    /\ sources' = got[p]
    /\ UNCHANGED <<dbusers, archive, got, suspect>>

(* The steps of Extraction that are the same here.                         *)
ExtractStep(p) ==
    /\ \/ CheckOk(p) \/ Acquire(p) \/ CheckAgain(p) \/ Wipe(p) \/ Extract(p)
       \/ Release(p) \/ ExtractAbandoned(p) \/ EndAbandoned(p)
    /\ UNCHANGED dlVars

(* Everything is resolved and fetched: the sources of the command go, and  *)
(* with them the database; what was extracted is compiled afterwards.      *)
CloseDatabase(p) ==
    /\ pc[p] = "reading" /\ Database!Leave(p)
    /\ OnlyDownloading /\ UNCHANGED <<pc, archive, got, sources, suspect>>

FinishReading(p) ==
    /\ Finish(p) /\ p \notin dbusers
    /\ UNCHANGED dlVars

(* The registry does not answer, the disk is full, the checksum is wrong:  *)
(* what was saved stays.                                                   *)
FailDownload(p) ==
    /\ pc[p] \in DlInside /\ Database!Leave(p)
    /\ Go(p, "failed")
    /\ OnlyDownloading /\ UNCHANGED <<archive, got, sources, suspect>>

FailExtraction(p) ==
    /\ Fail(p) /\ Database!Leave(p)
    /\ UNCHANGED <<archive, got, sources, suspect>>

AbandonExtraction(p) ==
    /\ Abandon(p) /\ Database!Leave(p)
    /\ UNCHANGED <<archive, got, sources, suspect>>

CrashDownload(p) ==
    /\ pc[p] \in DlInside \cup (Inside \ {"cleaning"}) \cup {"orphan"} /\ crashes < MaxCrashes
    /\ Lock!Expel(p) /\ Database!Expel(p)
    /\ Go(p, "dl waiting")
    /\ crashes' = crashes + 1
    /\ UNCHANGED <<files, left, ok, trampled, archive, got, sources, suspect>>

(* The errors that are certain.                                            *)
Rejected(p) ==
    \/ pc[p] = "dl verifying" /\ got[p] = "wrong" /\ FailDownload(p)
    \/ pc[p] = "extracting" /\ got[p] = "partial" /\ FailExtraction(p)

DownloadStep(p) ==
    \/ OpenDatabase(p) \/ UseDownloaded(p) \/ Request(p) \/ SaveChunk(p)
    \/ EndDownload(p) \/ VerifyDownload(p) \/ MarkSources(p) \/ ExtractStep(p)
    \/ CloseDatabase(p) \/ FinishReading(p) \/ Rejected(p)

(* `scarb cache clean` unlinks the archive; who has it open keeps it.      *)
CleanArchive(p) ==
    /\ pc[p] = "cleaning" /\ archive # "absent"
    /\ archive' = "absent"
    /\ UNCHANGED <<vars, dbusers, got, sources, suspect>>

-----------------------------------------------------------------------------
(* Sources marked as extracted come from the archive the index describes,  *)
(* and from all of it, however downloads were cut, killed and repeated;    *)
(* except that an archive whose verification failed stays in `dl`, and is  *)
(* not verified by those who find it there (cache.rs:196).                 *)
SourcesVerified ==
    ok /\ ~HalfCleaned /\ ~trampled /\ ~suspect /\ sources # "absent"
        => sources = "right"
=============================================================================
