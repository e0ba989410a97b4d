---------------------------- MODULE PackageCache ----------------------------
(***************************************************************************)
(* The package cache of scarb: builds that need the standard library, a    *)
(* package of a registry or one from git, and `scarb cache clean`, all     *)
(* around one package cache lock (Config::package_cache_lock).  Each build *)
(* stands for what one command does about one source: a command with       *)
(* several waits for them one by one or at once, with one lock.            *)
(***************************************************************************)
EXTENDS GitSource, ArchiveDownload

CONSTANT Scenarios \* who does what: functions from processes to roles

VARIABLE role      \* the scenario

cacheVars == <<vars, gitVars, dlVars, role>>

GitRoles == {"git", "git locked", "git offline"}
RoleNames == {"std", "registry", "cleaner", "none"} \cup GitRoles

ASSUME ScenariosAssumption ==
    \A s \in Scenarios :
       /\ s \in [Process -> RoleNames]
       /\ \A p \in Process : s[p] = "cleaner" <=> p \in Cleaners /\ s[p] # "none"

IsGit(p) == role[p] \in GitRoles

FirstPlace(p) == CASE role[p] = "none" -> "idle"
                   [] role[p] = "registry" -> "dl waiting"
                   [] IsGit(p) -> "git waiting"
                   [] OTHER -> "start"

CacheInit ==
    /\ role \in Scenarios
    /\ pc = [p \in Process |-> FirstPlace(p)]
    /\ users = {} /\ files = {} /\ ok = FALSE
    /\ left = [p \in Process |-> {}] /\ trampled = FALSE /\ crashes = 0
    /\ wanted = [p \in Process |->
                    IF role[p] = "git locked" THEN FirstRev ELSE NoRev]
    /\ offline = {p \in Process : role[p] = "git offline"}
    /\ GitInit /\ DownloadInit

StdStep(p) == Step(p) /\ UNCHANGED <<gitVars, dlVars>>

(* The cleaner is done when all of the cache is gone.                      *)
CleanerStep(p) ==
    \/ (StartCleaning(p) \/ Clean(p) \/ RemoveLockFile(p))
           /\ UNCHANGED <<gitVars, dlVars>>
    \/ CleanGit(p) /\ UNCHANGED dlVars
    \/ CleanArchive(p) /\ UNCHANGED gitVars
    \/ EndCleaning(p) /\ GitCleaned /\ archive = "absent"
           /\ UNCHANGED <<gitVars, dlVars>>

CacheStep(p) ==
    /\ \/ role[p] = "std" /\ StdStep(p)
       \/ role[p] = "cleaner" /\ CleanerStep(p)
       \/ IsGit(p) /\ GitStep(p) /\ UNCHANGED dlVars
       \/ role[p] = "registry" /\ DownloadStep(p) /\ UNCHANGED gitVars
    /\ UNCHANGED role

CacheFail(p) ==
    /\ \/ role[p] \in {"std", "cleaner"} /\ Fail(p) /\ UNCHANGED <<gitVars, dlVars>>
       \/ FailGit(p) /\ UNCHANGED dlVars
       \/ AbandonGit(p) /\ UNCHANGED dlVars
       \/ /\ role[p] = "registry" /\ UNCHANGED gitVars
          /\ FailExtraction(p) \/ AbandonExtraction(p)
       \/ FailDownload(p) /\ UNCHANGED gitVars
    /\ UNCHANGED role

CacheCrash(p) ==
    /\ \/ role[p] \in {"std", "cleaner"} /\ Crash(p) /\ UNCHANGED <<gitVars, dlVars>>
       \/ CrashGit(p) /\ UNCHANGED dlVars
       \/ role[p] = "registry" /\ CrashDownload(p) /\ UNCHANGED gitVars
    /\ UNCHANGED role

Pushed == Push /\ UNCHANGED <<dlVars, role>>

CacheOver == (\A p \in Process : pc[p] \in Ended) /\ UNCHANGED cacheVars

CacheNext ==
    \/ \E p \in Process : CacheStep(p) \/ CacheFail(p) \/ CacheCrash(p)
    \/ Pushed
    \/ CacheOver

(* As in Extraction: what can go on does, and whoever waits for a lock     *)
(* that is free again and again is granted it.                             *)
Waits(p) == pc[p] \in {"waiting", "git waiting", "dl waiting"}

CacheSpec ==
    /\ CacheInit /\ [][CacheNext]_cacheVars
    /\ \A p \in Process : /\ WF_cacheVars(CacheStep(p))
                          /\ SF_cacheVars(Waits(p) /\ CacheStep(p))

CacheTypeOK ==
    /\ pc \in [Process -> Outside \cup Inside \cup GitOutside \cup GitInside
                          \cup DlInside \cup {"dl waiting"}]
    /\ GitTypeOK /\ DownloadTypeOK
=============================================================================
