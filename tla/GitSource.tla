----------------------------- MODULE GitSource -----------------------------
(***************************************************************************)
(* A git dependency on a branch (src/scarb/src/sources/git): under the     *)
(* package cache lock, a process looks for its revision in the bare        *)
(* database of the remote, fetches or makes the database again, and clones *)
(* the revision into a checkout of its own, marked `.scarb-ok`; the        *)
(* checkout is read without the lock.  Meanwhile others push to the        *)
(* branch, with or without force, builds are killed, and the cache is      *)
(* cleaned.  Progress, lock, kills and the lock file are those of          *)
(* Extraction.  `git fetch` and `git clone` are external.                  *)
(***************************************************************************)
EXTENDS Extraction

CONSTANTS Rev,      \* commits of the branch, past and future
          NoRev,
          FirstRev  \* the tip of the branch at the start

ASSUME RevAssumption == FirstRev \in Rev /\ NoRev \notin Rev

VARIABLES
    wanted,   \* of each process: the revision Scarb.lock holds, if any
    offline,  \* the processes run with --offline
    abandoned, \* the processes whose thread goes on without the lock
    tip,      \* the commit the branch points to
    history,  \* the commits it reaches
    dropped,  \* history: the commits that were forced away
    db,       \* the bare repository
    checkout, \* what is there of the checkout of each revision
    marked,   \* the revisions whose checkout has `.scarb-ok`
    rev,      \* of each process: the revision it has chosen
    since     \* history: of a process without a locked revision,
              \* the tips since it got the lock

remoteVars == <<tip, history, dropped>>
diskVars == <<db, checkout, marked>>
gitVars == <<wanted, offline, abandoned, remoteVars, diskVars, rev, since>>
choices == <<wanted, offline>> \* made before the process starts

NoDb == [state |-> "absent", revs |-> {}, tip |-> NoRev]
EmptyDb == [state |-> "whole", revs |-> {}, tip |-> NoRev]

(* The working tree, and a HEAD at the revision; git writes HEAD last.     *)
Parts == {"files", "HEAD"}

GitInside == {"git entered", "git recreating", "git fetching", "git chosen",
              "git wiping", "git cloning", "git resetting", "git heading",
              "git marking", "git ready"}
GitOutside == {"git waiting", "git reading"}

GitTypeOK ==
    /\ wanted \in [Process -> Rev \cup {NoRev}] /\ offline \subseteq Process
    /\ abandoned \subseteq Process
    /\ tip \in history /\ history \subseteq Rev /\ dropped \subseteq Rev
    /\ db \in [state : {"absent", "torn", "whole"}, revs : SUBSET Rev,
               tip : Rev \cup {NoRev}]
    /\ checkout \in [Rev -> SUBSET Parts] /\ marked \subseteq Rev
    /\ rev \in [Process -> Rev \cup {NoRev}]
    /\ since \in [Process -> SUBSET Rev]

GitInit ==
    /\ tip = FirstRev /\ history = {FirstRev} /\ dropped = {}
    /\ db = NoDb
    /\ checkout = [r \in Rev |-> {}] /\ marked = {}
    /\ rev = [p \in Process |-> NoRev]
    /\ since = [p \in Process |-> {}] /\ abandoned = {}

Idle == UNCHANGED <<files, left, ok, trampled, crashes>>
KeepLock == UNCHANGED users
GoInside(p, from, to) == pc[p] = from /\ Go(p, to) /\ Idle /\ KeepLock

-----------------------------------------------------------------------------
Locks(p) == wanted[p] # NoRev

(* load, under the package cache lock.                                     *)
AcquireForGit(p) ==
    /\ pc[p] = "git waiting" /\ Lock!Enter(p)
    /\ Go(p, "git entered")
    /\ since' = [since EXCEPT ![p] = IF Locks(p) THEN {} ELSE {tip}]
    /\ IF abandoned = {} THEN UNCHANGED trampled ELSE trampled' = TRUE
    /\ UNCHANGED <<files, left, ok, crashes>>
    /\ UNCHANGED <<choices, abandoned, remoteVars, diskVars, rev>>

Choose(p, r) == rev' = [rev EXCEPT ![p] = r]

Holds(p, database) == database.state # "absent" /\ wanted[p] \in database.revs

(* The database has the locked revision: nothing to fetch.                 *)
UseDatabase(p) ==
    /\ GoInside(p, "git entered", "git chosen")
    /\ Holds(p, db)
    /\ Choose(p, wanted[p])
    /\ UNCHANGED <<choices, abandoned, remoteVars, diskVars, since>>

(* --offline and not locked: the branch as it was fetched last.            *)
ResolveOffline(p) ==
    /\ GoInside(p, "git entered", "git chosen")
    /\ db.state # "absent" /\ ~Locks(p) /\ p \in offline
    /\ db.tip # NoRev
    /\ Choose(p, db.tip)
    /\ UNCHANGED <<choices, abandoned, remoteVars, diskVars, since>>

(* git fetch --force of the branch: what the database had it keeps.        *)
Fetched == [db EXCEPT !.revs = @ \cup history, !.tip = tip]

(* checkout: there is a database, so fetch into it.                        *)
Update(p) ==
    /\ db.state # "absent" /\ ~Holds(p, db) /\ p \notin offline
    /\ db' = Fetched
    /\ IF Locks(p) /\ ~Holds(p, Fetched)
       THEN GoInside(p, "git entered", "git recreating") /\ UNCHANGED rev
       ELSE /\ GoInside(p, "git entered", "git chosen")
            /\ Choose(p, IF Locks(p) THEN wanted[p] ELSE tip)
    /\ UNCHANGED <<choices, abandoned, remoteVars, checkout, marked, since>>

(* The database is missing, or what a kill or a cleaner left of it cannot  *)
(* be opened; --offline makes no difference here.                          *)
StartAnew(p) ==
    /\ GoInside(p, "git entered", "git recreating")
    /\ db.state # "whole"
    /\ UNCHANGED <<choices, abandoned, remoteVars, diskVars, rev, since>>

Torn(state) == IF state = "whole" THEN "torn" ELSE "absent"

(* recreate ...                                                            *)
RemoveDatabase(p) ==
    /\ GoInside(p, "git recreating", "git recreating")
    /\ db.state # "absent"
    /\ db' = IF db.state = "torn" THEN NoDb ELSE [db EXCEPT !.state = "torn"]
    /\ UNCHANGED <<choices, abandoned, remoteVars, checkout, marked, rev, since>>

(* ... and init_bare.                                                      *)
InitBare(p) ==
    /\ GoInside(p, "git recreating", "git fetching")
    /\ db.state = "absent"
    /\ db' = EmptyDb
    /\ UNCHANGED <<choices, abandoned, remoteVars, checkout, marked, rev, since>>

(* Mutant of FetchAnew: the locked revision is not looked for.             *)
FetchAnew_Latest(p) ==
    /\ GoInside(p, "git fetching", "git chosen")
    /\ db.state # "absent" /\ p \notin offline
    /\ db' = Fetched
    /\ Choose(p, tip)
    /\ UNCHANGED <<choices, abandoned, remoteVars, checkout, marked, since>>

(* Fetch into the new database; a locked revision that the remote no       *)
(* longer has is replaced by the tip of the branch.                        *)
FetchAnew(p) ==
    /\ GoInside(p, "git fetching", "git chosen")
    /\ db.state # "absent" /\ p \notin offline
    /\ db' = Fetched
    /\ Choose(p, IF Holds(p, Fetched) THEN wanted[p] ELSE tip)
    /\ UNCHANGED <<choices, abandoned, remoteVars, checkout, marked, since>>

-----------------------------------------------------------------------------
(* copy_to                                                                 *)

Reusable(r) == r \in marked /\ "HEAD" \in checkout[r]

UseCheckout(p) ==
    /\ GoInside(p, "git chosen", "git ready")
    /\ Reusable(rev[p])
    /\ UNCHANGED gitVars

Reclone(p) ==
    /\ GoInside(p, "git chosen", "git wiping")
    /\ ~Reusable(rev[p])
    /\ UNCHANGED gitVars

Lose(r) ==
    \/ /\ \E x \in checkout[r] : checkout' = [checkout EXCEPT ![r] = @ \ {x}]
       /\ UNCHANGED marked
    \/ /\ r \in marked /\ marked' = marked \ {r}
       /\ UNCHANGED checkout

Gone(r) == checkout[r] = {} /\ r \notin marked

(* recreate, one thing after the other.                                    *)
WipeCheckout(p) ==
    /\ \/ /\ GoInside(p, "git wiping", "git wiping") /\ Lose(rev[p])
       \/ /\ GoInside(p, "git wiping", "git cloning")
          /\ Gone(rev[p]) /\ UNCHANGED <<checkout, marked>>
    /\ UNCHANGED <<choices, abandoned, remoteVars, db, rev, since>>

(* git clone --local, which only succeeds with a whole database.           *)
Clone(p) ==
    /\ GoInside(p, "git cloning", "git resetting")
    /\ db.state = "whole"
    /\ UNCHANGED gitVars

(* git reset --hard: the files, then HEAD.                                 *)
ResetFiles(p) ==
    /\ GoInside(p, "git resetting", "git heading")
    /\ checkout' = [checkout EXCEPT ![rev[p]] = @ \cup {"files"}]
    /\ UNCHANGED <<choices, abandoned, remoteVars, db, marked, rev, since>>

ResetHead(p) ==
    /\ GoInside(p, "git heading", "git marking")
    /\ checkout' = [checkout EXCEPT ![rev[p]] = @ \cup {"HEAD"}]
    /\ UNCHANGED <<choices, abandoned, remoteVars, db, marked, rev, since>>

(* Mutant of MarkCheckout: the checkout is marked once it is cloned.       *)
MarkCheckout_Cloned(p) ==
    /\ \/ GoInside(p, "git heading", "git heading")
       \/ GoInside(p, "git marking", "git ready")
    /\ marked' = marked \cup {rev[p]}
    /\ UNCHANGED <<choices, abandoned, remoteVars, db, checkout, rev, since>>

MarkCheckout(p) ==
    /\ GoInside(p, "git marking", "git ready")
    /\ marked' = marked \cup {rev[p]}
    /\ UNCHANGED <<choices, abandoned, remoteVars, db, checkout, rev, since>>

LeaveGit(p) ==
    /\ pc[p] = "git ready" /\ Lock!Leave(p) /\ p \notin abandoned
    /\ Go(p, "git reading")
    /\ Idle /\ UNCHANGED gitVars

(* What the process was up to is over.                                     *)
Forget(p) ==
    /\ abandoned' = abandoned \ {p}
    /\ rev' = [rev EXCEPT ![p] = NoRev]
    /\ since' = [since EXCEPT ![p] = {}]
    /\ UNCHANGED <<choices, remoteVars, diskVars>>

FinishGit(p) ==
    /\ GoInside(p, "git reading", "done")
    /\ Forget(p)

-----------------------------------------------------------------------------
(* An error that is certain: nothing can be fetched or resolved offline,   *)
(* and what is left of a torn database cannot be cloned.                   *)
Stuck(p) ==
    \/ /\ pc[p] = "git entered" /\ p \in offline
       /\ db.state # "absent" /\ ~Holds(p, db) /\ (Locks(p) \/ db.tip = NoRev)
    \/ pc[p] = "git fetching" /\ (p \in offline \/ db.state = "absent")
    \/ pc[p] = "git cloning" /\ db.state # "whole"

FailGit(p) ==
    /\ pc[p] \in GitInside /\ Lock!Expel(p)
    /\ Go(p, "failed")
    /\ Idle /\ Forget(p)

(* Another query of the same command fails: the future of load is dropped, *)
(* and the guard with it, while the thread goes on; scarb waits for it and *)
(* exits (git/mod.rs:87).                                                  *)
AbandonGit(p) ==
    /\ pc[p] \in GitInside /\ Lock!Leave(p)
    /\ abandoned' = abandoned \cup {p}
    /\ Idle /\ UNCHANGED <<pc, choices, remoteVars, diskVars, rev, since>>

EndAbandonedGit(p) ==
    /\ pc[p] = "git ready" /\ p \in abandoned
    /\ Go(p, "failed")
    /\ Idle /\ KeepLock /\ Forget(p)

CrashGit(p) ==
    /\ pc[p] \in GitInside /\ crashes < MaxCrashes
    /\ Lock!Expel(p)
    /\ Go(p, "git waiting")
    /\ crashes' = crashes + 1
    /\ UNCHANGED <<files, left, ok, trampled>> /\ Forget(p)

GitStep(p) ==
    \/ AcquireForGit(p) \/ UseDatabase(p) \/ ResolveOffline(p) \/ Update(p)
    \/ StartAnew(p) \/ RemoveDatabase(p) \/ InitBare(p) \/ FetchAnew(p)
    \/ UseCheckout(p) \/ Reclone(p) \/ WipeCheckout(p) \/ Clone(p)
    \/ ResetFiles(p) \/ ResetHead(p) \/ MarkCheckout(p) \/ LeaveGit(p) \/ FinishGit(p)
    \/ EndAbandonedGit(p)
    \/ (Stuck(p) /\ FailGit(p))

(* Somebody pushes a new commit, on top of the branch or instead of it.    *)
Push ==
    /\ \E r \in Rev \ (history \cup dropped) :
          /\ tip' = r
          /\ since' = [p \in Process |-> IF since[p] = {} THEN {}
                                         ELSE since[p] \cup {r}]
          /\ \/ history' = history \cup {r} /\ UNCHANGED dropped
             \/ history' = {r} /\ dropped' = dropped \cup history
    /\ UNCHANGED <<vars, choices, abandoned, diskVars, rev>>

(* `scarb cache clean` removes databases and checkouts as well.            *)
CleanGit(p) ==
    /\ pc[p] = "cleaning"
    /\ \/ (\E r \in Rev : Lose(r)) /\ UNCHANGED db
       \/ /\ db.state # "absent"
          /\ db' = IF db.state = "torn" THEN NoDb
                   ELSE [db EXCEPT !.state = "torn"]
          /\ UNCHANGED <<checkout, marked>>
    /\ IF abandoned = {} THEN Trampling ELSE trampled' = TRUE
    /\ UNCHANGED <<pc, users, files, left, ok, crashes,
                   choices, abandoned, remoteVars, rev, since>>

GitCleaned == db = NoDb /\ \A r \in Rev : Gone(r)

-----------------------------------------------------------------------------
(* A checkout that is marked is a whole checkout, and so is one that is    *)
(* being read without the lock, whoever was killed, however often the      *)
(* database was made again (client.rs:211); unless a build took the lock   *)
(* next to an abandoned thread.                                            *)
CheckoutsComplete ==
    /\ ~HalfCleaned /\ ~trampled => \A r \in marked : checkout[r] = Parts
    /\ NobodyCleaned /\ ~trampled =>
           \A p \in Process : pc[p] = "git reading" => checkout[rev[p]] = Parts

(* A build gets the revision that Scarb.lock holds unless the remote has   *)
(* dropped it; one that is not locked gets a tip that the branch had after *)
(* it took the lock, and never one it had before (git/mod.rs:106).         *)
RightRevision ==
    \A p \in Process : pc[p] = "git reading" =>
        IF Locks(p) THEN rev[p] = wanted[p] \/ wanted[p] \in dropped
        ELSE p \in offline \/ rev[p] \in since[p]
=============================================================================
