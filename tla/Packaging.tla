----------------------------- MODULE Packaging -----------------------------
(***************************************************************************)
(* `scarb package` of one package, run by several processes in one target  *)
(* directory (src/scarb/src/ops/package.rs, the file operations of         *)
(* flock.rs): the `package` script, the tarball in a scratch file opened   *)
(* with create_rw, its verification, and the rename to the final name.     *)
(*                                                                         *)
(* A file is an inode: a rename moves the name, while whoever has the file *)
(* open stays with the inode.  An inode is named by the process that made  *)
(* it; a process packages once.                                            *)
(***************************************************************************)
EXTENDS Naturals, FiniteSets

CONSTANTS Process,     \* runs of `scarb package`
          OneAtATime,  \* TRUE: a process starts when no other one runs
          Unverified,  \* runs with --no-verify, or of a builtin plugin
          NoFile

ASSUME ConstantsAssumption ==
    /\ OneAtATime \in BOOLEAN /\ Unverified \subseteq Process
    /\ NoFile \notin Process

VARIABLES
    pc,      \* the progress of each process
    handle,  \* the inode a process has open
    locked,  \* of each inode: the processes that hold its lock
    content, \* of each inode: "empty", "partial", "whole" or "torn"
    scratch, \* the inode named `.<package>.tar.zst`
    final    \* the inode named `<package>.tar.zst`

vars == <<pc, handle, locked, content, scratch, final>>

Inode == Process

Ended == {"packaged", "failed", "killed"}
Holding == {"locked", "writing", "written", "verified", "renamed"}

TypeOK ==
    /\ pc \in [Process -> {"start", "script", "archive", "opened"}
                              \cup Holding \cup Ended]
    /\ handle \in [Process -> Inode \cup {NoFile}]
    /\ locked \in [Inode -> SUBSET {p \in Process : pc[p] \in Holding}]
    /\ \A i \in Inode : Cardinality(locked[i]) <= 1
    /\ content \in [Inode -> {"none", "empty", "partial", "whole", "torn"}]
    /\ scratch \in Inode \cup {NoFile}
    /\ final \in Inode \cup {NoFile}

Init ==
    /\ pc = [p \in Process |-> "start"]
    /\ handle = [p \in Process |-> NoFile]
    /\ locked = [i \in Inode |-> {}]
    /\ content = [i \in Inode |-> "none"]
    /\ scratch = NoFile /\ final = NoFile

Go(p, place) == pc' = [pc EXCEPT ![p] = place]

(* run_prepackage_script: the advisory lock is made, never acquired.       *)
StartScript(p) ==
    /\ pc[p] = "start"
    /\ OneAtATime => \A q \in Process \ {p} : pc[q] \in {"start"} \cup Ended
    /\ Go(p, "script")
    /\ UNCHANGED <<handle, locked, content, scratch, final>>

EndScript(p) ==
    /\ pc[p] = "script"
    /\ Go(p, "archive")
    /\ UNCHANGED <<handle, locked, content, scratch, final>>

(* Mutant of Open: the tarball is written in place.                        *)
Open_InPlace(p) ==
    /\ pc[p] = "archive"
    /\ LET i == IF final = NoFile THEN p ELSE final IN
       /\ handle' = [handle EXCEPT ![p] = i]
       /\ content' = [content EXCEPT ![i] = "empty"]
       /\ final' = i /\ scratch' = i
    /\ Go(p, "opened")
    /\ UNCHANGED locked

(* create_rw: open with create and truncate, before the lock.              *)
Open(p) ==
    /\ pc[p] = "archive"
    /\ LET i == IF scratch = NoFile THEN p ELSE scratch IN
       /\ handle' = [handle EXCEPT ![p] = i]
       /\ content' = [content EXCEPT ![i] = "empty"]
       /\ scratch' = i
    /\ Go(p, "opened")
    /\ UNCHANGED <<locked, final>>

Lock(p) ==
    /\ pc[p] = "opened" /\ locked[handle[p]] = {}
    /\ locked' = [locked EXCEPT ![handle[p]] = {p}]
    /\ Go(p, "locked")
    /\ UNCHANGED <<handle, content, scratch, final>>

(* set_len(0), and the first bytes of the archive.                         *)
StartWriting(p) ==
    /\ pc[p] = "locked"
    /\ content' = [content EXCEPT ![handle[p]] = "partial"]
    /\ Go(p, "writing")
    /\ UNCHANGED <<handle, locked, scratch, final>>

(* The last bytes: a file truncated in the meantime has lost the first.    *)
EndWriting(p) ==
    /\ pc[p] = "writing"
    /\ content' = [content EXCEPT ![handle[p]] =
                      IF @ = "partial" THEN "whole" ELSE "torn"]
    /\ Go(p, "written")
    /\ UNCHANGED <<handle, locked, scratch, final>>

Close(p) == locked' = [locked EXCEPT ![handle[p]] = @ \ {p}]

(* Any step may return an error; the guard is dropped.                     *)
Fail(p) ==
    /\ pc[p] \in {"script", "archive", "locked", "writing"}
    /\ IF handle[p] = NoFile THEN UNCHANGED locked ELSE Close(p)
    /\ Go(p, "failed")
    /\ UNCHANGED <<handle, content, scratch, final>>

(* run_verify unpacks and compiles the archive; the code may be wrong even *)
(* if the archive is whole.                                                *)
Verify(p) ==
    /\ pc[p] = "written" /\ p \notin Unverified
    /\ \/ /\ content[handle[p]] = "whole" /\ Go(p, "verified")
          /\ UNCHANGED locked
       \/ Go(p, "failed") /\ Close(p)
    /\ UNCHANGED <<handle, content, scratch, final>>

SkipVerification(p) ==
    /\ pc[p] = "written" /\ p \in Unverified
    /\ Go(p, "verified")
    /\ UNCHANGED <<handle, locked, content, scratch, final>>

(* FileLockGuard::rename goes by the names; it fails if the old one is     *)
(* gone.                                                                   *)
Rename(p) ==
    /\ pc[p] = "verified"
    /\ IF scratch # NoFile
       THEN /\ final' = scratch /\ scratch' = NoFile
            /\ Go(p, "renamed") /\ UNCHANGED locked
       ELSE /\ Go(p, "failed") /\ Close(p)
            /\ UNCHANGED <<scratch, final>>
    /\ UNCHANGED <<handle, content>>

(* The caller drops the guard: at the end, or when it has published.       *)
Finish(p) ==
    /\ pc[p] = "renamed" /\ Close(p)
    /\ Go(p, "packaged")
    /\ UNCHANGED <<handle, content, scratch, final>>

(* The process is killed.                                                  *)
Crash(p) ==
    /\ pc[p] \notin Ended
    /\ IF handle[p] = NoFile THEN UNCHANGED locked ELSE Close(p)
    /\ Go(p, "killed")
    /\ UNCHANGED <<handle, content, scratch, final>>

Step(p) ==
    \/ StartScript(p) \/ EndScript(p) \/ Open(p) \/ Lock(p) \/ StartWriting(p)
    \/ EndWriting(p) \/ Verify(p) \/ SkipVerification(p) \/ Rename(p)
    \/ Finish(p)

Over == (\A p \in Process : pc[p] \in Ended) /\ UNCHANGED vars

Next == (\E p \in Process : Step(p) \/ Fail(p) \/ Crash(p)) \/ Over

Spec == Init /\ [][Next]_vars

-----------------------------------------------------------------------------
(* The final name leads to a whole archive or to nothing, whoever was      *)
(* killed when: "only move it to the final location if it actually passes  *)
(* all verification checks" (package.rs:176).                              *)
FinalIsWhole == final # NoFile => content[final] = "whole"

(* "Ensure no two instance of Scarb will run `package` script at the same  *)
(* time" (package.rs:228).                                                 *)
ScriptAlone ==
    \A p, q \in Process : pc[p] = "script" /\ pc[q] = "script" => p = q
=============================================================================
