--------------------------- MODULE ManifestEditor ---------------------------
(***************************************************************************)
(* Commands in one workspace, of which some edit a Scarb.toml: `scarb add` *)
(* and `scarb remove` (src/scarb/src/manifest_editor, commands/add.rs,     *)
(* commands/remove.rs).  Every command first finds and reads its           *)
(* workspace.  An editor then reads the manifest of one package again,     *)
(* changes one entry, truncates the file and writes it, and reads the      *)
(* workspace again.  No lock is held.                                      *)
(*                                                                         *)
(* `agreed` is what the edits have asked for, one after the other.         *)
(* `clobbered` and `misled` are history: manifests whose edits overlapped  *)
(* or were cut, and commands that walked past one of those.                *)
(***************************************************************************)
EXTENDS WorkspaceDiscovery

CONSTANTS Command,  \* commands
          CallsOf,  \* of each command: how it may be called
          Original, \* the manifests at the start
          MaxCuts   \* kills and failed writes

SourceKeys == {"path", "git", "branch", "tag", "rev"}

ASSUME EditorAssumption ==
    /\ MaxCuts \in Nat
    /\ Absent \notin Directory /\ Failed \notin Directory
    /\ Directory \subseteq Seq(STRING)
    /\ DOMAIN Original \subseteq Directory
    /\ \A d \in DOMAIN Original :
           /\ DOMAIN Original[d] = DOMAIN EmptyDocument
           /\ DOMAIN Original[d].dependencies = Section
           /\ Original[d].workspace # Absent =>
                  Original[d].workspace.members \subseteq Seq(STRING)
    /\ \A c \in Command : \A k \in CallsOf[c] :
           /\ k.op \in {"none", "add", "remove"}
           /\ k.dir \in Directory /\ k.section \in Section
           /\ DOMAIN k.ask \subseteq {"version"} \cup SourceKeys

VARIABLES
    disk,   \* of each directory that has one: its manifest
    call,   \* of each command: how it was called
    at,     \* of each command: what it does next
    found,  \* of each command: the candidate for its workspace
    ws,     \* of each command: the workspace it has read
    target, \* of each command: the directory of the package it edits
    draft,  \* of each command: the manifest it is going to write
    cuts,
    agreed, \* of each directory: the dependencies asked for
    clobbered, misled

editVars == <<disk, call, at, found, ws, target, draft, cuts, agreed,
              clobbered, misled>>
workVars == <<found, ws, target, draft>>

-----------------------------------------------------------------------------
(* What an entry of a manifest in `dir` stands for.  The registry it names *)
(* is remembered, for `scarb add` has no option for it and leaves the key. *)
Meaning(entry, dir) ==
    IF Inherits(entry)
    THEN [workspace |-> TRUE, features |-> FeaturesOf(entry.keys)]
    ELSE IF NoSource(entry.keys, dir) THEN [error |-> Failed]
    ELSE Overlaid(ToDependency(entry.keys, dir),
                  [registry |-> ValueOf(entry.keys, "registry")])

MeaningOf(doc, dir) ==
    [s \in Section |-> [n \in DOMAIN doc.dependencies[s] |->
                           Meaning(doc.dependencies[s][n], dir)]]

(* A dependency as `scarb add` was asked for it: its source is the one     *)
(* given, the rest stays as it was if it is not given.                     *)
Unasked == [source |-> Absent, version |-> Absent, features |-> {},
            default |-> TRUE, registry |-> Absent]

Asked(ask, old) ==
    LET has(k) == k \in DOMAIN ask
    IN  [old EXCEPT
            !.version = IF has("version") THEN ask["version"] ELSE @,
            !.source = IF has("path") THEN <<"path", ask["path"]>>
                       ELSE IF has("git")
                       THEN <<"git", ask["git"],
                              {<<k, ask[k]>> : k \in References(ask)}>>
                       ELSE <<"registry", old.registry>>]

AgreedAfter(c) ==
    LET s == call[c].section
        n == call[c].name
        old == agreed[target[c]][s]
        own == IF n \in DOMAIN old /\ "source" \in DOMAIN old[n] THEN old[n]
                                                                ELSE Unasked
    IN  [agreed EXCEPT ![target[c]][s] =
            IF call[c].op = "remove"
            THEN [m \in DOMAIN old \ {n} |-> old[m]]
            ELSE Overlaid([m \in {n} |-> Asked(call[c].ask, own)], old)]

-----------------------------------------------------------------------------
(* The editor                                                              *)

(* path_value: the way from the package to the directory.                  *)
PathFrom(dir, to) ==
    LET common == LongestCommonPrefix({dir, to})
    IN  [up |-> Len(dir) - Len(common),
         down |-> SubSeq(to, Len(common) + 1, Len(to))]

(* Dep::resolve refuses this.                                              *)
Refused(ask) ==
    LET has(k) == k \in DOMAIN ask
    IN  \/ has("path") /\ (has("git") \/ ask["path"] \notin Directory)
        \/ References(ask) # {} /\ ~has("git")
        \/ Cardinality(References(ask)) > 1
        \/ {"path", "git", "version"} \cap DOMAIN ask = {}

(* Mutant of Purged: the reference stays when the repository goes.         *)
Purged_RefStays(keys) ==
    [k \in DOMAIN keys \ {"path", "git", "branch"} |-> keys[k]]

(* purge_source                                                            *)
Purged(keys) == [k \in DOMAIN keys \ SourceKeys |-> keys[k]]

(* upsert: the entry is expanded, loses its source, gets the new one, and  *)
(* becomes a shortcut again if only the version is left.                   *)
Upserted(old, ask, dir) ==
    LET given == [k \in DOMAIN ask |->
                     IF k = "path" THEN PathFrom(dir, ask[k]) ELSE ask[k]]
        keys == Overlaid(given, Purged(old.keys))
    IN  [form |-> IF DOMAIN keys = {"version"} THEN "shortcut" ELSE "inline",
         keys |-> keys]

NewEntry == [form |-> "inline", keys |-> <<>>]

(* What a shorter text leaves of a longer one is no manifest.              *)
Garbled == [EmptyDocument EXCEPT !.dependencies["dependencies"] =
               [n \in {"tail"} |->
                   [form |-> "inline",
                    keys |-> [k \in {"workspace", "version"} |-> "?"]]]]

(* apply_to; an entry that is a table is no inline table, and panics.      *)
Panics(doc, edit) ==
    /\ edit.op = "add" /\ ~Refused(edit.ask)
    /\ edit.name \in DOMAIN doc.dependencies[edit.section]
    /\ doc.dependencies[edit.section][edit.name].form = "table"

Edited(doc, edit, dir) ==
    LET entries == doc.dependencies[edit.section]
        old == IF edit.name \in DOMAIN entries THEN entries[edit.name]
                                               ELSE NewEntry
        new == IF edit.op = "remove"
               THEN [n \in DOMAIN entries \ {edit.name} |-> entries[n]]
               ELSE Overlaid([n \in {edit.name} |-> Upserted(old, edit.ask, dir)],
                             entries)
    IN  IF \/ doc = Garbled
           \/ edit.op = "remove" /\ edit.name \notin DOMAIN entries
           \/ edit.op = "add" /\ Refused(edit.ask)
        THEN Failed
        ELSE [doc EXCEPT !.dependencies[edit.section] = new]

-----------------------------------------------------------------------------
EditorInit ==
    /\ disk = Original
    /\ call \in {f \in [Command -> UNION {CallsOf[c] : c \in Command}] :
                    \A c \in Command : f[c] \in CallsOf[c]}
    /\ at = [c \in Command |-> "locate"]
    /\ found = [c \in Command |-> Absent]
    /\ ws = [c \in Command |-> Absent]
    /\ target = [c \in Command |-> Absent]
    /\ draft = [c \in Command |-> Absent]
    /\ cuts = 0
    /\ agreed = [d \in DOMAIN Original |-> MeaningOf(Original[d], d)]
    /\ clobbered = {} /\ misled = {}

Proceed(c, next) == at' = [at EXCEPT ![c] = next]

(* find_workspace_manifest_path.  A manifest that lost its [workspace] is  *)
(* walked past.                                                            *)
LocateWorkspace(c) ==
    /\ at[c] \in {"locate", "locate again"}
    /\ LET dir == call[c].dir
       IN  /\ found' = [found EXCEPT ![c] = Locate(disk, dir)]
           /\ misled' = IF \E n \in 0..Len(dir) :
                              LET d == Up(dir, n)
                              IN  d \in DOMAIN disk /\
                                  disk[d].workspace # Original[d].workspace
                        THEN misled \cup {c} ELSE misled
    /\ Proceed(c, IF at[c] = "locate" THEN "load" ELSE "load again")
    /\ UNCHANGED <<disk, call, ws, target, draft, cuts, agreed, clobbered>>

(* read_workspace, then the package to edit is chosen.  The manifests are  *)
(* read at one moment, in the code one after the other: a command that     *)
(* reads members before and after another's edit of theirs is left out.    *)
LoadWorkspace(c) ==
    /\ at[c] \in {"load", "load again"}
    /\ LET read == ReadWorkspace(disk, call[c].dir, found[c], call[c].profile)
           one == MatchOne(read, call[c].dir, call[c].package)
       IN  IF read = Failed
           THEN Proceed(c, "failed") /\ UNCHANGED <<ws, target>>
           ELSE /\ ws' = [ws EXCEPT ![c] = read]
                /\ IF at[c] = "load again" \/ call[c].op = "none"
                   THEN Proceed(c, "done") /\ UNCHANGED target
                   ELSE /\ target' = [target EXCEPT ![c] = one]
                        /\ Proceed(c, IF one = Failed THEN "failed" ELSE "read")
    /\ UNCHANGED <<disk, call, found, draft, cuts, agreed, clobbered, misled>>

Others(c) == {e \in Command \ {c} : target[e] = target[c]}

(* edit: the file is read again, and changed in memory.                    *)
ReadAndEdit(c) ==
    /\ at[c] = "read"
    /\ LET doc == disk[target[c]]
           new == Edited(doc, call[c], target[c])
       IN  IF Panics(doc, call[c])
           THEN Proceed(c, "panicked") /\ UNCHANGED draft
           ELSE IF new = Failed
           THEN Proceed(c, "failed") /\ UNCHANGED draft
           ELSE /\ draft' = [draft EXCEPT ![c] = new]
                /\ Proceed(c, IF call[c].dry THEN "done"
                         ELSE IF new = doc THEN "locate again" ELSE "write")
    /\ clobbered' = IF \E e \in Others(c) : at[e] = "truncated"
                    THEN clobbered \cup {target[c]} ELSE clobbered
    /\ UNCHANGED <<disk, call, found, ws, target, cuts, agreed, misled>>

(* fs::write opens the file, which truncates it, and writes.               *)
Truncate(c) ==
    /\ at[c] = "write"
    /\ disk' = [disk EXCEPT ![target[c]] = EmptyDocument]
    /\ clobbered' = IF \E e \in Others(c) : at[e] \in {"write", "truncated"}
                    THEN clobbered \cup {target[c]} ELSE clobbered
    /\ Proceed(c, "truncated")
    /\ UNCHANGED <<call, workVars, cuts, agreed, misled>>

Write(c) ==
    /\ at[c] = "truncated"
    /\ \E text \in {draft[c], Garbled} :
          /\ text = Garbled => disk[target[c]] # EmptyDocument
          /\ disk' = [disk EXCEPT ![target[c]] = text]
    /\ agreed' = AgreedAfter(c)
    /\ Proceed(c, "locate again")
    /\ UNCHANGED <<call, workVars, cuts, clobbered, misled>>

(* The command is killed, or cannot write, when the file is empty.         *)
CutWrite(c) ==
    /\ at[c] = "truncated" /\ cuts < MaxCuts
    /\ cuts' = cuts + 1
    /\ clobbered' = clobbered \cup {target[c]}
    /\ Proceed(c, "failed")
    /\ UNCHANGED <<disk, call, workVars, agreed, misled>>

EditorStep(c) ==
    \/ LocateWorkspace(c) \/ LoadWorkspace(c)
    \/ ReadAndEdit(c) \/ Truncate(c) \/ Write(c) \/ CutWrite(c)

EditorNext == \E c \in Command : EditorStep(c)

EditorSpec == EditorInit /\ [][EditorNext]_editVars

-----------------------------------------------------------------------------
At == {"locate", "load", "read", "write", "truncated", "locate again",
       "load again", "done", "failed", "panicked"}

EditorTypeOK ==
    /\ DOMAIN disk = DOMAIN Original /\ DOMAIN agreed = DOMAIN Original
    /\ at \in [Command -> At]
    /\ \A c \in Command : call[c] \in CallsOf[c]
    /\ target \in [Command -> DOMAIN Original \cup {Absent, Failed}]
    /\ found \in [Command -> DOMAIN Original \cup {Absent, Failed}]
    /\ cuts \in 0..MaxCuts
    /\ clobbered \subseteq DOMAIN Original /\ misled \subseteq Command

(* Keys that `scarb add` leaves in an entry and that contradict the new    *)
(* source: `workspace`, and `registry` beside a repository.                *)
Contradicts(entry) ==
    \/ Inherits(entry) /\ DOMAIN entry.keys \cap SourceKeys # {}
    \/ Inherits(entry) /\ "version" \in DOMAIN entry.keys
    \/ {"registry", "git"} \subseteq DOMAIN entry.keys

Rest(doc) == [doc EXCEPT !.dependencies = EmptyDocument.dependencies]

(* Edits that do not overlap add up: each dependency is what was asked for *)
(* last, with the features it had, wherever its source was before; nothing *)
(* else in the manifest has changed.                                       *)
EditsApplied ==
    \A d \in DOMAIN disk \ clobbered :
        \/ \E c \in Command : at[c] = "truncated" /\ target[c] = d
        \/ /\ Rest(disk[d]) = Rest(Original[d])
           /\ \A s \in Section :
                 LET entries == disk[d].dependencies[s]
                 IN  /\ DOMAIN entries = DOMAIN agreed[d][s]
                     /\ \A n \in DOMAIN entries :
                           \/ Contradicts(entries[n])
                           \/ Meaning(entries[n], d) = agreed[d][s][n]

WorkspacesAbove(dir) ==
    {a \in {Up(dir, n) : n \in 0..Len(dir)} \cap DOMAIN Original :
        Original[a].workspace # Absent}

(* A command works on a workspace that it was called in, and a package is  *)
(* built in one workspace, with one lockfile and one target directory,     *)
(* from whichever directory scarb is called.  Excepted are packages with   *)
(* two workspaces on the way up, and commands that ran while a manifest    *)
(* above them had lost its [workspace] (workspace.rs:44).                  *)
OneWorkspace ==
    \A c \in {b \in Command : ws[b] # Absent} :
        /\ call[c].dir \in DOMAIN ws[c].packages \cup {ws[c].root}
        /\ \A e \in {b \in Command : ws[b] # Absent} :
              c \notin misled /\ e \notin misled =>
                 \A d \in DOMAIN ws[c].packages \cap DOMAIN ws[e].packages :
                    \/ ws[c].root = ws[e].root
                    \/ \E a, b \in WorkspacesAbove(d) : a # b

(* The dependencies that the package in `d` inherits, edits included.      *)
InheritedBy(d, s) ==
    {n \in DOMAIN agreed[d][s] : "workspace" \in DOMAIN agreed[d][s][n]}

(* What is inherited is the same for all that inherit it.  Two members of  *)
(* a workspace that inherit a dependency get one package, wherever they    *)
(* are in it, unless they have a [workspace] of their own, which goes      *)
(* first (toml_manifest.rs:626).  A profile differs from the one it        *)
(* inherits, if that inherits none in turn, only by its own section, and   *)
(* by [cairo] where that changes what the section of the inherited profile *)
(* says (toml_manifest.rs:1173).                                           *)
InheritedAlike ==
    \A c, e \in {b \in Command : ws[b] # Absent} :
        LET root == ws[c].root
            doc == Original[root]
            members == {d \in DOMAIN ws[c].packages :
                           d = root \/ Original[d].workspace = Absent}
            profile == call[c].profile
            parent == ParentOf(doc, profile)
        IN  /\ \A d, f \in members : \A s, t \in Section :
                 \A n \in InheritedBy(d, s) \cap InheritedBy(f, t) :
                    LET one == ws[c].packages[d].dependencies[s][n]
                        other == ws[c].packages[f].dependencies[t][n]
                    IN  <<one.source, one.version>>
                            = <<other.source, other.version>>
            /\ /\ root = ws[e].root
               /\ call[e].profile = parent /\ ParentOf(doc, parent) = parent
               =>
                 \A d \in DOMAIN ws[c].packages \cap DOMAIN ws[e].packages :
                    {k \in Setting : ws[c].packages[d].settings[k]
                                       # ws[e].packages[d].settings[k]}
                        \subseteq DOMAIN ProfileSection(doc, profile).cairo
                                    \cup (DOMAIN doc.cairo \cap DOMAIN
                                           ProfileSection(doc, parent).cairo)
=============================================================================
