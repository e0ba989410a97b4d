------------------------- MODULE WorkspaceDiscovery -------------------------
(***************************************************************************)
(* Which workspace a manifest belongs to, and what it contains             *)
(* (src/scarb/src/ops/workspace.rs, ops/manifest.rs, core/workspace.rs).   *)
(* `disk` has the manifest of each directory that has one.                 *)
(***************************************************************************)
EXTENDS Manifest

CONSTANT Hidden  \* directories whose name begins with a dot

-----------------------------------------------------------------------------
(* find_workspace_manifest_path: the first manifest on the way up that has *)
(* a [workspace] section.  Every manifest on the way has to parse.         *)
Up(dir, n) == SubSeq(dir, 1, Len(dir) - n)

Locate(disk, dir) ==
    LET stops == {n \in 0..Len(dir) :
                     LET doc == disk[Up(dir, n)]
                     IN  /\ Up(dir, n) \in DOMAIN disk
                         /\ doc.workspace # Absent \/ ~Parses(doc)}
    IN  IF stops = {} THEN Absent
        ELSE IF Parses(disk[Up(dir, Min(stops))]) THEN Up(dir, Min(stops))
        ELSE Failed

(* The directories that a pattern of `members` matches, of those that have *)
(* a manifest and are not hidden.                                          *)
Matches(root, pattern, dir) ==
    /\ Len(dir) = Len(root) + Len(pattern)
    /\ Up(dir, Len(pattern)) = root
    /\ \A i \in DOMAIN pattern : pattern[i] \in {"*", dir[Len(root) + i]}

MemberPaths(disk, root, patterns) ==
    {d \in DOMAIN disk \ Hidden : \E p \in patterns : Matches(root, p, d)}

(* Two patterns that match a directory make two packages of it, and two    *)
(* targets of every target.                                                *)
MatchedTwice(disk, root, patterns) ==
    \E p \in patterns :
        MemberPaths(disk, root, {p})
            \cap MemberPaths(disk, root, patterns \ {p}) # {}

AllTargets(packages) ==
    FoldSet(LAMBDA d, all : packages[d].targets \o all, <<>>, DOMAIN packages)

-----------------------------------------------------------------------------
(* read_workspace_root                                                     *)
ReadRoot(disk, root, profile) ==
    LET doc == disk[root]
        patterns == IF doc.workspace = Absent THEN {} ELSE doc.workspace.members
        members == MemberPaths(disk, root, patterns)
                       \cup (IF doc.name # Absent THEN {root} ELSE {})
        packages == [d \in members |->
                        IF Parses(disk[d])
                        THEN PackageOf(disk[d], doc, d, root, profile)
                        ELSE Failed]
        virtual == doc.name = Absent
    IN  IF \/ ~Parses(doc)
           \/ virtual /\ doc.workspace = Absent
           \/ virtual /\ DOMAIN doc.dependencies["dependencies"] # {}
           \/ MatchedTwice(disk, root, patterns)
           \/ Failed \in Range(packages)
        THEN Failed
        ELSE IF UniqueTargets(AllTargets(packages)) /\
                UniqueGroups(AllTargets(packages))
             THEN [root |-> root, packages |-> packages]
             ELSE Failed

(* Mutant of ReadWorkspace: any workspace above will do.                   *)
ReadWorkspace_AnyRoot(disk, dir, found, profile) ==
    IF found = Failed \/ dir \notin DOMAIN disk
    THEN Failed
    ELSE ReadRoot(disk, IF found = Absent THEN dir ELSE found, profile)

(* read_workspace_impl: `found` is only a candidate, which may not have    *)
(* the package as a member; but it has to be readable.                     *)
ReadWorkspace(disk, dir, found, profile) ==
    IF found = Failed \/ dir \notin DOMAIN disk
    THEN Failed
    ELSE LET root == IF found = Absent THEN dir ELSE found
             candidate == ReadRoot(disk, root, profile)
         IN  IF candidate = Failed \/ root = dir THEN candidate
             ELSE IF dir \in DOMAIN candidate.packages THEN candidate
             ELSE ReadRoot(disk, dir, profile)

(* PackagesFilter::match_one: the package of that name; without a name the *)
(* one that the command was called in, or the only one.                    *)
MatchOne(ws, dir, name) ==
    LET members == DOMAIN ws.packages
        named == {d \in members : ws.packages[d].name = name}
    IN  IF name # Absent
        THEN IF Cardinality(named) = 1 THEN CHOOSE d \in named : TRUE
                                       ELSE Failed
        ELSE IF dir \in members THEN dir
        ELSE IF Cardinality(members) = 1 THEN CHOOSE d \in members : TRUE
        ELSE Failed
=============================================================================
