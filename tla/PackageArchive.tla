--------------------------- MODULE PackageArchive ---------------------------
(***************************************************************************)
(* What `scarb package` puts into the archive of a package                 *)
(* (src/scarb/src/ops/package.rs, core/publishing/source.rs): the files it *)
(* lists, the files it generates, and the manifest it normalises           *)
(* (core/publishing/manifest_normalization.rs); how the normalised         *)
(* manifest is read again (core/manifest/toml_manifest.rs), and what the   *)
(* index of a registry says of the package                                 *)
(* (core/registry/client/local.rs).                                        *)
(*                                                                         *)
(* A package is a record: its version, its targets `lib`, `plugin` and     *)
(* `builtin`, `publish`, its dependencies as the manifest spells them, its *)
(* files, its readme and license file (the path of one of its files, or    *)
(* "none"), and the state of its repository.  A dependency is spelt with   *)
(* name, kind, version ("any": none given), git, path and registry.  A     *)
(* file is a path, whether ignore rules hide it, whether it lies below     *)
(* another manifest, whether `include` names it or a directory above it,   *)
(* and whether its name is one that Windows or the archive cannot bear.    *)
(***************************************************************************)
EXTENDS FiniteSets

(* DetailedTomlDependency::to_dependency, its errors first.                *)
Unreadable(t) ==
    \/ t.version = "any" /\ ~t.git /\ ~t.path
    \/ t.git /\ (t.path \/ t.registry # "none")

SourceOf(t) ==
    CASE t.git -> "git"
      [] t.path -> "path"
      [] ~t.git /\ ~t.path /\ t.registry # "none" -> t.registry
      [] OTHER -> "default"

Dependency(t) == [name |-> t.name, kind |-> t.kind, req |-> t.version,
                  source |-> SourceOf(t)]

Dependencies(spelt) == {Dependency(t) : t \in spelt}

IsRegistry(source) == source \notin {"git", "path"}

-----------------------------------------------------------------------------
(* generate_dependency: the place is erased, the requirement stays; a      *)
(* registry other than the default one is spelt out.                       *)
Normalized(d) ==
    [name |-> d.name, kind |-> d.kind, version |-> d.req,
     git |-> FALSE, path |-> FALSE,
     registry |-> IF IsRegistry(d.source) /\ d.source # "default"
                  THEN d.source ELSE "none"]

(* Mutant of Normalizable: a dependency without a version is let through.  *)
Normalizable_Always(pkg) == \A d \in Dependencies(pkg.dependencies) : d = d

(* It fails for a dependency without a version.                            *)
Normalizable(pkg) == \A d \in Dependencies(pkg.dependencies) : d.req # "any"

(* prepare_manifest_for_publish keeps the dependencies, and those of       *)
(* tests; of the targets only the plugin is spelt out.                     *)
ManifestOf(pkg) ==
    [version |-> pkg.version, publish |-> pkg.publish, plugin |-> pkg.plugin,
     dependencies |-> {Normalized(d) : d \in Dependencies(pkg.dependencies)}]

-----------------------------------------------------------------------------
LeftOut == {"Scarb.toml", "Scarb.lock", "Cargo.toml", "Cargo.lock",
            "cairo_project.toml", "target"}

Reserved == {"VERSION", "Scarb.orig.toml", "VCS.json"}

Filtered(pkg, f) == f.nested \/ f.path \in LeftOut \cup {pkg.readme, pkg.license}

(* push_worktree_files walks the root of the package, and each included    *)
(* path; ignore rules are those of the root, and no filter applies to the  *)
(* start of a walk.                                                        *)
Walks(pkg, f) ==
    {w \in {"root", "include"} :
        IF w = "root" THEN ~f.ignored /\ ~Filtered(pkg, f)
        ELSE \/ f.include = "named"
             \/ f.include = "below" /\ ~Filtered(pkg, f)}

SourceFiles(pkg) ==
    UNION {{[path |-> f.path, from |-> w] : w \in Walks(pkg, f)}
              : f \in pkg.files}

Generated(paths) == {[path |-> q, from |-> "generated"] : q \in paths}

(* prepare_archive_recipe: the listed files, and those it adds.            *)
Recipe(pkg) ==
    SourceFiles(pkg)
    \cup Generated({"VERSION", "Scarb.toml", "Scarb.orig.toml"})
    \cup (IF pkg.plugin /\ ~pkg.builtin
          THEN Generated({"Cargo.toml", "Cargo.orig.toml"} \cup
                            IF pkg.cargoLock THEN {"Cargo.lock"} ELSE {})
          ELSE {})
    \cup (IF pkg.readme = "none" THEN {} ELSE Generated({"README.md"}))
    \cup (IF pkg.license = "none" THEN {} ELSE Generated({"LICENSE"}))
    \cup (IF pkg.repository = "none" THEN {} ELSE Generated({"VCS.json"}))

PathsOf(recipe) == {e.path : e \in recipe}

(* Its errors; the last two are those of check_filenames and               *)
(* check_no_reserved_files.                                                *)
RecipeFails(pkg, allowDirty) ==
    \/ ~pkg.lib /\ ~pkg.plugin
    \/ pkg.repository = "dirty" /\ ~allowDirty
    \/ \E f \in pkg.files : Walks(pkg, f) # {} /\ f.badName
    \/ PathsOf(SourceFiles(pkg)) \cap Reserved # {}

(* The assertion that no two files have one path.                          *)
RecipePanics(pkg) == Cardinality(PathsOf(Recipe(pkg))) # Cardinality(Recipe(pkg))

Archive(pkg) == [manifest |-> ManifestOf(pkg), files |-> PathsOf(Recipe(pkg))]

-----------------------------------------------------------------------------
(* Summary::publish_dependencies.                                          *)
PublishDependencies(pkg) ==
    {[name |-> d.name, req |-> d.req] :
        d \in {e \in Dependencies(pkg.dependencies) : e.kind = "normal"}}

(* build_record; a digest stands for the archive it is the digest of.      *)
RecordOf(pkg, checksum) ==
    [version |-> pkg.version, dependencies |-> PublishDependencies(pkg),
     checksum |-> checksum]
=============================================================================
