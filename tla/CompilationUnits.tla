-------------------------- MODULE CompilationUnits --------------------------
(***************************************************************************)
(* From a resolution to compilation units (src/scarb/src/ops/resolve.rs):  *)
(* which packages are the components of a unit, with which features, what  *)
(* each of them depends on, and which plugins are loaded prebuilt.         *)
(* The resolution is a graph (resolver/solution.rs, core/resolver.rs): its *)
(* nodes are the decided packages, an edge says for which kinds of targets *)
(* the one needs the other.  validate_solution has made names unique among *)
(* the nodes, so the dependency `k` leads to `Answer[k]` whatever key the  *)
(* summaries were found under.                                             *)
(*                                                                         *)
(* `manifests` is what the downloaded packages say of themselves:          *)
(*   class     "lib", "plugin" or "other" (Package::classify)              *)
(*   builtin   a plugin that is part of scarb                              *)
(*   prebuilt  a plugin with a library for this platform                   *)
(*   features  of each feature it defines: what that enables, as pairs of  *)
(*             a package (NoPackage: itself) and a feature                 *)
(*   request   of each of its dependencies: [features, default]            *)
(*   targets   the sequence of its targets: [name, kind, group,            *)
(*             integration]                                                *)
(*   reexports plugins it re-exports;  allow: plugins it allows prebuilt   *)
(*   tool      its [tool.scarb], where those are named, can be read        *)
(*   cairo     its `cairo-version` matches                                 *)
(* and `opts` is [all, features, default, ignoreVersion, loadPrebuilt,     *)
(* loadMacros]: the features it selects and how to generate units.         *)
(***************************************************************************)
EXTENDS FeaturesUnification, FiniteSets, SequencesExt

CONSTANT DepKind    \* of each key: "normal" or the kind of the target

ASSUME DepKindAssumption == TestOnly = {k \in Key : DepKind[k] = "test"}
ASSUME FiniteAssumption == IsFiniteSet(Package) /\ IsFiniteSet(Flag)

Named(p, q) == {k \in FullDependencies(p) : Answer[k] = q}

(* build_resolve: only the packages of the workspace keep what their tests *)
(* depend on (DependencyFilter::propagation).                              *)
EdgeKinds(p, q) ==
    {DepKind[k] : k \in {d \in Named(p, q) : p \in Root \/ d \notin TestOnly}}

Edges == {e \in decided \X decided : EdgeKinds(e[1], e[2]) # {}}

(* DependencyEdge::accepts_target of the edge from p to q.                 *)
AcceptsTarget(p, q, kind, isRoot) ==
    \/ "normal" \in EdgeKinds(p, q)
    \/ (isRoot \/ kind # "test") /\ kind \in EdgeKinds(p, q)

(* What a search along the edges finds, one edge further at a time.        *)
Further(edges, before) ==
    before \cup {e[2] : e \in {d \in edges : d[1] \in before}}

Reachable(edges, from) ==
    LET found[n \in 0..Cardinality(edges)] ==
            IF n = 0 THEN from ELSE Further(edges, found[n - 1])
    IN  found[Cardinality(edges)]

(* Resolve::solution_of: a depth-first search along accepted edges.        *)
SolutionOf(root, kind) ==
    Reachable({e \in Edges : AcceptsTarget(e[1], e[2], kind, e[1] = root)},
              {root})

(* Resolve::package_dependencies_for_target_kind.                          *)
DependenciesFor(p, kind, isRoot) ==
    {q \in decided : <<p, q>> \in Edges /\ AcceptsTarget(p, q, kind, isRoot)}

(* Resolve::filter_subtrees: strongly connected components in topological  *)
(* order.  A component with an allowed package is allowed whole, and so is *)
(* what its packages depend on; each is visited after all that may allow   *)
(* it, so one pass reaches everything.                                     *)
FilterSubtrees(kind, start) ==
    LET together == {e \in Edges : e[1] \in Reachable(Edges, {e[2]})}
        accepted == {e \in Edges : AcceptsTarget(e[1], e[2], kind, TRUE)}
    IN  Reachable(together \cup accepted, start)

-----------------------------------------------------------------------------

CONSTANTS
    DefaultFeature, NoGroup,
    Invocations   \* [manifests, opts]: what the packages may say, and what
                  \* the command line may ask for then

(* Features are flags, and no package has the name and source that the     *)
(* crate of an integration test gets, <<package, name>> here.              *)
ASSUME ManifestsAssumption ==
    \A i \in DOMAIN Invocations : \A p \in Package :
        LET manifest == Invocations[i].manifests[p]
        IN  /\ {p} \X DOMAIN manifest.features \subseteq Flag
            /\ \A feature \in DOMAIN manifest.features :
                  \A e \in manifest.features[feature] :
                      (IF e[1] = NoPackage THEN <<p, e[2]>> ELSE e) \in Flag
            /\ manifest.targets \in Seq(Range(manifest.targets))
            /\ \A t \in Range(manifest.targets) :
                  <<p, t.name>> \notin Package /\ <<p, t.group>> \notin Package

(* check_unique_targets (core/workspace.rs:202).  The targets of a group   *)
(* are neighbours, of one kind and the same parameters: try_new_group      *)
(* refuses others.                                                         *)
ASSUME TargetsAssumption ==
    \A i \in DOMAIN Invocations : \A p, q \in Root :
        LET targets(r) == Invocations[i].manifests[r].targets
            grouped == SelectSeq(targets(p), LAMBDA t : t.group # NoGroup)
        IN  /\ \A j \in DOMAIN targets(p), k \in DOMAIN targets(q) :
                  /\ targets(p)[j].kind = targets(q)[k].kind
                  /\ targets(p)[j].name = targets(q)[k].name
                  => p = q /\ j = k
            /\ \A j, k \in DOMAIN grouped :
                  grouped[j].group = grouped[k].group =>
                      \A n \in j .. k :
                          [grouped[n] EXCEPT !.name = grouped[j].name] = grouped[j]

VARIABLE invocation

manifests == Invocations[invocation].manifests
opts == Invocations[invocation].opts

Defined(p) == DOMAIN manifests[p].features

Members == Root \cap decided

(* FeaturesDefinition::select: what of the names is defined, ...           *)
Selection(p, names, default) ==
    names \cup IF default
               THEN {DefaultFeature} \cup
                    {e[2] : e \in {d \in UNION {manifests[p].features[f] :
                                       f \in Defined(p) \cap {DefaultFeature}} :
                                   d[1] = NoPackage}}
               ELSE {}

Select(p, names, default) == Defined(p) \cap Selection(p, names, default)

(* ... and what is not, which is an error.                                 *)
Unknown(p, names, default) ==
    Selection(p, names, default) \ (Defined(p) \cup {DefaultFeature})

(* The features of a member that the command line selects.                 *)
Selected(member) ==
    Select(member, IF opts.all THEN Defined(member) ELSE opts.features,
           opts.default)

(* validate_features *)
FeaturesKnown(members) ==
    opts.all \/ opts.features \subseteq UNION {Defined(p) : p \in members}

(* The dependencies whose features count in a unit: of each package of the *)
(* solution, on each accepted one, the dependency for the kind of target   *)
(* and the normal one.                                                     *)
Requests(root, kind) ==
    {r \in SolutionOf(root, kind) \X Key :
        /\ r[2] \in FullDependencies(r[1])
        /\ Answer[r[2]] \in DependenciesFor(r[1], kind, r[1] = root)
        /\ DepKind[r[2]] \in {kind, "normal"}}

Seeds(root, kind) ==
    ({root} \X Selected(root)) \cup
    UNION {LET request == manifests[r[1]].request[r[2]]
               q       == Answer[r[2]]
           IN  {q} \X Select(q, request.features, request.default) :
              r \in Requests(root, kind)}

UnknownRequested(root, kind) ==
    \E r \in Requests(root, kind) :
        LET request == manifests[r[1]].request[r[2]]
        IN  Unknown(Answer[r[2]], request.features, request.default) # {}

Dependants(root, kind) ==
    LET Enabled(p, e) == IF e[1] = NoPackage THEN <<p, e[2]>>
                         ELSE IF e[1] \in DependenciesFor(p, kind, p = root)
                              THEN e ELSE NotADependency
    IN  [f \in Flag |-> IF f[1] \in decided /\ f[2] \in Defined(f[1])
                        THEN {Enabled(f[1], e) :
                                 e \in manifests[f[1]].features[f[2]]}
                        ELSE {}]

-----------------------------------------------------------------------------
(* generate_cairo_compilation_units: one unit per group of targets, then   *)
(* one per target without a group.                                         *)
Job(member, t) ==
    [member |-> member, kind |-> t.kind, integration |-> t.integration,
     name |-> IF t.group = NoGroup THEN t.name ELSE t.group]

Jobs(member) ==
    LET targets == manifests[member].targets
        alone[n \in 0..Len(targets)] ==
            IF n = 0 THEN <<>>
            ELSE IF targets[n].group = NoGroup
            THEN Append(alone[n - 1], Job(member, targets[n]))
            ELSE alone[n - 1]
    IN  SetToSeq({Job(member, t) :
                     t \in {u \in Range(targets) : u.group # NoGroup}})
        \o alone[Len(targets)]

Plugin(p) == manifests[p].class = "plugin"

(* pull_from_graph: the member is always a component.                      *)
LibrariesOf(root, kind) ==
    {p \in SolutionOf(root, kind) : p = root \/ manifests[p].class = "lib"}

PluginsOf(root, kind) == {p \in SolutionOf(root, kind) \ {root} : Plugin(p)}

(* Mutant of PackageDependencies: every package is taken for the main one. *)
PackageDependencies_Root(p, kind, root) ==
    LET direct == DependenciesFor(p, kind, TRUE)
    IN  direct \cup UNION {manifests[q].reexports : q \in direct}

(* WorkspaceResolve::package_dependencies, with re-exported plugins.       *)
PackageDependencies(p, kind, root) ==
    LET direct == DependenciesFor(p, kind, p = root)
    IN  direct \cup UNION {manifests[q].reexports : q \in direct}

(* A package re-exports a plugin that it does not depend on.               *)
BadReexport(p, kind, root) ==
    \E q \in DependenciesFor(p, kind, p = root) :
        \E plugin \in manifests[q].reexports :
            ~ (plugin \in DependenciesFor(q, kind, p = root) /\ Plugin(plugin))

(* The package an integration test is compiled as.                         *)
TestPackage(job) == <<job.member, job.name>>

(* cairo_compilation_unit_for_target: the packages, and the member twice   *)
(* for an integration test, which looks its features up under the name of  *)
(* the test package.                                                       *)
Components(job, flags) ==
    LET FlagsOf(p) == {f[2] : f \in {g \in flags : g[1] = p}}
        first == [id |-> IF job.integration THEN TestPackage(job)
                                            ELSE job.member,
                  features |-> Selected(job.member) \cup
                      IF job.integration THEN {} ELSE FlagsOf(job.member),
                  test |-> job.kind = "test"]
        Dependency(p) == [id |-> p, features |-> FlagsOf(p), test |-> FALSE]
    IN  {first} \cup
        {Dependency(p) : p \in LibrariesOf(job.member, job.kind) \ {job.member}}
        \cup IF job.integration
             THEN {[id |-> job.member, test |-> FALSE,
                    features |-> Selected(job.member) \cup FlagsOf(job.member)]}
             ELSE {}

(* component_dependencies, of the component with that id.                  *)
ComponentDependencies(job, ids, id) ==
    LET p == IF id = TestPackage(job) THEN job.member ELSE id
        packages == PackageDependencies(p, job.kind, job.member)
    IN  [libraries |-> (ids \cap packages) \cup {p},
         plugins   |-> {q \in packages : Plugin(q)}]

(* A unit of the packages and flags that were collected for its kind.      *)
Unit(job, flags) ==
    LET components == Components(job, flags)
        ids        == {c.id : c \in components}
        allowed    == FilterSubtrees(job.kind, manifests[job.member].allow)
    IN  [job |-> job, components |-> components,
         deps |-> [id \in ids |-> ComponentDependencies(job, ids, id)],
         plugins |-> {[id |-> p, builtin |-> manifests[p].builtin,
                       allowed |-> p \in allowed, prebuilt |-> FALSE] :
                          p \in PluginsOf(job.member, job.kind)}]

(* The error paths of collecting for a target and of building its unit.    *)
(* allowed_prebuilt reads [tool.scarb] of the member before all else.      *)
CollectFails(job) ==
    \/ ~manifests[job.member].tool
    \/ UnknownRequested(job.member, job.kind)

VersionMismatch(job) ==
    ~opts.ignoreVersion /\ \E p \in LibrariesOf(job.member, job.kind) :
                               ~manifests[p].cairo

UnitFails(job) ==
    \E p \in LibrariesOf(job.member, job.kind) :
        BadReexport(p, job.kind, job.member)

-----------------------------------------------------------------------------
(* The plugins that need a unit of their own, and whether prebuilt will do.*)
Wanted(units) ==
    {[id |-> q.id, allowed |-> q.allowed] :
        q \in {r \in UNION {u.plugins : u \in units} : ~r.builtin}}
    \cup {[id |-> p, allowed |-> FALSE] : p \in {m \in Members : Plugin(m)}}

(* Mutant of ProcMacroUnits: sorted the other way round.                   *)
ProcMacroUnits_AllowedFirst(units) ==
    LET wanted == IF opts.loadMacros THEN Wanted(units) ELSE {}
    IN  [p \in {w.id : w \in wanted} |->
            /\ opts.loadPrebuilt /\ manifests[p].prebuilt
            /\ \E w \in wanted : w.id = p /\ w.allowed]

(* A procedural macro is loaded prebuilt when nobody forbids it: those not *)
(* allowed come first, and unique_by keeps the first of each package.      *)
ProcMacroUnits(units) ==
    LET wanted == IF opts.loadMacros THEN Wanted(units) ELSE {}
    IN  [p \in {w.id : w \in wanted} |->
            /\ opts.loadPrebuilt /\ manifests[p].prebuilt
            /\ \A w \in wanted : w.id = p => w.allowed]

(* The units, their plugins told which libraries are prebuilt.             *)
WithPrebuilt(units, macros) ==
    LET Told(q) == IF q.id \in DOMAIN macros
                   THEN [q EXCEPT !.prebuilt = q.allowed /\ macros[q.id]]
                   ELSE q
    IN  {[u EXCEPT !.plugins = {Told(q) : q \in u.plugins}] : u \in units}
=============================================================================
