# Verification of scarb

TLA+ models of the parts of scarb in which several threads, tasks or processes meet, model-checked with TLC on
small instances, with theorems that TLAPS proves for every value of the constants. Paths are relative to
`src/scarb/src/` unless they begin with `src/`. Modules are named after the code they model; `MC*` modules give
values to constants, `*_proofs` modules hold theorems.

## 1. The system

scarb is the package manager and build tool of Cairo. One command is one process; commands run concurrently on a
machine and share a cache directory, and builds of one workspace share a target directory. Inside a process there
are a tokio runtime, a solver thread, a rayon pool, and (for the language server) a small RPC server.

| component | state | operations | interacts with | what is hard |
|---|---|---|---|---|
| Advisory locks (`flock.rs`) | slot with a `Weak` to the open lock file, OS lock | `acquire_async`, drop of a guard | every writer of the cache directory | hand-over between the last guard and the next one, cancellation, threads that outlive their call, deletion of the lock file, kills |
| File guards (`flock.rs`) | open, locked, named files | `create_rw`, `open_ro`, `rename` | packaging, incremental builds, lockfile | truncation before locking, names that move |
| Once map (`src/utils/once-map`) | concurrent map, one `Notify` per key | `register`, `done`, `wait`, `wait_blocking` | resolver | lost wake-ups, two starters of one job |
| Resolver (`resolver/`) | once map, request channel, oneshot channel | `resolve`, `fetch`, PubGrub's provider | registry, lockfile, source map | two sides that wait for each other, failures of either, unregistered keys |
| Package source store, standard library | directories with a `.scarb-ok` mark | `protected_run_if_not_ok` | package cache lock, `scarb cache clean` | kills between wiping and marking, stale checks, threads that outlive a dropped future |
| Registry index cache (`core/registry/client`) | redb tables of records and cache keys | query of a package | registry over HTTP | stale keys, responses out of order, sessions |
| Archive download (`client/cache.rs`, `sources/registry.rs`) | one archive per version in the cache | download, verify, extract | lock of the registry's database, extraction | interrupted downloads that are reused, archives that fail verification |
| Git sources (`sources/git`) | bare database per remote, checkout per revision | `load` | package cache lock, the remote, `Scarb.lock` | pushes, forced pushes, databases made again, torn checkouts |
| Packaging (`ops/package.rs`, `core/publishing`) | scratch file, final file | script, file list, normalised manifest, archive, verify, rename | file guards, compiler | runs of several processes, kills, manifests that change meaning |
| Local registry, publishing (`client/local.rs`, `ops/publish.rs`) | records files and archives | publish, query, download | packaging, archive download | torn reads, kills between truncation and writing, versions published twice |
| Lockfile (`ops/lockfile.rs`) | one file | read, write | resolution of a workspace | truncation before locking |
| Resolution of a workspace (`ops/resolve.rs`, `core/resolver.rs`) | graph, enabled features, units | resolve, unify features, collect packages, generate units | resolver, lockfile, compilers | order of hash maps, closures over graphs, one plugin used by several units |
| Incremental compilation (`compiler/incremental`, `compiler/repository.rs`) | digest file and cache file per component | load, compile, save | compiler, file guards | edits during builds, builds that save at once, kills between the two writes |
| Build command (`ops/compile.rs`, `internal/offloader.rs`, `compiler/compilers`) | units to do, artifacts, the offloader's channel | filter and sort units, compile, write, post-process, join | all of the above | errors of two threads, panics, order of macros and their users, files of equal names |
| Macro server (`ops/proc_macro_server`) | two rendezvous channels, thread pool | requests, shutdown | language server | panicking workers, shutdown order, broken pipes |
| Macro host (`compiler/plugin/proc_macro`) | per component: macro packages, full path markers, data attached to generated files | expand one item, post-process | Cairo compiler, build command | one item visited again and again, tokens moved there and back in unsigned words |
| Interface of macro libraries (`src/plugins`, `v1/ffi.rs`, `v2/ffi.rs`) | blocks and arenas on both sides | list, expand, post-process, doc and their frees | macro host, macros | memory read by the side that does not own it, arenas replaced by the next expansion |
| Manifests and workspaces (`core/manifest`, `ops/workspace.rs`) | `Scarb.toml` files | find the workspace, read it, build packages | everything | inheritance, order of merging, one package in one workspace |
| Manifest editor (`manifest_editor`) | `Scarb.toml` files | `add`, `remove` | manifests | read-modify-write without a lock, truncation, entries that change their source |
| Execute, prove, verify (`src/extensions`) | numbered directories of files per package | execute, prove, verify | build, processes that start processes | directories read while they are written, kills, numbers taken at once |
| Oracles (`src/utils/scarb-oracle-hint-processor`) | pool of child processes, ids of requests | connect, call, drop | programs that `execute` runs | answers late, twice or never; starts that fail half-way |
| Documentation (`src/extensions/scarb-doc`) | tree of modules and groups, pages, `SUMMARY.md` | document, insert re-exports, collect groups, generate, save | Cairo compiler | pages named by others and generated in another pass |
| Command line, scripts, extensions (`bin/scarb`, `ops/subcommands.rs`, `ops/scripts.rs`, `scarb-ui/args`, `scarb-metadata/command`) | arguments and environment of a process | run an extension, a script, scarb again | metadata, build, what builds leave | what is asked for crosses several processes by variables, directories and few arguments, and each parses them anew |
| Metadata, templates, other extensions | mostly none | sequential | | conversions of data |

`PROJECT.json` lists every component with its sources, whether it is modelled, and every hazard at its line.

## 2. The modules

```
ProcessLock <- refined by - AdvisoryLock          OnceMapSpec <- refined by - OnceMap
     ^ used by                                         ^ its interface used by
 Extraction                                       ResolverProtocol <- refined by - WorkspaceResolve
     ^ extended by                                     ^ extended by                     |
 GitSource, ArchiveDownload                       FeaturesUnification                    |
     ^ extended by                                     ^ extended by                     |
 PackageCache                                     CompilationUnits <---------------------+

 Packaging   PackageArchive        IncrementalBuild   Artifacts        RegistryIndexCache
     ^ extended by ^                       ^ extended by ^             ProcMacroServer
       Publishing                            BuildCommand

 Manifest <- extended by - WorkspaceDiscovery <- extended by - ManifestEditor
 ProcMacroHost   ExpansionSpans   MacroMemory   ProgramRun   Oracles   CommandTree   ScarbDoc
```

### ProcessLock, AdvisoryLock

`ProcessLock` is what scarb expects of a lock: its users belong to one process; a process may be expelled (it dies,
or the lock file is deleted under it). `AdvisoryLock` is the code. A task goes through `acquire_async`: `Call` enters
the mutex of the slot, `Share` upgrades the `Weak` it finds, `Spawn` starts the blocking thread with the mutex held,
the thread's `Open` and `Lock` open the file and take the OS lock, `Store` puts the `Weak` into the slot. `Leave` and
`LeaveLast`/`Unlock` are the drop of a guard, of the last one in two steps, since the file is unlocked after the
reference count reached zero. `Cancel` drops the future (the thread goes on, `DropResult` releases what it got),
`Fail` and `LockError` are error paths, `Clean` deletes the lock file as `scarb cache clean` does, `Crash` kills a
process. A lock belongs to an inode, not to a path: `linked` counts the incarnations of the path.

### OnceMapSpec, OnceMap

`OnceMapSpec`: a job per key is started once and its result never changes; waiters get exactly that result.
`OnceMap` is `register` (`Register`, `AlreadyRegistered`), `done` in its two steps (`Done` stores, `NotifyWaiters`
notifies), and `wait` as the code has it: `Look`, `Listen` (creates the `Notified`), `Recheck`, `Awake`, `Read`.
`unreachable!()` is a state of its own.

### ResolverProtocol

The asynchronous side (`resolve`, `fetch`) and the solver thread share the once map (as `OnceMapSpec` has it), the
bounded request channel and the oneshot channel of the solution. Registering a key and sending its request are two
steps, as in the code. PubGrub may ask for any required package in any order and may give up where no version fits.
What is translated is which keys are registered (`RequestedKeys`) and which are waited for (`WaitedDependencies`,
`UsedKey` with its fallback), because the two differ: locked, rewritten, original form; test dependencies; `core`.
A query may fail, or find nothing. `Panic` is a failed `unwrap` of the thread and closes both channels.

### FeaturesUnification, CompilationUnits, WorkspaceResolve

`FeaturesUnification` is the work list of `ops/resolve.rs`: seeds from manifests and the command line, and a queue,
served in any order (it comes from a hash map). `CompilationUnits` builds the graph of a solution (`build_resolve`),
answers the queries of `Resolve`, which are the dependencies of a package for a kind of target and reachability, and
then is what follows unification: `PackageSolutionCollector` with its memo of the last member, target kind and
features, the components of library and test units, their dependencies and plugins, re-exported plugins, and who trusts
prebuilt ones, which the manifest of a package may say in a way that cannot be read (`CollectFails`).

`WorkspaceResolve` is a command as a whole: it reads `Scarb.lock` (shared lock), runs `ResolverProtocol`, spawns the
writing of the lockfile (`Truncate` before `LockLockfile` and `Write`, as `File::create` does), downloads, unifies and
generates unit after unit, while another command of the workspace reads and writes the same lockfile. `torn` and
`unlocked` record why the file may be damaged, and why versions may change.

### Extraction, GitSource, ArchiveDownload, PackageCache

`Extraction` is `protected_run_if_not_ok` around the filling of a directory: check without the lock, lock (the `Enter`
of `ProcessLock`), check again, wipe, extract file by file, mark, release, read. A build may be killed and run again, may
fail, or may be dropped while its blocking thread goes on without the lock (`trampled` records that another build took
the lock meanwhile). A cleaner deletes everything in any order, the lock file last or not, holding the lock of what it
deletes.

`GitSource` is `GitSource::load` on a branch: database opened, kept, fetched or made again; revision resolved, kept from
`Scarb.lock` or, when the remote has dropped it, replaced; checkout cloned, marked, read without the lock. Others push,
with and without force. `ArchiveDownload` is `download_and_verify_with_cache`: an archive of any size but zero is reused,
whatever happened when it was written; it is verified by whoever reads it, then extracted. `PackageCache` puts the two
and the standard library around one package cache lock and one cleaner; `Scenarios` says who takes part.

### RegistryIndexCache

The two tables of the cache, concurrent queries of one process (`ReadKey`, `Ask` or `UseCache`, then `Prune`,
`GetRecords` or `Upsert`, each in one transaction), a registry that publishes, yanks, forgets and relists, and
successive processes (`NextSession`, which keeps the database or finds it wiped). `seen` is a history variable: the
contents the registry had during the session.

### Packaging, PackageArchive, Publishing

`Packaging`: the package script, the scratch file (`create_rw`: truncated on opening, locked afterwards), the archive in
two writes, verification, rename, and failure or a kill anywhere. Files are inodes; a rename moves a name.
`PackageArchive` is what goes into the archive: which files are listed (ignore rules, `include`, nested manifests,
reserved names), which dependencies the normalised manifest keeps and how they are read again, and the record of the
index. `Publishing` composes them: `publish` takes the digest of the tarball, drops its lock, copies whatever has that
name, and rewrites the records in place under an exclusive lock (`OpenRecords`, `LockRecords`, `ReadRecords`,
`ClearRecords`, `WriteRecords`), while clients read records and archives without it.

### Manifest, WorkspaceDiscovery, ManifestEditor

`Manifest` is `to_manifest` and what it calls, as operators on a manifest (a record whose tables are functions): which
entries parse, inheritance of fields, tools and dependencies, sources of dependencies, listed and detected targets,
features, and the settings of a profile with its parent. `WorkspaceDiscovery` is the way up to a workspace, its members
by patterns, and the choice of one package. `ManifestEditor` is the commands that use them, all at once in one workspace:
`LocateWorkspace`, `LoadWorkspace`, then for `scarb add` and `scarb remove` `ReadAndEdit`, `Truncate` and `Write` (or
`CutWrite`), and the workspace again. `agreed` is what the edits asked for; `clobbered` names manifests whose edits
overlapped or were cut, `misled` the commands that walked past a manifest without its `[workspace]`. Entries keep the
form they are written in, because the editor treats the forms differently. `LoadWorkspace` reads all manifests of a
workspace at one moment.

### IncrementalBuild, Artifacts, BuildCommand

`IncrementalBuild`: a build hashes all sources, loads caches of fresh components, compiles, and saves digest and cache of
the others, one task per component, with the digest file's lock held from the digest's write to the cache's. Sources are
edited at any time. `disturbed` and `spoiled` are history variables: builds whose input moved after it was hashed, and
components whose last save was cut between its two files or made by a disturbed build.

`Artifacts` is what a compiler writes for a unit: program, executable, tests, contract classes. It has the selection of
contracts (own crate, selectors, wildcards, re-exports) and the names of files, in words that underscores separate
(`Stem`). `BuildCommand` is `process`: units filtered and sorted (`Selected`), macros skipped or built, units that are
only checked and may fail at that (`CheckFails`), then for each Cairo unit a compiler thread and an offloader with its
queue, whose opens truncate before they lock, whose buffered writes may lose their last error, and
which stops at the first error; then `PostProcess`, `Join` or `Unwind`. Every step of `IncrementalBuild` happens at its
place in a command, as `LoadUnit`, `CompileUnit`, `SaveUnit`, `FinishUnit`. `cut` and `clean` are history variables.

### ProcMacroServer

Reader, workers, writer and the main thread of `scarb proc-macro-server`. A send and a receive on a channel of
capacity zero are one joint step (`Take`, `Respond`). `PoolGone` says when the workers' clones of the channel ends are
dropped; together with the main thread's own ends that decides what a blocked sender or receiver does next. A handler
answers, with a result or an error, or panics. Lines that cannot be read or parsed end the reader. The client writes
and closes as it likes.

### ProcMacroHost, ExpansionSpans

`ProcMacroHost` is the compiler plugin of both versions of the macro API. The compiler hands it one item after the
other (`pending`), and a step is one call of `generate_code`: `Untouched`, `ExpandInnerAttr`, `ExpandAttribute` or
`ExpandDerives`; what is generated comes back as an item. A macro is any choice from `Results`: its stream is empty, the
same or changed, it has data or not, and names full path markers. `PostProcess` is a host's callbacks at the end.
`macroCalls` is a history of all expansions.

`ExpansionSpans` is the arithmetic of `span_adapter.rs`: `Adapt` moves a token of the item to where the macro shall see
it, `Expand` is the macro, `MapBack` and `Diagnose` move back a code mapping and a diagnostic, the latter in words that
go around or panic.

### MacroMemory

The memory that crosses between scarb and the dynamic library of a macro. A value that crosses is a record of pointers
to blocks; `Stream`, `Result` and the other types list the fields that `into_stable` allocates and `from_stable`
copies, the `Freed` operators follow `free_owned_stable`. `Load` opens the library and begins to list its macros; then
threads make calls (`UseLibrary`), the library answers (`ExpandTokens`, `ExpandText` of version 1, `CallBack`, `Doc`),
the host frees what it gave and copies what it got (`CopyResult`), and the library frees the rest (`GiveBack`). The
text of tokens is in arenas, which live as long as something holds them (`Alive`): the thread's `CONTEXT` until the
next expansion (`HoldContext`), and tokens a macro keeps for itself (`cached`), which it may return later. Where both
versions share their control the map names one of the two.

### ProgramRun, Oracles

`ProgramRun` is what several `execute`, `prove` and `verify` commands do to one package. `exec` is an `execute` process
(`Start`, `BuildProgram`, `Run`, `EnterDirectory`, `SaveFile`), of a user or of a `prove` process, which hands it a
directory (`GivenId`) and its flags written out and read again (`ToArgs`, `Parsed`); `proof` is `prove` (`StartProof`,
`Executed`, `ResolvePaths`, `AdaptInputs`, `AdaptTrace`, `SaveProof`). A file is absent, partial, or names the command
whose run it is; a proof is the set of the runs it was made from.

`Oracles` is the executor's side of an oracle (`Invoke`, `Initialize`, `Refuse`, `SendRequest`, `ReceiveResponse`,
`DropConnection`) and oracles that write whatever they like (`WriteLine`), but do not mix up the requests they answer.
A line is the set of its members, as serde looks at it to tell a request, a response and a notification apart (`Kind`);
one that begins like an object and is none of them is passed over, and a response may have an id and nothing else.

### CommandTree

The processes of one command: who starts a process waits for it, so they are a `stack`. A process has the call it was
started with, its installation, directory and environment, and what its last child told it. `Given` merges the command
line and the variables as clap does, `RefuseArgs` is its conflicts. `ExecReplace` turns scarb into an extension
(`External`); `Test`, `TestPackage`, `RunScripts` and `RunPackageScript` choose packages and start a shell
(`ExecuteScript`), `ShellStep` runs the commands of a script. An extension asks for metadata (`Describe`), matches
packages (`MatchPackages`), starts a build or an execution (`Prepared`) and opens the files it expects (`OpenFiles`).
An artifact is a record of what it was built with, so that one built with other features or without macros shows.
Package specifications come out of a hash set, in any order. One program, or one command of a script, may fail
(`accident`).

### ScarbDoc

`program` is what the compiler knows of the crates, by full path. `DocumentCrate` documents the root module and what is
in it (`Documented`, for `Module::new`), `InsertItem` and `InsertModule` give what is re-exported a place, in the
root's tree or in that of another crate, with virtual modules above it (`EnsureModuleStructure`, `MergeModules`);
`Grouped` is `collect_groups`. `GenerateSummary` makes the chapters, `SavePages` and `SaveGroups` write the pages,
which are records of what a page is about and of its links. A link is the name of a file and what it is meant to be
about, so that a page overwritten by another of the same name shows.

## 3. The runs

| run | instance | shows |
|---|---|---|
| `advisory_lock` | 2 processes, 3+1 tasks, one of which deletes the lock file | every call returns, also one whose own process has the lock, `ProcessLock`, and so exclusion between processes, is implemented |
| `once_map` | 3 callers on one key, one of them a bystander, 1 on another, 2 results | no lost wake-up, one job per key, `OnceMapSpec` is implemented |
| `resolver` | a workspace of two members, a git package with a path dependency that is a macro, a test dependency and `core`; channel of 4; one query may fail, one locked package may be gone; 10 sets of manifests and options, one with tool metadata that cannot be read; another command with the same lockfile | a solution means that all is answered, without an accident the thread does not panic and ends, the command always ends; versions locked at the start are kept; features are the least closed set; units are closed under dependencies, have their features, agree on prebuilt macros |
| `resolver_no_core` (violation) | packages with `no-core` and a dependency without | nobody registers `core`; the thread's `unwrap` fails |
| `resolver_channel_full` (violation) | more root dependencies than the channel holds | `resolve` blocks for ever |
| `extraction` | 7 scenarios of two builds (standard library, registry, git, locked, offline) and a cleaner, 2 files, 2 revisions, 1 kill | readers find everything, checkouts are whole, revisions are the locked or the present ones, extracted sources were verified, everybody ends |
| `index_cache` | 2 queries, 2 versions, 2 registry changes, 2 sessions | online answers are fresh until the first 404 |
| `index_cache_stale_key` (violation) | 1 query, the same registry, 3 sessions | a 404 prunes the records and keeps the key; the next 304 answers with nothing |
| `packaging` | two publications in one target directory, one of another version elsewhere, a client; 5 packages. Or: 3 commands, 2 of which edit, in a workspace of 3 members, with a workspace inside and a package that is not listed. Or: the book of a crate with a module in it, and of a second crate, over all ways to re-export, group and hide | the final name never leads to a broken archive, archives depend on nothing local, recorded versions stay and their records describe the archives, clients use what they verified; edits that do not overlap add up, a package has one workspace, what is inherited is the same for all; every chapter and link of a book leads to the page it means |
| `packaging_script` (violation) | 2 runs at once | the lock for the script is created and never acquired |
| `incremental_build` | 4 scenes: 2 processes building application and library 3 times with 2 edits and 1 fault; contracts, two of which share a file, executable and tests with 3 macros, 2 commands, 1 edit, 1 fault; 2 commands on one library | a digest stands for the cache beside it; undisturbed builds compile present sources; macros are there when loaded; a unit that ends well has left whole and present artifacts |
| `proc_macro_server` | 2 workers, 2 good requests, 2 that panic, a broken line, pipes of 2 lines and 1. Or: the hosts of 2 components, 3 programs, 2 sets of macro packages, one of them with a name twice. Or: an item in a file of 6 columns, any attribute and token in it. Or: 2 threads with a library of either version, which expand twice. Or: 2 possible processes of an oracle, 3 invocations, 3 lines. Or: 3 commands on a package of 2 executables, 2 numbers for executions, 1 kill. Or: one command of `test`, `run`, `build` or an extension, with filters, features and scripts, typed in a package, in the root of a workspace of two, or outside, with several global arguments or environments, 2 installations | one answer per request, shutdown drains, the server returns, good requests are served; macros act once and in order, callbacks get their data and no other; spans come back to their tokens; memory is there when it is read and freed once; an answer is for its invocation, no oracle is left behind; proofs are of one whole run, the one asked for; a command tests, runs and builds what it was asked to, once, with the features, profile, macros and directories that were asked for |

The four violations are the entries of `findings` in `PROJECT.json`.

**Bounds.** The instances have what the interesting cases need: a third task in the lock's process so that one leaves
last, one opens and one shares; a bystander for a missing key; a channel smaller than the requests of the thread and
the roots together, and a workspace whose features, macros and test dependencies cross package borders; a kill and the
restart after it; an edit and its reversion; enough panics for the whole pool, and more requests than the pipes hold.
Counters are bounded by `MaxCrashes`, `MaxChanges`, `MaxSessions`, `MaxBuilds`, `MaxEdits`, `MaxFaults`, `MaxEvents`
(of edits and faults together), `MaxCuts`,
`MaxCalls`, `MaxLines`, `MaxId`, `MaxExpansions`, `MaxAccidents` (of the commands of `ProgramRun`, two), and per scene by
`MaxCommands` and `MostEdits`; `Faultless` names
scenes without faults, and `Alone` those in which one command runs at a time. The cache directory is looked at in
`Scenarios` of two builds and a cleaner, not in all combinations of roles: two processes are enough for every pair of
roles that share a lock. A file of `MaxOffset` = 6 columns has room for trivia, an attribute and tokens on both sides;
`WordSize` is the least the assumption allows. No bound appears in an argument of a proof except as a type and in that
assumption. `incremental_build` uses the symmetry of builds, and checks no liveness.

**Deadlock** is checked except in `advisory_lock`, where every task ends (cancelled, killed or done) and nothing is
left to do; in `packaging`, where publications, clients and editors end; in `index_cache*` and `incremental_build`,
where the bounds on sessions, builds and changes run out; and in `resolver_channel_full`, whose subject is a stop.
Elsewhere an explicit step (`Over`, which also ends the scenes of other programs, `CacheOver`, `Terminated`, `Quiet`)
stands for the regular end, and any other stop is an error.

**Fairness.** `advisory_lock`: polled tasks and running threads (weak fairness per task), and scopes that end, which
they need not while a call of their process waits, for it may be a call of the scope (`CallWaits`); nothing is assumed
of cancellation, errors or kills. `once_map`: threads run and jobs end. `resolver`: the task is polled, the
thread is scheduled, each query ends (HTTP and git have timeouts or fail), the writer of a lockfile and the generation
of units go on; the other command need not start, and compilation (`building`) may last for ever. `extraction`: weak
fairness per process, and strong fairness of getting a lock (`Waits`), since OS locks are granted to a waiter when
holders keep leaving. `proc_macro_server`: threads run, a handler ends, two threads that can meet at a channel do, a
client reads what arrives; nothing about what it writes or closes, and nothing in the other scenes of that run. The
other runs check safety only.

## 4. What is proved

All theorems are about a module's `Spec` (`WorkspaceSpec` for the command, `HostSpec` for the host of macros,
`EditorSpec` for the editor), for every value of the constants that satisfies the module's assumptions.

- **AdvisoryLock**: `NeverWaitsForItself`, `MutexReleased`, `GuardsShareOneFile` follow from `LocalInv` (the task
  in the mutex is the one that waits for its thread; holders hold what the slot's `Weak` refers to). `Exclusion` and
  `Refinement` need `LocalInv` and `GlobalInv`: an open file that a live guard keeps is locked, at most one open file
  of an inode is locked, and what is being unlocked has no guard. They assume `LockingSupported`.
- **OnceMap**: `NoUnreachable`, `RunOnce` and `Refinement`, from `MapInv`: a notification implies a stored result.
- **ResolverProtocol** and **WorkspaceResolve** (one module of proofs): `NoRequestLost`, `QueriedOnce`,
  `SuccessIsComplete`, `TypeCorrect`, from `ProtocolInv`, which follows a request from registration to its answer, in
  one place at a time; for every graph, lockfile and capacity. `UsesOnceMap`: resolve and its thread use their map as
  `OnceMapSpec` promises, registering a key once and never replacing an answer.
  `ImplementsProtocol`: a command's steps are steps of the protocol or stutter, so that
  `CommandLosesNoRequest` and `CommandResolvesCompletely` are the protocol's theorems.
  `UnwrapsHold` (`ThreadNeverPanics`) assumes `AskedIsThere`: `core` is not a path dependency, and a package of the
  workspace asks for it unless none does. `UnwrapInv` says which keys are registered by the time the thread waits
  for one. The code does not see to the last part of the hypothesis: `resolver_no_core` is the panic without it.
  `FeaturesAreLeastClosed`: the work list is between the seeds and the closure at every step, and closed when its
  queue is empty. `LockfileKeepsVersions` needs that two writers are at different places of open, lock and write, or
  have a reason to be excepted. `UnitsAgreeOnPrebuilt`: a macro's unit is decided once, before the units that load it
  are changed. `UnitsAreClosed` (`UnitsClosed`): as long as a search finds anything new it uses a new edge, so that it
  has found everything after as many steps as there are edges (`ReachableIsClosed`), and nothing but what is reached
  (`ReachableIsLeast`). The packages of a unit so contain what they depend on, and what unification enables is what a
  search from the seeds finds. `UnitsInv` adds that what has been collected belongs to the job at hand or to one before
  it, and that decisions are final once `resolve` has returned (`DecidedStays`), which every unit relies on.
- **Extraction** and **PackageCache** (one module of proofs): `MarkIsHonest`, `ReadersSafe`, `TypeCorrect` of the
  extraction alone, from `IInv`: one process is inside; whoever wipes or fills has seen no mark under the lock.
  (`MarkIsHonest` is in no run.) Of the whole cache, under `CacheSpec`: `CacheTypeCorrect`, `CacheReadersSafe`
  (`ReadersFindAll`), `CheckoutsWhole` (`CheckoutsComplete`), `RevisionsRight` (`RightRevision`), `SourcesRight`
  (`SourcesVerified`), from `CacheInv`. Its parts are `IInv`, which steps of git and of downloads keep because they
  touch the lock in the same way (`ForeignStep`); `GitInv`: one process is inside the lock of git, what it builds is
  unmarked until it is whole, and readers read what is marked; `RevInv`: a revision is right from the moment it was
  chosen, a tip since the build took the lock, or the locked one unless the remote dropped it; and `SourcesInv`: a
  process extracts what it has verified or found marked.
- **Packaging** and **Publishing** (one module of proofs): `TypeCorrect`, with `LockInv`: the lock of an inode has one
  holder, that has it open. `PackagesTheSame`: publishing refines packaging. `RecordsDescribeArchives`
  (`RecordedArchives`), for any number of publications at once: the lock of the records is held from reading to
  writing, what was read is what is there until it is emptied (`RecordsInv`), and a publication that nothing disturbs
  copies what it will record (`CopiesInv`). `FinalStaysWhole`, `TarballsStandAlone`, `ClientsGetWhatIsRecorded`
  assume `OneAtATime`, because the lock that would see to it is created and never acquired (`packaging_script`): then a
  process has the scratch file to itself (`AloneInv`), a tarball is that of a package that can be normalised
  (`TarballInv`), and what a client has verified or unpacked is what the registry has, but for the causes in history
  (`ClientInv`).
- **ManifestEditor** with **WorkspaceDiscovery** and **Manifest** (in the module of proofs of publishing), for any
  number of commands, any directories and manifests. `EditorTypeCorrect` is part of `EditType`: a command that edits
  has found a package, and all of a manifest or a draft but its dependencies is what it was at the start, or all of it
  is empty. `EditsAddUp` (`EditsApplied`), from `EditsKept`: unless its edits overlapped or were cut (`clobbered`), a
  manifest is truncated at the moment or agrees with what was asked of it, as does the draft of whoever is about to
  write it, with that one's request. That one edit of a manifest that agrees leaves one that agrees (`EditAgrees`) is
  because every key that names a source is purged before the new one is written (`UpsertedFollows`), and because a path
  made relative to a manifest leads back from there (`ThereAndBack`, for any two directories). `MembersInheritAlike`
  (`InheritedAlike`): an edit never makes an entry inherit and leaves `[workspace]` and profiles alone
  (`InheritedKept`), so that what a command has read of them is what any other reads at any other time (`ReadKept`).
  `OneWorkspaceEach` (`OneWorkspace`): unless it was `misled`, a command finds a workspace above it if there is one,
  its own directory first (`NearestAbove`), and works in that one, or in its package alone where the workspace does not
  list it (`RightWorkspace`).
- **RegistryIndexCache**: `CacheConsistent`, `AnswersAreFresh`, `TypeCorrect`: bodies and keys were seen in this
  session, which with one transaction per response makes their order irrelevant.
- **IncrementalBuild**: `DigestsAreHonest`, `IncrementalIsClean`, `TypeCorrect`: while a save is under way, the digest
  is its own or truncated; whoever has loaded a cache that is rewritten is disturbed; an undisturbed build has hashed
  and loaded what is on disk (`IInv`).
- **BuildCommand** (in the same module of proofs, under `CommandSpec`): `DigestsStayHonest`,
  `CommandsCompilePresentSources`, `ArtifactsStayCurrent` (`ArtifactsCurrent`), for any units, commands and contracts.
  A command keeps `IInv` although its steps are not all steps of `IncrementalBuild`: one that ends while it writes
  artifacts has saved nothing yet and so holds no lock (`CommandMoves`, from `UnitInv`: outputs are pending only before
  the first save, and both threads have only outputs of the present unit). `ArtifactInv` follows an output from the
  compiler through the channel to the disk: it is still to be produced, in the channel, open, or settled, which means
  whole and as it should be, cut, or being rewritten by another build. An output that shares its file with no other
  output of its unit (`Unshared`) does so with none at all (`FilesApart`), because a workspace's targets of one kind
  have different names (core/workspace.rs:202, in `CommandsAssumption`), and extensions tell kinds of units apart.
  The hypothesis `IntendedAreSelected` says that the contracts one expects of a unit are those that it selects, which the run checks on its examples of selectors, wildcards and re-exports.
- **ProcMacroServer**: `OneAnswer`, `ShutdownDrains`, `TypeCorrect`, from `ServerInv`: a request is in one place, good
  ones are nowhere lost while a worker is left and the client listens, and threads end in order (reader, workers,
  writer, main).
- **ExpansionSpans** (in the same module of proofs): `SpansReturnTheorem`, for every `MaxOffset` of which twice is less
  than a word. Where a token is left of the attribute or right of it decides how it was moved, and the widths tell the
  two apart on the way back.
- **Oracles** (likewise): `AnswersInStep` (`AnsweredAsAsked`): ids grow with the calls, a process has asked each at
  most once, and the call under way has the newest (`AnswerInv`). `OraclesEnd` (`NoneLeftRunning`): a process that runs
  and listens is in the pool or being connected (`PoolInv`).
- **MacroMemory** (likewise): `MemoryStaysLive` (`MemoryIsLive`), for any number of threads. `MemoryInv`: what is
  allocated is the union of what the calls under way hold, and where a call is says which of its values were made, by
  the host or by the library; so that nothing is freed twice, and nothing is left when a call is over.
- **ProgramRun** (likewise): `RunsProvedWhole` (`ProofsOfWholeRuns`), for any number of commands, from `RunInv`: a
  numbered directory is claimed by one command and empty until its process enters it (`ClaimsInv`); the files it has
  are those that its order of writing leaves (`Written`); what `prove` has read while both inputs were there is of one
  run, because the private input is written last (`ProofInv`).
- **ProcMacroHost** (likewise): `MacrosActInOrder` (`MacrosExpanded`) and `CallbacksGetTheirData` (`DataDelivered`), for
  any units, macros and answers. An item of the program is in the queue at most once, before any of its derives is
  called and before it is kept (`Pieces`); its attributes are then the macros called on it so far, followed by those that
  are left, and so for each of the functions that it still has, which are the first ones: what follows an expanded
  function is lost (`Traces`, `TracesKept`). The data of a package are those of the calls that had data and a file, in
  the order of the calls (`DataOK`), and a full path marker is kept of the first call that counts (`RegisteredOK`);
  together with what is left to visit these make up `HostInv`.

The assumptions are those of the modules. Most only say that special values differ from ordinary ones and that bounds
are numbers; `FiniteAssumption` says that there are finitely many packages and features, `ManifestsAssumption` that
manifests name features as such and that the crate of an integration test has a name of its own;
`TargetsAssumption` that the targets of a workspace have names of their own among those of one kind, and those of one
group are alike but for their names (so that the assertion on ids of units holds);
`ArtifactsAssumption` says that there are finitely many contracts, each with a path longer than a name,
`CommandsAssumption` that units are of the known kinds and named apart; `ContentAssumption` (`Publishing`) that the
content of an archive is no mark for a missing or half-written one, `OraclesAssumption` the same of processes,
`HostAssumption` that a name is that of one item and, in it, of one function, `ProgramAssumption` that commands are
asked for executions within the bound, `EditorAssumption` that directories are sequences of names, that manifests have
each table, be it empty, and that commands are called in a directory and for a section that there is. Hypotheses of
single theorems are `LockingSupported`, `OneAtATime`, `AskedIsThere` and `IntendedAreSelected`; runs satisfy all four.

The inductive invariants are needed because the properties are not inductive: that a returned server has answered
everything, say, depends on the writer having ended only because the pool is gone, which depends on the reader.
`MutualExclusion`, `RequestsOnTheWay`, `CacheMatchesKey`, `NeverUnreachable`, `NoSelfWait`, `SlotReleased`,
`OneFilePerProcess`, `OneJobPerKey`, `RequestedOnce` and the type invariants of these modules are proved and in no run.

Only model-checked:

- all liveness properties (`CallsReturn`, `WaitersReturn`, `CommandEnds`, `Extraction`'s and `ProcMacroServer`'s
  `Served`, `Returns`), which the prover cannot reach because they need fairness and `ENABLED`;
- `LinksLead`, whose module has recursive operators, as names and modules are nested in one another;
- `DoneAsAsked`, which needs an induction over scripts, and in whose module environments are merged with `@@` and `:>`,
  which are built in and which the prover cannot expand.

The type invariants `WorkspaceTypeOK` and `PublishingTypeOK` are proved only as far as the invariants above contain
them, and no run lists them. Added to the `.cfg` of `resolver` and of `packaging`, TLC finds them to hold.

## 5. Limits

Seen while modelling, and excluded from a property or its precondition rather than hidden:

- `scarb cache clean` deletes the lock file it holds: the next process locks another file (`MutualExclusion` is about
  one file). If it is killed, `.scarb-ok` may outlive the files (`HalfCleaned`).
- The blocking thread of `acquire_async` outlives a cancelled call (flock.rs:175); its lock is released when it ends.
  The blocking threads that fill a directory or a checkout outlive theirs without the lock (git/mod.rs:86): what they
  write is excepted once another process has taken the lock (`trampled`).
- A locked git dependency that is gone makes the solver wait for a key nobody registered (provider.rs:222); a failed
  query leaves the solver thread blocked after `resolve` returned (`ThreadNeverPanics` and `ThreadEnded` are conditional).
- A test target that is named like its package would get the package's own id for the crate of its integration tests
  (core/package/id.rs:37), which then is two components of one id; `ManifestsAssumption` excludes it.
- A locked git revision the remote has dropped is replaced without an error by what the branch points at
  (git/client.rs:148); `RightRevision` allows exactly this replacement.
- A download that failed or was cut leaves an archive that later commands take as downloaded (client/cache.rs:145).
  They verify it, fail, and fail again; nothing removes it.
- `Scarb.lock` is truncated before its lock is asked for (lockfile.rs:30): a command that reads it then resolves as if
  nothing were locked (`torn`, `unlocked`).
- Clients read the records of a local registry without a lock and may see them torn; a publication killed or failing
  between truncation and the end of its write loses all of them (local.rs:236-243; `lost`). Two publications of one
  version may leave the record of one and the archive of the other (local.rs:171-176; `disturbed`).
- Two `scarb package` runs at once truncate each other's scratch file (`FinalIsWhole` is checked with
  `OneAtATime = TRUE`).
- A save that is cut between digest and cache leaves a fresh digest on an old cache (compilation.rs:202-216;
  `spoiled`). Different graphs may hash alike (fingerprint.rs:455): the model's digests are injective.
- Artifacts are written through a buffer whose last error is dropped with it (helpers.rs:150-154), and an error of
  post-processing hides that of the offloader (`cut`, `PostProcessFails`). A contract that is called as the path of
  another one reads with underscores, as `app_a_C` and `app::a::C` beside `app::b::C`, shares its file, and the later
  one is kept (contract_selector.rs:61-73; `Unshared`). Targets are named in one word: files that two targets share
  because one's name begins with the other's are not met.
- `scarb add` and `scarb remove` take no lock: of two at once one may be lost, or what is left of a longer text garbled;
  a kill in between leaves the manifest empty, and a workspace whose root has lost `[workspace]` falls into its members
  (ops/workspace.rs:44; `clobbered`, `misled`). `scarb add` keeps `workspace` and `registry` keys of an entry whose
  source it changes (add.rs:233), so that the manifest can no longer be read (`Contradicts`), and panics on an entry
  that is a table (add.rs:169).
- A profile that inherits another one does not get the settings of its section where `[cairo]` has them too
  (toml_manifest.rs:1173). `dev` and `release` may inherit each other, but a profile gets only the section of the one
  it names, not what that one inherits (toml_manifest.rs:1147). A member that has a `[workspace]` of its own inherits
  from that one (toml_manifest.rs:626). All are excepted in `InheritedAlike`, and packages with two workspaces above
  them in `OneWorkspace`.
- A macro that panics, or parameters that do not parse, leave a request without an answer and the pool one worker
  smaller (proc_macro_server/mod.rs:84; `Poison`).
- Functions of a trait or an impl that follow one with a macro are dropped with it (v1/host.rs:248; `LostFunc`).
  Derives are left unexpanded after an attribute that changed nothing (v1/host.rs:712; `LeftAlone`). Data is lost of an
  attribute that removes its item, and of derives that generate nothing (`HasFile`).
- Of a package's full path markers a host keeps those of the first expansion only, and none of derives
  (v1/host.rs:926; `Registering`). A package's callback is called once for each component that depends on it, each time
  with the data of the whole program (`DataDelivered`).
- A diagnostic at the call site makes a build with checked arithmetic panic when the attribute ends at an offset of the
  file less than the item's width (span_adapter.rs:275; `panicked`).
- The tokens a macro returns must be in the arena of its expansion or in one that it goes on holding: `into_stable`
  drops the guards of the others before the host reads their text (conversion.rs:22, lib.rs:142; `careful`), so tokens
  that were deserialised or made in an `AllocationContext` of the macro's own are not safe to return. A macro that
  panics ends scarb, for the exported functions are `extern "C"` (`Panic`).
- An oracle that hangs hangs its program: there are no timeouts. After an error its connection stays in the pool, and
  one line too many makes every later call fail, with a response to another request. The shutdown notification is
  followed at once by a kill (`Dropped`); a process that has closed its input is not killed (`NoneLeftRunning`).
- A run that fails leaves its numbered directory with what it has written, or empty if `prove` made it; only the order
  of the files makes `prove` refuse it. `prove --execute --output none` and `pie` fail after the run. A proof is
  truncated before it is replaced: `verify` refuses it meanwhile. A build that is killed leaves a partial program.
- `SCARB_PACKAGES_FILTER` in the environment of `scarb test` selects the packages to test and is applied again by each
  `cairo-test` it starts, which then tests the same packages once more (`FilterOfEnvironment`). Specifications of
  packages that overlap are deduplicated between neighbours only, so a package may be tested or run twice
  (packages_filter.rs; `Overlap`). `scarb test -F f` passes if one of the selected packages has `f`, and fails in the
  build for one that lacks it (`SplitFeatures`). `--offline` on the command line is not in the variables of children
  (`OfflineLost`). Scripts of `scarb run -p a` get the manifest path of the caller, not that of `a`.
- In a book of scarb-doc, a link to a variant, a member or a function of a trait names the page of the module
  (context.rs:51; `PartLink`). What is re-exported only by a module that is in a group or re-exported itself has no page
  (crate_type.rs:120; `FarReexport`); a group of a module that is in the tree because something in it is re-exported, or
  of a re-exported module with private items, is not collected (`OutOfGroup`). A module or trait named as a list, such
  as `constants`, shares its page's file (`TwoMeanings`). Impls of a trait for tuples or type parameters are hidden,
  though only those with hidden arguments are meant to be (module_type.rs:301, 336; `HideImpl`).

Abstracted: inline macros, and items on which plugins of both API versions or of the compiler act; `LockingSupported =
FALSE` (file systems without locks) is a constant of the model and not run; failures to spawn a thread; `OnceMap::get`;
a workspace whose members are edited between the readings of two of its manifests, since `LoadWorkspace` is one step;
the directory in which packaging verifies; `SCARB_INCREMENTAL=0`; what a macro, a compiler or a hash computes; the
bytes of pipes. Not modelled, with the reason, in `components` of `PROJECT.json`: sequential commands, conversions
(metadata, templates, tokens), and the language server's extension; of the command line, the wording of help and
output, `--test-kind`, arguments of scripts, and what a shell knows beside `&&`; of scarb-doc, its JSON output,
suffixes of equal names, comments and layout.

## 6. Plan

Done so far, in this order: locks, the once map and the resolver; extraction, the index cache, packaging, incremental
builds, the macro server; then sources (git, archives) under one cache, the lockfile and the resolution of a workspace,
publishing, and the build command; then manifests, workspaces and their editor; then the host of macros; then the
programs that scarb runs and is run by, the interface of macro libraries, books of documentation, and the processes of
one command. Left:

1. `AsyncCache` with the source map, under `ResolverProtocol`'s queries.
2. Two registries whose database locks are taken in opposite order: `AdvisoryLock` twice.
3. Proofs: `DoneAsAsked` by induction over the least index of a script at which it fails,
   once environments are merged by functions of the model's own.
