# TLA+ verification of server_entry

`server_entry` keeps a *canonical Graph* of the declarations of a Project: it
finds the Project's Sources, parses them, merges what they declare into one
Graph and keeps that Graph up to date while the files are edited. This
directory holds TLA+ models of the parts that decide what the Graph contains,
TLC configurations that check them on small instances, and TLAPS proofs for
every value of the constants.

All paths below are relative to `src/server_entry/`.

## 1. Inventory of the system

| Part | State | Operations | Hard behaviour |
|---|---|---|---|
| **String Registry** `project/string/` | slots, index, generation | isolated updates: intern, prepare, compact, publish, cancel; swap of a loaded registry | several open updates; tombstones after compaction |
| **Source Manager** `project/source/source_manager*` | Source records (path, physical state, bytes), roots, include graph and its reverse | acquire, reserve, resolve includes, validate, prepare, publish, cancel; checkpoint load | files edited while they are read; re-acquisition inside one update; cycles |
| **Source frontend** `project/frontend/` | per-Source discovery/semantic state, work queues, cached interfaces | G0: worker pool for acquisition and parsing; incremental: dirty set, interface reuse | dependency counting across threads, failure while others work, termination |
| **Canonical Graph** `project/graph/graph*` | Entities with stable ids, type slots, contribution counters, dependency index | incremental update, full reconstruction | identity over many updates, slot reuse, counters that only add and subtract |
| **Contribution cache** `project/builder/source_contribution_cache*` | what every Source contributed | replace, publish | must follow the Graph exactly |
| **Graph Manager** `project/graph/graph_manager*`, **build transaction** `graph_build_transaction*` | project_state, committed layers, open transaction | begin, prepare the layers, publish, roll back; checkpoint save and load | failure of the n-th layer, readers during publication |
| **Source Change Tracker** `project/source/source_change_tracker*` | watches, dirty set, rescan flag, worker thread | initialize, synchronize, worker loop, drain, stop | lost and late notifications, overflow, failed re-arm |
| **Project Context** `project/project_context.cpp`, `server_context.cpp` | active configuration, tracking flags, attached Runtime | initialize, load_project, rebuild_sources, checkpoint loads, shutdown | order of build, tracking and attach; failed builds |
| **Project composition** `project/project_composition_resolver*` | cache of configurations, job queue and counter, traversal stack | load nested Projects on a worker pool, traverse them to one list of roots | counting jobs across threads, exceptions in workers, cycles and diamonds |
| **Parser** `project/parser` | scope, local names, fact lists of one Source; the interfaces of the Sources it includes | declarations, constant expressions, lookup, export | names seen through positional includes, arithmetic at 64 bits, offsets into shared lists |
| **Persistence** `project/source/source_manager_persistence*`, `project/graph/compiled_persistence*` | the target file, temporary files, the mapped view | save (temporary file, flush, validate, rename, flush of the directory), load | interruption at any step, replacing a file that is mapped |
| **Core files** `core/filesystem/`, `core/hash` | none | stable read of a file, SHA-256 | a file written while it is read |
| **Configuration loaders** `config/`, `project/project_configuration_loader*`, **JSON** `json/`, **startup** `main.cpp`, `server_context.cpp` | handler stack, keys seen, the element being read | streaming events; the Server's file, then the root Project's, then the composition | members in any order, state left over between elements, several failures at once |
| Metrics, logging, diagnostics | output only | - | - |
| Runtime, shared memory `project/runtime`, `project/shm` | none | empty boundaries | - |
| `project/construction/` | - | earlier copy of `frontend/`, not used | - |

How they interact: `server_context` opens a Project through `project_context`.
A build begins a *graph build transaction*, which opens one update on each of
the four layers (Source Manager, String Registry, contribution cache, Graph).
The frontend acquires and discovers Sources through the Source Manager update,
parses them on worker threads and publishes the parsed facts in source_id order
into the candidates of the other layers. The transaction prepares every layer
and then publishes all of them, or rolls all of them back. Afterwards
`project_context` hands the directories of all Sources to the change tracker,
whose worker thread collects dirty paths; `rebuild_sources` drains them and
starts an incremental build (or a full reconciliation when events were lost).

What makes it correct:

* an id (string, Source, Entity) handed out once keeps its meaning until the
  whole store is replaced;
* incremental updates leave exactly the state that a rebuild of the same
  Sources would: counters, slots, dependency indexes, reverse includes;
* readers that see a valid Project see one whole generation;
* a failed build leaves nothing behind;
* no change of a watched file is lost, and rebuilding converges;
* the worker pools (parsing, composition) do each job once, in an order its
  dependencies allow, and always come to an end;
* a checkpoint file is never damaged by an interrupted save, and what is read
  from one is what was saved;
* a name in a Source means what it means in the text with its includes replaced,
  and a constant has the value that is written or is refused;
* a configuration is accepted exactly when it is of its schema.

## 2. Modules and the code they model

* **StringRegistry** - `string_registry.cpp`. `records` is the id-indexed storage
  (a tombstone is a reclaimed slot), `lookup` the index, `generation` the
  counter every update remembers as its base. One action per operation:
  BeginUpdate, Intern, PreparePublish, PrepareRebuildCompaction, PublishPrepared,
  Cancel, Initialize, SwapCompiled. Bytes and addresses are left out: a string is
  a model value.
  **StringRegistryProofs** holds its theorems.
* **CanonicalGraph** - `graph.cpp` and the contribution cache. A Source's facts
  (aggregates with members, enums, anonymous enums) are published one Source at
  a time into an update; the update resolves identity, claims type slots,
  keeps the contribution counters and the dependency index, and commits.
  `usage`, chosen initially, is a menu of facts with the modes (incremental
  update, full reconstruction) it is used in. **CanonicalGraphProofs** holds the
  theorems about it and about CompiledCheckpoint.
* **GraphTransaction** - `graph_manager.cpp`, `graph_build_transaction.cpp`,
  the project_state and checkpoint loads. Layers prepare one after the other and
  publish one after the other; every intermediate point is a state, because
  readers run concurrently. **PublishedProject** is the abstract specification a
  reader relies on, and `PublishesAtomically` says GraphTransaction implements
  it under a refinement mapping that reads the layers only while state is valid.
  **GraphTransactionProofs** holds its theorems.
* **SourceChangeTracker** - `source_change_tracker.cpp`: one worker thread per
  tracker, directory watches whose kernel queue is external, overflow, failing
  re-arm, drain.
* **ProjectContext** - `project_context.cpp` and `server_context.cpp`, composed
  with SourceChangeTracker (EXTENDS: they share the dirty set and the watches).
  A build is a sequence of Source reads, each racing with edits of the files,
  that ends in a commit or a failure. **ProjectContextProofs** holds the theorems
  about both.
* **SourceManager** - `source_manager.cpp` and the stable read of
  `core/filesystem/file_snapshot.cpp`. `committed` is what the manager owns
  (ids, path index, roots, bytes and physical state, includes and their
  reverse), `update` the one open update, `jobs` the acquisitions under way. A
  read is four steps (open, two halves, recheck) between which files are
  written, removed and created. BeginUpdate, Add, Resolve, ResolveInclude,
  SetIncludes, the acquisition steps, ValidateSourceGraph, PreparePublish (first
  publication and delta), Publish and Cancel are actions.
  **SourceManagerProofs** holds its theorems.
* **SourceFrontend** - a full build, `source_frontend_generation.cpp`: discovery
  waves, acquisition in parallel, validation, the semantic workers with their
  condition variable or the static split of independent Sources, publication.
* **IncrementalFrontend** - `source_frontend_incremental.cpp` and
  `source_frontend_cache.cpp`: dirty Sources, the affected closure, reuse of
  cached interfaces, whose pointers to imported interfaces are modelled by the
  generation they were built in, and the commit that replaces them.
* **Frontend** - the two composed: IncrementalFrontend is instantiated over the
  Sources of SourceFrontend. `Release` is the end of `load_project`'s build: the
  interfaces go to the cache (`populate_cache`), the committed generation
  becomes the incremental builds' starting point and the rest of the full build
  is gone. The incremental builds therefore start from every state a full build
  can commit, not from an assumed one. **FrontendProofs** holds the theorems about
  the full build and those about the incremental ones.
* **SourceEnvironment** - `source_environment.cpp` and `build_interface`: what a
  Source exports, and how a name is looked for in the interfaces it includes.
  Pure operators. **SourceParser** - `parser.cpp`, `source_context.cpp`, the
  directives of `discover` and `capture_source_facts`: the Sources of a Project
  in the order they are parsed, each read element by element (the head of an
  enum, an enumerator, an operand, a member, a namespace, a directive). `context`
  holds the parser's common lists; the auxiliary `declared`, `written` and
  `resolution` record what the text says, independently of them. Integers have
  `Width` bits, as 64 in the code.
* **SourceCheckpoint** - the payload of `source_manager_persistence.cpp`: the
  image of a committed Source Manager (path records, physical records,
  compressed rows of includes and dependents, roots, the open-addressing path
  index), the lookups of a mapped view, the container check and the validators
  of `strict_validate`. Operators over SourceManager's `committed`, so
  SourceManagerProofs holds their theorems as well.
* **CompiledCheckpoint** - `export_compiled` and `import_compiled` of `graph.cpp`
  and what `compiled_persistence.cpp` accepts. Operators over CanonicalGraph's
  `graph`.
* **ConfigurationLoader** - `project_configuration_loader.cpp`,
  `server_configuration_loader.cpp` and the structure of `json_parser.cpp`. A
  JSON value carries the calls the parser makes for it; the two handlers are one
  algorithm over two schemas.
* **ServerStartup** - `main.cpp`, `server_context.cpp` and the beginning of
  `load_project`, composed with ConfigurationLoader and ProjectComposition
  (EXTENDS): the items and the unreadable files of the composition are what the
  loader makes of the files.
* **ProjectComposition** - `project_composition_resolver.cpp`: the worker pool
  that loads nested configurations (mutex, wait and notify explicit), its
  exception paths, and the depth-first traversal. **ProjectCompositionProofs**
  holds its theorems.
* **CheckpointFile** - the file protocol of `write_source_manager_checkpoint` and
  `write_compiled_checkpoint` and the two loads, over a POSIX file system: `dir`
  and `data` are what processes see, `dur` and `synced` what a power failure
  leaves. `kind`, chosen initially, is the checkpoint's kind; the two differ in what validation sees
  (a source view checks the container's shape, not the payload hash), in what
  happens when the temporary name exists, and in an exception path.
  **CheckpointFileProofs** holds its theorems.

How they fit: ProjectContext extends SourceChangeTracker, Frontend composes the
two frontends, ServerStartup the loaders and the composition; SourceCheckpoint
and CompiledCheckpoint are evaluated in every state of the stores they save. The
other models meet at the boundaries the code has. What the frontends take
as one step (a read, a publication) is SourceManager's and CanonicalGraph's
business, their commit is GraphTransaction's, and a checkpoint that
GraphTransaction loads whole is what CheckpointFile guarantees.

The modules `MC...` give the constants of the runs. Names of definitions are
those of the code where TLA+ allows it, and `PROJECT.json` maps each to its lines.

## 3. Runs

| Run | Result | What it shows |
|---|---|---|
| StringRegistry | pass | Two racing updates, two strings, three slots: ids stay stable, the index is exactly the live slots, stale candidates never get prepared, slots are never reused |
| CanonicalGraph | pass | Sequences of incremental updates and rebuilds of two Sources over mutually dependent types and over conflicting enums, and incremental updates in which anonymous enums compete for free slots: identity, slots, counters, members, dependency index, and every committed Graph comes back from its compiled image |
| CanonicalGraphDivergence | violation | Finding 1 |
| GraphTransaction | pass | Builds failing at every stage, loads, restarts, with readers at every point: provenance, all or nothing; implements PublishedProject |
| ProjectContext | pass | Edits race with the worker, loads, rebuilds and failures: no change of a watched Source is lost, and once writing stops rebuilding converges (liveness) |
| ProjectContextReload | violation | Finding 2 |
| SourceManager | pass | Include lists over three paths through a first publication and deltas; files that change while two acquisitions read them: one id per path for ever, no cycle, exact reverse index, bytes, hash, observation and net changes agree; a checkpoint of any committed state answers as that state does, and strict validation accepts an altered image only if it is consistent |
| Frontend | pass | Every include graph and root set of three Sources, two workers, failures anywhere or none: order, counters, completeness, rebuild returns, without errors every acyclic Project is committed; then incremental builds race with edits: no stale interface, Graph and bytes agree, nobody waits for ever |
| SourceParser | pass | Texts of Sources that include one another at any position: names mean what the text with its includes replaced says, constants are exact or refused, facts and interfaces are what was written |
| ServerStartup | pass | Server and Project files with the defects of a menu and compositions of three Projects on two workers: the loaders accept exactly their schema, each Project is loaded once, right outcome, roots in written order, and without exceptions startup ends |
| ProjectCompositionThrow | violation | Finding 3 |
| CheckpointFile | pass | Three saves by two savers, of either checkpoint, any step failing, killed or cut by a power failure: whole target, durable success, whole views, owned temporaries |

Properties that belong together are checked as one definition made of named
parts, the type invariant among them: `ContributionsExact` is TypeOK, CountsExact
and MeaningExact; `TablesSound` is SlotsPartitioned, AnonymousTypesLive,
NoDanglingMember and MembersNeverStray; `ProvenanceSound` is TypeOK,
ProvenanceExact and IncrementalHasProvenance; `AllOrNothing` is
FailureLeavesNoTrace and CommitCoversAllLayers; `ContextSound` is TypeOK,
AttachedOnlyToValid and TrackingCoversSources; `IncludesExact` is TypeOK,
CommittedAcyclic and InvalidationExact; `PhysicalExact` is
BytesMatchObservation, StateMatchesBytes and NetChangesExact; `SourceIdsStable`
is OneIdPerPath and IdsPersist; `ScheduleExact` is TypeOK, ParseInOrder and
CountersExact; `FactsExact` is SlicesExact and InterfacesExact; `JobsExact` is
TypeOK, OutstandingExact and EachLoadedOnce; `ResultExact` is OutcomeExact and
RootsAsWritten.

Bounds, and why they are enough to be interesting:

* StringRegistry: two updates are needed for a stale candidate, two strings and
  three slots for a tombstone followed by an append of the same string, and
  `MaxGeneration` leaves room for a load after a compaction.
* CanonicalGraph: two Sources are what it takes for one Source to declare what
  another defines; the fact menus contain a declaration, a definition, mutual
  member references and two enum flavours that conflict. `MaxFacts` facts per
  Source and `MaxHandles` type slots bound an update; the free list is both
  empty and nonempty under them. Each usage explores one menu (references
  between types, flavours of enums, anonymous enums). Identity is over all sequences of updates: the
  committed state has no counter, so the exploration closes.
* GraphTransaction: two Sources and `MaxRevision` revisions of their contents
  let a Graph, its contributions and a checkpoint differ from one another.
* ProjectContext: a root that includes a Source of another directory from its
  second version on, so that an incremental build discovers an unwatched
  directory; `MaxVersion` 3 leaves an edit before, during and after a build. The
  configuration is only watched, so one edit of it (`MaxConfigVersion` 2) is
  enough.
* SourceManager: three paths are what a cycle through a new Source and a diamond
  take, `MaxGeneration` 2 is one first publication and one delta; two contents
  and two writes make a write between the halves of a read, and one that
  restores the old bytes, possible. `Instances` lists the combinations that are
  explored: include lists over three quiet files, one write to two files that
  two acquisitions read, two writes to one file; what a list says does not
  depend on the bytes of another file.
* The checkpoints need no bounds of their own: SourceCheckpoint's properties are
  evaluated in the committed states of the SourceManager run, with path hashes
  of which two are equal and a third one belongs where the second is displaced
  to; `Altered` changes one number of an image, an edge in both directions, two
  buckets or the size of the index. CompiledCheckpoint's are evaluated in every
  committed Graph.
* Frontend: three Sources give chains, diamonds without a bottom, cycles
  and independent sets; two workers are enough for one to sleep while the other
  fails or finishes last. `faulty` says whether anything may fail, so that
  CleanBuildCommits can speak of the behaviours where nothing does. Two edits
  and three generations follow: a build that creates a cached interface, one
  that replaces what it imports, one that uses the result. `Roots` are the roots
  for which incremental builds are followed, `EditedIncludes` what an edit may
  make a file include: nothing, the last Source, or the other two (a cycle).
* SourceParser: a menu bounds the number of Sources and elements and says which
  declarations they are made of: one menu for the lookup of types, one for
  that of constants and one for both in two Sources (three Sources otherwise, includes at any position, nested namespaces,
  names that hide each other), one for arithmetic (`Width` is 2, so that the
  literals 0 to 4 are at, next to and beyond the limits of both signs), one for
  members (several types in a Source, modifiers, opaque and anonymous enums).
* ServerStartup: bodies of at most two items (the third Project's of at most one)
  over three Projects contain self references, cycles, diamonds and repeated references; two workers are
  enough for one to sleep while the other completes the last job. `Starts`
  combines every defect of a document (unknown, duplicate, missing and misplaced
  keys, wrong types and values, other versions, broken JSON, an unreadable file)
  in the Server's file, in the root's and in a nested one, with a small
  composition, and every composition with sound files. `scarce` says whether
  anything may throw; StartupEnds is about the behaviours where nothing does.
  RootsAsWritten and StartupExact compare with reference definitions over whole
  documents, not over events.
* CheckpointFile: two savers race, the third save meets a name left over by an
  interrupted one.

Fairness. Frontend and ServerStartup: every thread of a pool, and main, is weakly fair,
which is what the operating system's scheduler gives; spurious wakeups are not
assumed, so that sleeping for ever is possible. ProjectContext: the worker
thread and a running build are weakly fair, each being a loop that never waits
for anything the model lets stay disabled. Nothing in the repository calls
`rebuild_sources` but its tests, so that a caller keeps calling it is an
assumption about the embedding server. Builds may fail again and again (a file cannot
be read), so the run also assumes that infinitely many rebuilds include
infinitely many that commit. Nothing is assumed about the file system or about
overflow, and the property excludes what observations 3 and 4 show to be lost.

## 4. Findings

Disagreements between the code and what the repository says of it, each shown by
a run that is expected to end in a violation:

1. `project/graph/graph.cpp:1713` - an incremental update that republishes a
   Source which only *declares* a type rebuilds that type without the members
   another, unchanged Source defined. The architecture document
   (`SERVER_ENTRY_ARCHITECTURE_V2.md:430`) demands that the incremental path and
   Rebuild do not diverge.
2. `project/project_context.cpp:377` - the reload after a configuration change
   passes a reference to the member that `load_project` clears first.
3. `project/project_composition_resolver.cpp:317` - the handler of a worker's
   exception stores its flag and notifies without the mutex. A worker between
   its predicate and its sleep misses it, and `join` waits for ever, although
   the comment at line 310 says that exceptional termination wakes all waiters.

Further observations. The first seven have a configuration beside the modules that
shows them (TLC reports the violation), but are not among the runs:

1. `project/graph/graph.cpp:2010` - `add_anonymous_enum` of a rebuild claims
   slots from the free list of the previous Graph, although the rebuild has a
   fresh handle namespace (`SERVER_ENTRY_ARCHITECTURE_V2.md:414`); the usage with
   anonymous enums is therefore incremental only
   (`CanonicalGraphRebuildSlots.cfg`, AnonymousTypesLive).
2. `project/source/source_manager.cpp:1150` - after a source checkpoint was
   loaded no later build can be prepared, although the next build should be
   forced to Rebuild (`SERVER_ENTRY_ARCHITECTURE_V2.md:340`;
   `GraphTransactionCheckpoint.cfg`).
3. `project/project_context.cpp:303` - a Source edited after it was read and
   before its directory is watched stays stale (`source_change_tracker.hpp:24`;
   `ProjectContextGap.cfg`).
4. `project/source/source_change_tracker.cpp:543` - a directory that could not
   be armed again is rescanned once and then never watched again
   (`ProjectContextArm.cfg`).
5. `project/frontend/source_frontend_generation.cpp:675` - a Source that the
   incremental build saw as missing, and that is back when its includer is
   discovered, leaves a cached interface pointing to one the commit frees
   (`FrontendRecreate.cfg`).
6. `project/frontend/source_frontend_incremental.cpp:544` - a Source that
   nothing includes any more stays in the Graph after incremental builds
   (`FrontendUniverse.cfg`).
7. `project/graph/graph.cpp:3980` - a failed build with new names leaves the
   Graph's scratch vectors longer than the published strings. The next build
   takes the length of its identity table from them, and from then on
   `write_compiled_checkpoint` refuses its own image (`validate_cross_references`)
   until a build publishes as many strings. `README.md:36` speaks of a
   "rollback of direct-index vector logical sizes on failed prepare"
   (`GraphTransactionSave.cfg`).
8. `compiled_persistence.cpp:1341` unlinks the temporary name even when
   `create_new_write_file` refused it because it exists;
   `source_manager_persistence.cpp` returns without unlinking.
9. A save whose directory flush fails after the rename reports failure although
   the target has already been replaced (`source_manager_persistence.cpp:1955`).
10. Persistence. A Source that was found missing and one that was never read both
   come back as missing. Loading a source checkpoint only decodes the container;
   the deep validators run in `strict_validate`, which looks for cycles among
   what the roots reach. `collect_dependents` on a mapped view returns direct
   dependents only. After a cancelled update the ids of a loaded Graph may have
   a gap.
11. Parser. Enumerators of an earlier enum of the same Source are not visible in
   a later one, only those of included Sources are. A scoped enum without a name
   exports its enumerators to the global scope. Where two includes bind one
   constant differently the first in the order of the text wins, without a
   diagnostic (within one Source it is refused). Directives are accepted inside
   of the body of a struct or an enum, and refused inside of a namespace. A sum
   of an unsigned and a negative operand is always refused, whatever it is. Values are not checked against an explicit underlying type.
12. Configuration. Every key of a Project's file is required, the ABI of a nested
   Project included, but only the root's ABI is used. A syntax error wins over a
   schema error that comes before it in the text.

## 5. Proofs

`StringRegistryProofs` proves, for any set of strings, any set of updates and
any bounds (`StringRegistryAssumption`): TypeCorrect, LookupAlwaysExact,
IssuedIdsAlwaysStable, NoStalePreparation and SlotsAreNeverReused. The
properties are not inductive: that a candidate fits the committed slots depends
on its base generation. `IndInv` therefore says of every open update that its
base is at most the current generation and that, *if* the two are equal, its
candidate slots, index and reclaimed set are consistent with the committed ones
(UpdateInv), and that an update which is not open is empty (EmptyInv). Stale
updates satisfy it vacuously, which is exactly why publication has to compare
generations.

`CheckpointFileProofs` proves, for any sets of savers and names, any number of
saves and both kinds (`CheckpointFileAssumption`): TypeCorrect,
TargetAlwaysWhole, SuccessAlwaysDurable, ViewAlwaysWhole and
TemporariesAlwaysOwned. TargetWhole speaks of the target as seen now; to survive
a power failure it has to hold of every file the target *may* name afterwards
(`dur`), and to survive a rename it has to hold of what the temporary name
names. `IndInv` says that every file ever renamed is flushed and whole
(Published), that a save before its rename still owns its name and its file,
flushed once it is past Flush (SaverInv), that saves in flight have different
names and files (Apart), and that acknowledged saves precede every file the
target may name (AckedInv). The proof never uses what validation accepted: the
flush alone makes the protocol safe, which is why the shape-only check of a
source view is enough. TemporariesOwned needs `OwnedInv` besides: what a
temporary name names is abandoned or the file of the save that has the name, and a
save past its rename names nothing any more.

`GraphTransactionProofs` proves, for any number of Sources and revisions
(`GraphTransactionAssumption`): ProvenanceAlwaysSound, ValidAlwaysWhole,
BuildIsAllOrNothing, and PublicationIsAtomic, that the transaction implements
PublishedProject. The properties speak of the states in which nothing is under
way. Between them `IndInv` compares each layer with the one it was when the build
or the load began (`opened`): until the first layer is published all four are
what they were, and cancel() would give back the slots there were (PreparingInv);
while they are published, each is the old one or replaced, in the order of
publish_prepared(), and the strings and slots of the new Graph are there before
the Graph is (PublishingInv); a compiled load brings strings before the Graph
(LoadInv). For the refinement, each action maps to a step of PublishedProject or
to a stutter: a failure refuses, because what cancel() restores is the generation
of the beginning, and only the step that sets the state to valid, or starts again
from nothing, shows another one.

`CanonicalGraphProofs` proves, for any Sources and names, any menus of facts and
any sequence of rebuilds and incremental, failed or cancelled updates
(the assumptions of CanonicalGraph): TypeCorrect, StableIdsUniqueHolds,
StableIdsPersistHolds and CountsHold from `BaseInv`, which holds whatever Sources
contain. A counter is the number of places of the contributions it counts
(Places), so what an update takes off for the old facts of a Source is what was
put on for them, and a name is dead just when nobody contributes it. New ids are
the ranks of the new names in their order (Ranking), which makes them distinct and
dense, and the ids given out are never more than the names, so one is left for
every new name (FreshId).
TablesSoundHolds, DependencyIndexHolds, ContributionsHold and
CompiledRoundTripHolds follow from `TablesInv`: a slot has one owner or is free
(Partitioned), members are live types that a definition names and the indexes are
their edges (Linked). Of an open update it says that what an incremental one did
not touch is as committed (Overlay), that a rebuild has nothing but what it
touched (Rebuilt), and that members still to be resolved are those of a definition
published in this update (PendingFrom). The point is that
an update finds everybody who depends on what it changes although it looks into
the *committed* index only: a type that it did not touch has its committed
members. These four have one hypothesis, `NamedRebuilds`: no rebuild is asked of
a Source with an anonymous enum. It is needed; observation 1 is what happens without it
(`CanonicalGraphRebuildSlots.cfg`).

`SourceManagerProofs` proves, for any finite set of paths, any contents, include
lists, edits and number of parallel acquisitions (`SourceManagerAssumption`):
SourceIdsAlwaysStable, IncludesAlwaysExact and PhysicalAlwaysExact. The include
graph needs an invariant that reaches into the update: a candidate that is
validated or prepared has no cycle, and the reverse edges that are prepared are
those of its includes (GraphInv). That an incremental search is enough is the
lemma AcyclicReplaced: if no Source with a replaced include list is on a cycle and
the committed graph has none, there is none. `Reached` is defined as the least
closed set, so these lemmas exhibit closed sets and need no induction. For the
bytes, a delta is sound over the storage it will be published over (StorageInv),
and a job that is reading holds bytes of one write or will see another observation
(JobInv): an edit after the first half changes what the handle observes, and a file
that was removed and created again has a later observation than any open handle.
The branch of apply_acquire that only replaces the observation of the baseline is
never taken for a Source without replaced bytes (DeltaOfSound): there the baseline
hash is the committed one, and the branch before it applies.

The second half of `SourceManagerProofs` proves of the checkpoint, for any path
encoding that loses nothing and any hash (`EncodedAssumption`):
CheckpointAlwaysRoundTrips and ValidatedAlwaysConsistent. What is written depends
only on what IndInv says of `committed` (Saved). The sections are recursive
functions of what is written after each Source, so the proofs go upwards through
the set of numbers for which a statement holds: a part that is written is a slice
of the end (WrittenSlice), an edge lies in one row (EdgeFacts), and the index has
at least three free buckets of ten, so every insertion finds one and no bucket
between a hash and its entry becomes free (InsertKeepsIndex). A search in a valid
index then ends, at the entry or at a free bucket (FindValid, FindSource).
StrictValidateSound says more than the run can: *any* image that strict_validate
accepts is consistent, not only the altered ones (`Altered`) TLC tries. It and
ValidatedAlwaysConsistent have the hypothesis `HashesAreNumbers`, that
`source_path_xxh64` has a value for every byte sequence: bytes of an altered image
need not be those of a path.

`ProjectContextProofs` proves, for any Sources, directories and includes, and any
overflow, refused watch or failed build (`TrackerAssumption`,
`ProjectAssumption`): ContextAlwaysSound and WatchedChangesAlwaysReachGraph. The
second speaks of quiet states; in all others `FreshInv` says of a Source whose
changes are watched that what a commit would leave is up to date, or that the
running build still has to read it, or that the tracker holds a sign of its
change: in the system's queue, in a buffer, in pending or as a rescan. The sign
moves and is never dropped, because a buffer is emptied before its directory is
armed again, and a Source the tracker knows has an open watch (WatchInv).

`ProjectCompositionProofs` proves, for any references between any number of
Projects and any number of threads (`ProjectCompositionAssumption`):
JobsAlwaysExact and OutcomeAlwaysExact. JobsExact counts; what is inductive is
where the jobs are. A Project with a node is queued, or the job of one thread, or
finished (JobInv), so the counters are sizes of disjoint sets. The cache is closed
under the references of what is loaded, but for those lost by an exception
(ClosureInv), and threads leave only when nothing is outstanding or one of them
threw (ThreadInv), so joined threads have loaded everything. That a cycle is
reported when and only when there is one is the invariant of the depth-first
search: the stack is a path, and what is done refers only to what is done, without
a cycle (SearchInv). OutcomeExact is the part of ResultExact without
RootsAsWritten, which compares with a recursive definition.

`FrontendProofs` proves, for any number of Sources and threads and any includes
(`SourceFrontendAssumption`, `FrontendAssumption`): ScheduleAlwaysExact and
CommitAlwaysComplete of the full build alone, ScheduleStaysExact and
CommitStaysComplete with incremental builds after it. A discovered Source is
registered with everything it includes and with nothing else (SourceInv), so a
parse that ends takes one off exactly the counters that counted it; a Source is
queued or claimed only when its counter is zero, and by one thread (WorkerInv).
For the universe, what is claimed is reached from the roots and is discovered or
still to be handled (DiscoveryInv), and a Source of the static split that is not
parsed is still in somebody's partition (PartitionInv).

The second part of `FrontendProofs` proves ImportsAlwaysCurrent, GraphAlwaysMatchesBytes and
NobodyEverLeftWaiting of FrontendSpec, for any includes, any edits and any number
of builds, under the hypothesis `~MayRecreate`: no file that a running build has
seen missing comes back before that build ends. The hypothesis is needed;
observation 5 is what happens without it (`FrontendRecreate.cfg`). The cache of
the next generation is right because whoever includes an affected Source is
affected (AffectedClosed), an affected Source is claimed or removed and never
taken from the cache (ClaimInv), and an interface points to interfaces of the
cache or of this build according to where its includes come from (ParseInv).
CountInv says what a counter counts; whoever waits when the queue is empty
therefore waits for somebody who waits, which is an include cycle, and a cycle is
refused before the parse.

Only model-checked:

* liveness (RebuildReturns, CleanBuildCommits, StartupEnds, EventuallyUpToDate):
  the prover does not reason about fairness or ENABLED here;
* the properties of SourceParser, SourceEnvironment and ConfigurationLoader and
  RootsAsWritten: their models read nested data with recursive operators, which
  the prover cannot reason about. (The recursive functions of SourceCheckpoint
  recur on a number, for which a set of numbers is enough.)

## 6. Not modelled

The lexer and the text of strings and numbers in JSON, byte order and padding of
the checkpoints, the Windows branches of the file operations, the JSON writer,
logging, metrics and diagnostics (output only), the empty Runtime and
shared-memory boundaries, and the unused `project/construction/` copy of the
frontend. The derived TypeRef table and definition arenas of the Graph follow
its types one to one. CheckpointFile assumes that two saves in flight never draw
the same temporary name (process id and nanosecond clock). SHA-256 is taken as
free of collisions; the path index's 64-bit hashes are not.

## 7. Plan

Written in the order of what decides the contents of a Project: StringRegistry,
CanonicalGraph, GraphTransaction with PublishedProject, SourceChangeTracker and
ProjectContext, SourceManager, SourceFrontend, IncrementalFrontend,
ProjectComposition, CheckpointFile; then Frontend, SourceEnvironment and
SourceParser, SourceCheckpoint, CompiledCheckpoint, ConfigurationLoader and
ServerStartup.

The proofs follow the same order. Done are StringRegistry, CheckpointFile,
GraphTransaction with its refinement, ProjectComposition, both frontends, the
Project Context with its tracker, SourceManager with its checkpoint, and
CanonicalGraph with its compiled image.
