------------------------- MODULE IncrementalFrontend -------------------------
(***************************************************************************)
(* Incremental builds of the Source frontend                               *)
(* (frontend/source_frontend_incremental.cpp, the discover and             *)
(* parse_and_capture of source_frontend_generation.cpp, and                *)
(* source_frontend_cache.cpp), while the files are edited.                 *)
(*                                                                         *)
(* A build observes the dirty Sources, marks those that changed and all    *)
(* that include them as affected, discovers and parses these, and takes    *)
(* the interface of every other included Source from the cache of the      *)
(* committed generation.  An interface holds pointers to the interfaces of *)
(* what its Source includes, so the cache is right only if a replaced      *)
(* interface is replaced in all of them.                                   *)
(*                                                                         *)
(* A file is its list of includes and the edit that wrote it.  A read is   *)
(* one step (SourceManager models it), and so is publication with the      *)
(* commit (GraphTransaction).  A failing step discards the build.  What it *)
(* starts from is left by a full build (Frontend).                         *)
(***************************************************************************)
EXTENDS Naturals, FiniteSets

CONSTANTS
  NumSources,     \* source_ids are 1..NumSources
  Roots,          \* the root Sources
  MayRecreate,    \* may a file seen missing be back before the build ends?
  EditedIncludes, \* bound: what an edit may make a file include
  MaxEdits,       \* bound: edits of files
  MaxGeneration   \* bound: committed generations

Sources == 1..NumSources

VARIABLES
  disk,       \* the files
  edits,      \* edits so far
  committed,  \* what the last build committed
  phase,      \* where the running build is
  build       \* its candidate state

vars == <<disk, edits, committed, phase, build>>

Absent == [edit |-> 0, includes |-> {}, present |-> FALSE]
File(e, inc) == [edit |-> e, includes |-> inc, present |-> TRUE]

NoInterface == [generation |-> 0, imports |-> {}]

(* validate_source_graph                                                   *)
Cyclic(next) ==
  \E cycle \in SUBSET Sources :
    cycle # {} /\ \A s \in cycle : next[s] \cap cycle # {}

InitialState ==
  [claimed |-> FALSE, done |-> FALSE, entry |-> FALSE, parsed |-> FALSE,
   published |-> FALSE, removed |-> FALSE, remaining |-> 0,
   dependencies |-> {}, dependents |-> {}]

NoBuild ==
  [observe |-> {}, physical |-> [s \in Sources |-> Absent],
   includes |-> [s \in Sources |-> {}], changed |-> {},
   known |-> {}, discovery_queue |-> {}, semantic_queue |-> {},
   missing |-> {}, interface |-> [s \in Sources |-> NoInterface],
   state |-> [s \in Sources |-> InitialState]]

-----------------------------------------------------------------------------
(* rebuild_incremental begins with the dirty Sources of the change         *)
(* tracker, or with all of them to reconcile.                              *)
Begin(dirty) ==
  /\ phase = "idle"
  /\ committed.generation < MaxGeneration
  /\ dirty \subseteq committed.known
  /\ phase' = "observe"
  /\ build' = [NoBuild EXCEPT !.observe = dirty,
                              !.known = committed.known,
                              !.physical = committed.physical,
                              !.includes = committed.includes]
  /\ UNCHANGED <<disk, edits, committed>>

Discard ==
  /\ phase' = "idle"
  /\ build' = NoBuild

(* One dirty Source is acquired.                                           *)
Observe(s) ==
  /\ phase = "observe"
  /\ s \in build.observe
  /\ build' = [build EXCEPT
                 !.observe = @ \ {s},
                 !.physical[s] = disk[s],
                 !.changed = IF disk[s] # committed.physical[s]
                             THEN @ \cup {s} ELSE @,
                 !.missing = IF disk[s].present THEN @ ELSE @ \cup {s}]
  /\ UNCHANGED <<disk, edits, committed, phase>>

(* Whoever includes s, directly or not, in the committed generation.       *)
Dependents(s) ==
  {t \in committed.known :
     \A closed \in SUBSET committed.known :
       (\A u \in committed.known :
          committed.includes[u] \cap (closed \cup {s}) # {} => u \in closed)
       => t \in closed}

(* Mutant: only direct includers are affected.                             *)
Affected_Direct ==
  build.changed \cup
    {t \in committed.known : committed.includes[t] \cap build.changed # {}}

(* The changed Sources and their dependents.                               *)
Affected == build.changed \cup UNION {Dependents(s) : s \in build.changed}

(* The affected Sources are enqueued, except those that are gone: they     *)
(* only have an empty build entry to publish.                              *)
MarkAffected ==
  LET gone == {s \in Affected : ~build.physical[s].present}
      here == Affected \ gone
  IN
  /\ phase = "observe"
  /\ build.observe = {}
  /\ phase' = "discover"
  /\ build' = [build EXCEPT
       !.includes = [s \in Sources |-> IF s \in gone THEN {} ELSE @[s]],
       !.discovery_queue = here,
       !.state = [s \in Sources |->
                    [InitialState EXCEPT
                       !.claimed = s \in here,
                       !.removed = s \in gone,
                       !.parsed = s \in gone,
                       !.entry = s \in gone]]]
  /\ UNCHANGED <<disk, edits, committed>>

(* Mutant: an affected Source is taken from the cache all the same.        *)
FromCache_AlsoClaimed(deps) ==
  {d \in deps : ~build.state[d].published /\ committed.cache[d] # NoInterface}

(* What discover takes from the cache: the interfaces of included Sources  *)
(* nobody claimed.                                                         *)
FromCache(deps) ==
  {d \in deps : /\ ~build.state[d].claimed
                /\ ~build.state[d].published
                /\ committed.cache[d] # NoInterface}

(* Mutant: cached interfaces are waited for, too.                          *)
WaitsFor_Cached(deps, cached) ==
  {d \in deps : ~build.state[d].published}

(* What a discovered Source waits for.                                     *)
WaitsFor(deps, cached) ==
  {d \in deps : ~build.state[d].published} \ cached

(* The included Sources that nobody has claimed before and the cache does  *)
(* not have.                                                               *)
NewlyClaimed(deps, cached) ==
  {d \in deps \ cached : ~build.state[d].published /\ ~build.state[d].claimed}

(* The entries once s is known to include deps.                            *)
Discovered(s, deps, cached) ==
  [t \in Sources |->
     [build.state[t] EXCEPT
        !.published = @ \/ t \in cached,
        !.claimed = @ \/ t \in NewlyClaimed(deps, cached),
        !.dependents = IF t \in deps THEN @ \cup {s} ELSE @,
        !.dependencies = IF t = s THEN deps ELSE @,
        !.remaining = IF t = s THEN Cardinality(WaitsFor(deps, cached)) ELSE @,
        !.done = @ \/ t = s]]

(* The file a discovery reads: a new Source is acquired first, one that is *)
(* known is not.                                                           *)
FileOf(s) == IF s \in build.known THEN build.physical[s] ELSE disk[s]

(* discover of one Source.  It fails when its bytes or an included file    *)
(* are missing.                                                            *)
Discover(s) ==
  LET file == FileOf(s)
      deps == file.includes
      cached == FromCache(deps)
  IN
  /\ phase = "discover"
  /\ s \in build.discovery_queue
  /\ IF file.present /\ \A d \in deps : disk[d].present
     THEN /\ build' = [build EXCEPT
               !.known = @ \cup {s},
               !.physical[s] = file,
               !.includes[s] = deps,
               !.discovery_queue = (@ \ {s}) \cup NewlyClaimed(deps, cached),
               !.semantic_queue = IF WaitsFor(deps, cached) = {} THEN @ \cup {s} ELSE @,
               !.state = Discovered(s, deps, cached)]
          /\ UNCHANGED phase
     ELSE Discard
  /\ UNCHANGED <<disk, edits, committed>>

(* finish_discovery                                                        *)
FinishDiscovery ==
  /\ phase = "discover"
  /\ build.discovery_queue = {}
  /\ IF Cyclic(build.includes) THEN Discard
     ELSE /\ phase' = "parse"
          /\ UNCHANGED build
  /\ UNCHANGED <<disk, edits, committed>>

(* The interface another Source's parse sees: the one parsed in this build *)
(* before the cached one.                                                  *)
InterfaceOf(d) ==
  IF build.interface[d] # NoInterface THEN build.interface[d]
  ELSE IF build.state[d].published THEN committed.cache[d]
  ELSE NoInterface

(* The interface of s that this build captures.                            *)
Captured(s) ==
  [generation |-> committed.generation + 1,
   imports |-> {<<d, InterfaceOf(d).generation>> : d \in build.state[s].dependencies}]

(* The entries once s is parsed.                                           *)
Parsed(s) ==
  [t \in Sources |->
     [build.state[t] EXCEPT
        !.parsed = @ \/ t = s,
        !.entry = @ \/ t = s,
        !.remaining = IF t \in build.state[s].dependents /\ @ # 0 THEN @ - 1 ELSE @]]

(* Who has waited for s only.                                              *)
ReadyAfter(s) ==
  {t \in build.state[s].dependents : build.state[t].remaining = 1 /\ build.state[t].done}

(* parse_and_capture; without an interface of all it includes it fails.    *)
Parse(s) ==
  /\ phase = "parse"
  /\ s \in build.semantic_queue
  /\ IF \A d \in build.state[s].dependencies : InterfaceOf(d) # NoInterface
     THEN /\ build' = [build EXCEPT
               !.semantic_queue = (@ \ {s}) \cup ReadyAfter(s),
               !.interface[s] = Captured(s),
               !.state = Parsed(s)]
          /\ UNCHANGED phase
     ELSE Discard
  /\ UNCHANGED <<disk, edits, committed>>

(* The text of a Source has an error, or cannot be read.                   *)
BuildFails ==
  /\ phase # "idle"
  /\ Discard
  /\ UNCHANGED <<disk, edits, committed>>

(* source_frontend_cache_update: replaced for every build entry, with      *)
(* nothing for a removed Source.                                           *)
CacheAfter(entries) ==
  [s \in Sources |->
     IF s \notin entries THEN committed.cache[s]
     ELSE IF build.state[s].removed THEN NoInterface
     ELSE build.interface[s]]

(* Every affected Source parsed: publication in source_id order, commit    *)
(* and the new cache.  A Source counted as published is skipped.           *)
Commit ==
  LET entries == {s \in Sources : build.state[s].entry}
      published == {s \in entries : ~build.state[s].published}
  IN
  /\ phase = "parse"
  /\ build.semantic_queue = {}
  /\ IF \E s \in Sources : build.state[s].done /\ ~build.state[s].parsed
     THEN UNCHANGED committed
     ELSE committed' =
            [generation |-> committed.generation + 1,
             known |-> build.known,
             physical |-> build.physical,
             includes |-> build.includes,
             graph |-> [s \in Sources |->
                          IF s \notin published THEN committed.graph[s]
                          ELSE IF build.state[s].removed THEN Absent
                          ELSE build.physical[s]],
             cache |-> CacheAfter(entries)]
  /\ Discard
  /\ UNCHANGED <<disk, edits>>

-----------------------------------------------------------------------------
(* Somebody writes or removes a file, at any time.                         *)
Edit(s, file) ==
  /\ edits < MaxEdits
  /\ file # disk[s]
  /\ MayRecreate \/ s \notin build.missing
  /\ edits' = edits + 1
  /\ disk' = [disk EXCEPT ![s] = file]
  /\ UNCHANGED <<committed, phase, build>>

Next ==
  \/ \E dirty \in SUBSET Sources : Begin(dirty)
  \/ \E s \in Sources : Observe(s) \/ Discover(s) \/ Parse(s)
  \/ MarkAffected
  \/ FinishDiscovery
  \/ BuildFails
  \/ Commit
  \/ \E s \in Sources :
       \/ Edit(s, Absent)
       \/ \E inc \in EditedIncludes : Edit(s, File(edits + 1, inc))

-----------------------------------------------------------------------------
(* The cached interface of a Source points to the cached interfaces of     *)
(* exactly the Sources it includes: never to one that was replaced, which  *)
(* is freed, nor to one it includes no more.                               *)
ImportsCurrent ==
  \A s \in Sources :
    committed.cache[s] # NoInterface =>
      /\ \A d \in committed.includes[s] : committed.cache[d] # NoInterface
      /\ committed.cache[s].imports =
           {<<d, committed.cache[d].generation>> : d \in committed.includes[s]}

(* The Graph holds the facts of exactly the bytes the Source Manager holds *)
(* for every Source, and none of a Source that is missing.                 *)
GraphMatchesBytes ==
  \A s \in Sources : committed.graph[s] = committed.physical[s]

(* The parse never ends with a Source that waits for another: everything   *)
(* that was discovered is parsed, so an acyclic batch is never refused.    *)
NobodyLeftWaiting ==
  phase = "parse" /\ build.semantic_queue = {} =>
    \A s \in Sources : build.state[s].claimed => build.state[s].parsed

(* All that is reached from the roots when a Source includes what next     *)
(* says.                                                                   *)
Universe(next) ==
  {s \in Sources :
     \A closed \in SUBSET Sources :
       Roots \subseteq closed /\ (\A t \in closed : next[t] \subseteq closed)
         => s \in closed}

(* The Graph holds what a rebuild from the same roots would find: no       *)
(* Source that nothing includes any more.                                  *)
GraphIsTheUniverse ==
  (\A r \in Roots : committed.physical[r].present) =>
    \A s \in Sources :
      committed.graph[s].present => s \in Universe(committed.includes)
=============================================================================
