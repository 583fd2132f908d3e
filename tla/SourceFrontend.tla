--------------------------- MODULE SourceFrontend ---------------------------
(***************************************************************************)
(* A full (G0) build of the Source frontend                                *)
(* (frontend/source_frontend_generation.cpp): source_frontend_generation   *)
(* ::rebuild, its coordinator and its worker threads.                      *)
(*                                                                         *)
(* Discovery goes in waves: workers read the files of a wave, then the     *)
(* coordinator looks for the includes of each and claims new Sources for   *)
(* the next wave.  After the include graph is validated worker threads     *)
(* parse every Source once all it includes are parsed, waiting on a        *)
(* condition variable; Sources without any include are split statically    *)
(* instead.  The coordinator then publishes in source_id order and commits.*)
(*                                                                         *)
(* The roots and what a Source includes are chosen in the initial state.   *)
(* The queue of ready Sources is a set: any order of it is allowed.        *)
(***************************************************************************)
EXTENDS Naturals, Sequences, FiniteSets, FiniteSetsExt

CONSTANTS
  NumSources,       \* source_ids are 1..NumSources
  HardwareThreads   \* std::thread::hardware_concurrency()

ASSUME SourceFrontendAssumption ==
  /\ NumSources \in Nat \ {0}
  /\ HardwareThreads \in Nat \ {0}

Sources == 1..NumSources
Workers == 1..HardwareThreads

VARIABLES
  roots,              \* the root Sources of the Project
  includes,           \* what each Source includes
  faulty,             \* may files be unreadable or have errors?
  phase,              \* where the coordinator is
  wave,               \* Sources of this wave still to be handled
  slots,              \* results of the acquisitions of this wave
  discovery_queue,    \* claimed, for the next wave
  state,              \* source_state of every Source
  semantic_queue,     \* ready to be parsed
  semantic_remaining, \* Sources not parsed yet
  independent,        \* independent_semantic: no Source includes another
  failed,             \* ~failure.ok()
  worker              \* the semantic worker threads

inputs == <<roots, includes, faulty>>
vars == <<inputs, phase, wave, slots, discovery_queue, state,
          semantic_queue, semantic_remaining, independent, failed, worker>>

InitialState ==
  [discovery_claimed |-> FALSE, discovery_done |-> FALSE,
   dependencies |-> {}, dependents |-> {}, remaining |-> 0,
   semantic_queued |-> FALSE, parse_claimed |-> FALSE, parsed |-> FALSE,
   published |-> FALSE]

Off == [pc |-> "off", source |-> 0, partition |-> <<>>]

(* rebuild begins: the roots are enqueued.                                 *)
Init ==
  /\ roots \in SUBSET Sources \ {{}}
  /\ includes \in [Sources -> SUBSET Sources]
  /\ faulty \in BOOLEAN
  /\ phase = "waves"
  /\ wave = {}
  /\ slots = <<>>
  /\ discovery_queue = roots
  /\ state = [s \in Sources |->
                [InitialState EXCEPT !.discovery_claimed = (s \in roots)]]
  /\ semantic_queue = {}
  /\ semantic_remaining = 0
  /\ independent = FALSE
  /\ failed = FALSE
  /\ worker = [w \in Workers |-> Off]

-----------------------------------------------------------------------------
Running(w) == worker[w].pc \notin {"off", "exited"}

(* notify_all on semantic_condition: every waiting worker looks again.     *)
Notified(ws) ==
  [w \in Workers |-> IF ws[w].pc = "waiting" THEN [ws[w] EXCEPT !.pc = "looking"]
                     ELSE ws[w]]

(* fail_locked, leaving the workers as ws before it notifies them.         *)
FailLocked(ws) ==
  /\ failed' = TRUE
  /\ discovery_queue' = {}
  /\ semantic_queue' = {}
  /\ worker' = Notified(ws)

(* enqueue_ready_locked for each of the candidates, once st is stored.     *)
Ready(st, s) ==
  /\ st[s].discovery_done
  /\ st[s].remaining = 0
  /\ ~st[s].parse_claimed
  /\ ~st[s].semantic_queued
  /\ ~st[s].parsed

EnqueueReadyLocked(st, candidates) ==
  LET ready == IF failed THEN {} ELSE {s \in candidates : Ready(st, s)} IN
  /\ state' = [s \in Sources |-> IF s \in ready
                                 THEN [st[s] EXCEPT !.semantic_queued = TRUE]
                                 ELSE st[s]]
  /\ semantic_queue' = semantic_queue \cup ready

-----------------------------------------------------------------------------
(* The coordinator takes the whole queue as the next wave, or is done.     *)
TakeWave ==
  /\ phase = "waves"
  /\ IF discovery_queue = {}
     THEN /\ phase' = "validate"
          /\ UNCHANGED <<wave, slots>>
     ELSE /\ phase' = "acquire"
          /\ wave' = discovery_queue
          /\ slots' = [s \in discovery_queue |-> "pending"]
  /\ discovery_queue' = {}
  /\ UNCHANGED <<inputs, state, semantic_queue, semantic_remaining, failed,
                 worker, independent>>

(* execute_acquire on some worker thread.                                  *)
ExecuteAcquire(s) ==
  /\ phase = "acquire"
  /\ s \in wave
  /\ slots[s] = "pending"
  /\ \E result \in {"ok"} \cup (IF faulty THEN {"failed"} ELSE {}) :
       slots' = [slots EXCEPT ![s] = result]
  /\ UNCHANGED <<inputs, phase, wave, discovery_queue, state,
                 semantic_queue, semantic_remaining, independent, failed, worker>>

(* The threads are joined and their results applied: all, or the build     *)
(* fails.                                                                  *)
ApplyWave ==
  /\ phase = "acquire"
  /\ \A s \in wave : slots[s] # "pending"
  /\ IF \A s \in wave : slots[s] = "ok"
     THEN /\ phase' = "discover"
          /\ UNCHANGED <<discovery_queue, semantic_queue, failed, worker>>
     ELSE /\ phase' = "failed"
          /\ FailLocked(worker)
  /\ UNCHANGED <<inputs, wave, slots, state, semantic_remaining, independent>>

(* Mutant: what is already parsed or discovered is not waited for.         *)
Waiting_UndiscoveredOnly(s) ==
  {d \in includes[s] : ~state[d].discovery_done}

(* What a discovered Source waits for: in a full build nothing it includes *)
(* is published yet.                                                       *)
Waiting(s) == {d \in includes[s] : ~state[d].published}

(* discover: counts what s waits for, registers s with each of them,       *)
(* claims the new ones.                                                    *)
Discovered(s) ==
  LET deps == includes[s] IN
  [t \in Sources |->
     [state[t] EXCEPT
        !.remaining = IF t = s THEN @ + Cardinality(Waiting(s)) ELSE @,
        !.dependents = IF t \in deps THEN @ \cup {s} ELSE @,
        !.discovery_claimed = @ \/ t \in deps,
        !.dependencies = IF t = s THEN deps ELSE @,
        !.discovery_done = @ \/ t = s]]

Discover(s) ==
  /\ phase = "discover"
  /\ s \in wave /\ \A t \in wave : s <= t
  /\ wave' = wave \ {s}
  /\ phase' = IF wave' = {} THEN "waves" ELSE phase
  /\ discovery_queue' =
       discovery_queue \cup
         {d \in includes[s] : ~state[d].discovery_claimed /\ ~state[d].published}
  /\ EnqueueReadyLocked(Discovered(s), {s})
  /\ UNCHANGED <<inputs, slots, semantic_remaining, failed, worker, independent>>

(* discover finds an error: it cannot be lexed, or an include is missing.  *)
DiscoverFails(s) ==
  /\ faulty
  /\ phase = "discover"
  /\ s \in wave /\ \A t \in wave : s <= t
  /\ phase' = "failed"
  /\ FailLocked(worker)
  /\ UNCHANGED <<inputs, wave, slots, state, semantic_remaining, independent>>

(* Mutant: a Source is never marked as finished by the search.             *)
Cyclic_NeverFinished ==
  \E s, t, d \in {s \in Sources : state[s].discovery_done} :
    d \in includes[s] /\ (s # t \/ s = d) /\ d \in includes[t]

(* validate_source_graph: a Source that reaches itself.                    *)
Cyclic ==
  \E cycle \in SUBSET {s \in Sources : state[s].discovery_done} :
    cycle # {} /\ \A s \in cycle : includes[s] \cap cycle # {}

(* finish_discovery                                                        *)
FinishDiscovery ==
  /\ phase = "validate"
  /\ IF Cyclic
     THEN /\ phase' = "failed"
          /\ FailLocked(worker)
     ELSE /\ phase' = "schedule"
          /\ UNCHANGED <<discovery_queue, semantic_queue, failed, worker>>
  /\ UNCHANGED <<inputs, wave, slots, state, semantic_remaining, independent>>

-----------------------------------------------------------------------------
Semantic == {s \in Sources : state[s].discovery_done /\ ~state[s].parsed}

Independent ==
  \A s \in Semantic : state[s].remaining = 0 /\ state[s].dependencies = {}

WorkerCount == Min({Cardinality(Semantic), HardwareThreads})

(* The Sources of a set in source_id order.                                *)
InOrder(sources) ==
  [i \in 1..Cardinality(sources) |->
     CHOOSE s \in sources : Cardinality({t \in sources : t <= s}) = i]

(* Mutant: the partitions of the workers are rounded at both ends.         *)
Partition_Rounded(sources, w) ==
  LET size == Len(sources) \div WorkerCount
  IN SubSeq(sources, (w - 1) * size + 1, w * size)

(* The part of the independent Sources worker w (from 1) parses.           *)
Partition(sources, w) ==
  SubSeq(sources, (Len(sources) * (w - 1)) \div WorkerCount + 1,
                  (Len(sources) * w) \div WorkerCount)

(* The semantic workers are started.                                       *)
StartWorkers ==
  LET sources == InOrder(Semantic) IN
  /\ phase = "schedule"
  /\ phase' = "semantic"
  /\ semantic_remaining' = Cardinality(Semantic)
  /\ independent' = Independent
  /\ IF Independent
     THEN /\ semantic_queue' = {}
          /\ state' = [s \in Sources |->
                         IF s \in Semantic
                         THEN [state[s] EXCEPT !.semantic_queued = FALSE,
                                               !.parse_claimed = TRUE]
                         ELSE state[s]]
          /\ worker' = [w \in Workers |->
                          IF w <= WorkerCount
                          THEN [pc |-> "static", source |-> 0,
                                partition |-> Partition(sources, w)]
                          ELSE Off]
     ELSE /\ UNCHANGED <<state, semantic_queue>>
          /\ worker' = [w \in Workers |->
                          IF w <= WorkerCount
                          THEN [Off EXCEPT !.pc = "looking"] ELSE Off]
  /\ UNCHANGED <<inputs, wave, slots, discovery_queue, failed>>

(* One Source of a static partition.  Nobody else touches its state; a     *)
(* worker with an error stops, the others go on.                           *)
ParseIndependent(w) ==
  LET s == Head(worker[w].partition) IN
  /\ worker[w].pc = "static"
  /\ worker[w].partition # <<>>
  /\ state' = [state EXCEPT ![s].parsed = TRUE]
  /\ worker' = [worker EXCEPT ![w].partition = Tail(@)]
  /\ UNCHANGED <<inputs, phase, wave, slots, discovery_queue,
                 semantic_queue, semantic_remaining, failed, independent>>

ParseIndependentFails(w) ==
  /\ faulty
  /\ worker[w].pc = "static"
  /\ worker[w].partition # <<>>
  /\ FailLocked([worker EXCEPT ![w].pc = "exited"])
  /\ UNCHANGED <<inputs, phase, wave, slots, state, semantic_remaining, independent>>

PartitionDone(w) ==
  /\ worker[w].pc = "static"
  /\ worker[w].partition = <<>>
  /\ worker' = [worker EXCEPT ![w].pc = "exited"]
  /\ UNCHANGED <<inputs, phase, wave, slots, discovery_queue, state,
                 semantic_queue, semantic_remaining, failed, independent>>

(* A worker holds the lock and evaluates the wait predicate: it leaves,    *)
(* claims a Source, or waits to be notified.                               *)
Look(w) ==
  /\ worker[w].pc = "looking"
  /\ \/ /\ failed \/ semantic_remaining = 0
        /\ worker' = [worker EXCEPT ![w].pc = "exited"]
        /\ UNCHANGED <<state, semantic_queue>>
     \/ /\ ~failed /\ semantic_remaining # 0
        /\ \E s \in semantic_queue :
             /\ semantic_queue' = semantic_queue \ {s}
             /\ state' = [state EXCEPT ![s].semantic_queued = FALSE,
                                       ![s].parse_claimed = TRUE]
             /\ worker' = [worker EXCEPT ![w].pc = "claimed",
                                         ![w].source = s]
     \/ /\ ~failed /\ semantic_remaining # 0
        /\ semantic_queue = {}
        /\ worker' = [worker EXCEPT ![w].pc = "waiting"]
        /\ UNCHANGED <<state, semantic_queue>>
  /\ UNCHANGED <<inputs, phase, wave, slots, discovery_queue,
                 semantic_remaining, failed, independent>>

(* parse_and_capture up to the unlock: the interfaces of everything the    *)
(* Source includes are taken; one that is missing fails the build.         *)
ParseBegin(w) ==
  LET s == worker[w].source IN
  /\ worker[w].pc = "claimed"
  /\ IF failed
     THEN /\ worker' = [worker EXCEPT ![w].pc = "exited"]
          /\ UNCHANGED <<discovery_queue, semantic_queue, failed>>
     ELSE IF state[s].remaining = 0
               /\ \A d \in state[s].dependencies : state[d].parsed
     THEN /\ worker' = [worker EXCEPT ![w].pc = "parsing"]
          /\ UNCHANGED <<discovery_queue, semantic_queue, failed>>
     ELSE FailLocked([worker EXCEPT ![w].pc = "exited"])
  /\ UNCHANGED <<inputs, phase, wave, slots, state, semantic_remaining, independent>>

(* Mutant: the workers are not notified when a Source was parsed.          *)
ParseEnd_NoNotify(w) ==
  LET s == worker[w].source
      st == [t \in Sources |->
               [state[t] EXCEPT
                  !.parsed = @ \/ t = s,
                  !.remaining = IF t \in state[s].dependents /\ @ # 0
                                THEN @ - 1 ELSE @]]
  IN
  /\ worker[w].pc = "parsing"
  /\ EnqueueReadyLocked(st, state[s].dependents)
  /\ semantic_remaining' = semantic_remaining - 1
  /\ worker' = [worker EXCEPT ![w].pc = "looking", ![w].source = 0]
  /\ UNCHANGED <<inputs, phase, wave, slots, discovery_queue, failed, independent>>

(* s is parsed, and whoever waits for it has one Source less to wait for.  *)
Released(s) ==
  [t \in Sources |->
     [state[t] EXCEPT !.parsed = @ \/ t = s,
                      !.remaining = IF t \in state[s].dependents /\ @ # 0
                                    THEN @ - 1 ELSE @]]

(* parse_and_capture after the parse, again under the lock.  It does not   *)
(* look at failure: enqueue_ready_locked does.                             *)
ParseEnd(w) ==
  LET s == worker[w].source IN
  /\ worker[w].pc = "parsing"
  /\ EnqueueReadyLocked(Released(s), state[s].dependents)
  /\ semantic_remaining' = IF semantic_remaining # 0
                           THEN semantic_remaining - 1 ELSE 0
  /\ worker' = Notified([worker EXCEPT ![w].pc = "looking", ![w].source = 0])
  /\ UNCHANGED <<inputs, phase, wave, slots, discovery_queue, failed, independent>>

(* The text has an error.                                                  *)
ParseFails(w) ==
  /\ faulty
  /\ worker[w].pc = "parsing"
  /\ FailLocked([worker EXCEPT ![w].pc = "exited"])
  /\ UNCHANGED <<inputs, phase, wave, slots, state, semantic_remaining, independent>>

(* The workers are joined.  Only the dynamic ones counted down.            *)
JoinWorkers ==
  /\ phase = "semantic"
  /\ \A w \in Workers : ~Running(w)
  /\ semantic_remaining' = 0
  /\ IF failed \/ independent \/ semantic_remaining = 0
     THEN /\ phase' = IF failed THEN "failed" ELSE "publish"
          /\ UNCHANGED <<discovery_queue, semantic_queue, failed, worker>>
     ELSE /\ phase' = "failed"
          /\ FailLocked(worker)
  /\ UNCHANGED <<inputs, wave, slots, state, independent>>

-----------------------------------------------------------------------------
Unpublished == {s \in Sources : state[s].parsed /\ ~state[s].published}

(* publish_source_entry, in source_id order                                *)
Publish(s) ==
  /\ phase = "publish"
  /\ s \in Unpublished /\ \A t \in Unpublished : s <= t
  /\ state' = [state EXCEPT ![s].published = TRUE]
  /\ UNCHANGED <<inputs, phase, wave, slots, discovery_queue,
                 semantic_queue, semantic_remaining, independent, failed, worker>>

(* The facts of a Source contradict what is published, or the commit of    *)
(* the transaction fails: nothing of the build remains.                    *)
PublishFails ==
  /\ faulty
  /\ phase = "publish"
  /\ phase' = "failed"
  /\ UNCHANGED <<inputs, wave, slots, discovery_queue, state,
                 semantic_queue, semantic_remaining, independent, failed, worker>>

Commit ==
  /\ phase = "publish"
  /\ Unpublished = {}
  /\ phase' = "committed"
  /\ UNCHANGED <<inputs, wave, slots, discovery_queue, state,
                 semantic_queue, semantic_remaining, independent, failed, worker>>

Coordinator ==
  \/ TakeWave \/ ApplyWave \/ FinishDiscovery \/ StartWorkers
  \/ JoinWorkers \/ PublishFails \/ Commit
  \/ \E s \in Sources : Discover(s) \/ DiscoverFails(s) \/ Publish(s)

Worker(w) ==
  \/ ParseIndependent(w) \/ ParseIndependentFails(w) \/ PartitionDone(w)
  \/ Look(w) \/ ParseBegin(w) \/ ParseEnd(w) \/ ParseFails(w)

Next ==
  \/ Coordinator
  \/ \E s \in Sources : ExecuteAcquire(s)
  \/ \E w \in Workers : Worker(w)

(* Threads are scheduled.  A waiting worker has no step: nothing is        *)
(* assumed of spurious wakeups.                                            *)
Fairness ==
  /\ WF_vars(Coordinator)
  /\ \A s \in Sources : WF_vars(ExecuteAcquire(s))
  /\ \A w \in Workers : WF_vars(Worker(w))

Spec == Init /\ [][Next]_vars
FairSpec == Spec /\ Fairness

-----------------------------------------------------------------------------
(* The variables have their types.                                         *)
TypeOK ==
  /\ roots \subseteq Sources
  /\ includes \in [Sources -> SUBSET Sources]
  /\ faulty \in BOOLEAN
  /\ phase \in {"waves", "acquire", "discover", "validate", "schedule",
                "semantic", "publish", "committed", "failed", "released"}
  /\ wave \subseteq Sources
  /\ DOMAIN slots \subseteq Sources
  /\ \A s \in DOMAIN slots : slots[s] \in {"pending", "ok", "failed"}
  /\ discovery_queue \subseteq Sources
  /\ semantic_queue \subseteq Sources
  /\ semantic_remaining \in 0..NumSources
  /\ independent \in BOOLEAN
  /\ failed \in BOOLEAN
  /\ state \in [Sources ->
       [discovery_claimed : BOOLEAN, discovery_done : BOOLEAN,
        dependencies : SUBSET Sources, dependents : SUBSET Sources,
        remaining : 0..NumSources, semantic_queued : BOOLEAN,
        parse_claimed : BOOLEAN, parsed : BOOLEAN, published : BOOLEAN]]
  /\ \A w \in Workers :
       /\ worker[w].pc \in {"off", "static", "looking", "waiting", "claimed",
                            "parsing", "exited"}
       /\ worker[w].source \in 0..NumSources
       /\ worker[w].partition \in Seq(Sources)

(* A Source is parsed by one worker only, and never before everything it   *)
(* includes has its interface.                                             *)
ParseInOrder ==
  /\ \A v, w \in Workers :
       v # w /\ worker[v].source # 0 => worker[v].source # worker[w].source
  /\ \A w \in Workers :
       worker[w].pc \in {"claimed", "parsing"} =>
         /\ ~state[worker[w].source].parsed
         /\ \A d \in includes[worker[w].source] : state[d].parsed

(* The counters that wake and stop the workers agree with the Sources they *)
(* count: one too many and everybody waits, one too few and a Source is    *)
(* left out.                                                               *)
CountersExact ==
  /\ \A s \in Sources :
       state[s].discovery_done =>
         state[s].remaining = Cardinality({d \in includes[s] : ~state[d].parsed})
  /\ phase = "semantic" /\ ~independent =>
       semantic_remaining = Cardinality(Semantic)

(* The schedule of the semantic workers: well formed, counted exactly, and *)
(* each Source parsed once and after its includes.                         *)
ScheduleExact == TypeOK /\ ParseInOrder /\ CountersExact

(* The Sources a Project consists of.                                      *)
Universe ==
  {s \in Sources :
     \A closed \in SUBSET Sources :
       roots \subseteq closed /\ (\A t \in closed : includes[t] \subseteq closed)
         => s \in closed}

(* A build that commits has published every Source reached from the roots, *)
(* and nothing else; with a failure on record or an include cycle none     *)
(* commits.                                                                *)
CommitIsComplete ==
  phase = "committed" =>
    /\ {s \in Sources : state[s].published} = Universe
    /\ ~failed
    /\ \A cycle \in SUBSET Universe :
         cycle # {} => \E s \in cycle : includes[s] \cap cycle = {}

(* rebuild always returns: no worker waits for a notification that never   *)
(* comes, whatever fails and wherever.                                     *)
RebuildReturns == <>(phase \in {"committed", "failed"})

(* A project without errors is committed.                                  *)
CleanBuildCommits ==
  ~faulty =>
    <>(phase = "committed" \/ \E cycle \in SUBSET Universe :
         cycle # {} /\ \A s \in cycle : includes[s] \cap cycle # {})
=============================================================================
