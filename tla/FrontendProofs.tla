---------------------------- MODULE FrontendProofs ----------------------------
(***************************************************************************)
(* Proofs about the full build (SourceFrontend), alone and followed by     *)
(* incremental builds (Frontend), for any number of Sources and threads    *)
(* and any includes.                                                       *)
(*                                                                         *)
(* ScheduleExact is inductive once it is known who waits for whom: a       *)
(* discovered Source is registered with everything it includes and with    *)
(* nothing else (SourceInv), so a parse that ends takes one off exactly    *)
(* the counters that counted it.  A Source is queued or claimed only when  *)
(* its counter is zero, and claimed once (WorkerInv).  CommitIsComplete    *)
(* needs the discovery too: what is claimed is in the universe and is      *)
(* still to be handled or discovered (DiscoveryInv), and a Source of a     *)
(* static partition that is not parsed is still in one (PartitionInv).     *)
(***************************************************************************)
EXTENDS Frontend, FiniteSetTheorems, SequenceTheorems, TLAPS

StateType ==
  [discovery_claimed : BOOLEAN, discovery_done : BOOLEAN,
   dependencies : SUBSET Sources, dependents : SUBSET Sources,
   remaining : Nat, semantic_queued : BOOLEAN,
   parse_claimed : BOOLEAN, parsed : BOOLEAN, published : BOOLEAN]
WorkerType ==
  [pc : {"off", "static", "looking", "waiting", "claimed", "parsing", "exited"},
   source : 0..NumSources, partition : Seq(Sources)]

Discovering == phase \in {"waves", "acquire", "discover", "validate", "schedule"}

TypeInv ==
  /\ roots \in SUBSET Sources
  /\ includes \in [Sources -> SUBSET Sources]
  /\ faulty \in BOOLEAN
  /\ phase \in {"waves", "acquire", "discover", "validate", "schedule",
                "semantic", "publish", "committed", "failed", "released"}
  /\ wave \in SUBSET Sources
  /\ DOMAIN slots \in SUBSET Sources
  /\ phase = "acquire" => DOMAIN slots = wave
  /\ \A s \in DOMAIN slots : slots[s] \in {"pending", "ok", "failed"}
  /\ discovery_queue \in SUBSET Sources
  /\ semantic_queue \in SUBSET Sources
  /\ semantic_remaining \in 0..NumSources
  /\ independent \in BOOLEAN
  /\ failed \in BOOLEAN
  /\ state \in [Sources -> StateType]
  /\ worker \in [Workers -> WorkerType]

Unparsed(s) == {d \in includes[s] : ~state[d].parsed}

(* What is recorded of a Source agrees with what it includes.              *)
SourceInv ==
  \A s \in Sources :
    /\ state[s].dependents =
         {t \in Sources : state[t].discovery_done /\ s \in includes[t]}
    /\ ~state[s].discovery_done => state[s].remaining = 0
    /\ state[s].discovery_done =>
         /\ state[s].discovery_claimed
         /\ state[s].dependencies = includes[s]
         /\ state[s].remaining = Cardinality(Unparsed(s))
    /\ state[s].semantic_queued \/ state[s].parse_claimed =>
         state[s].discovery_done /\ state[s].remaining = 0
    /\ state[s].semantic_queued => ~state[s].parse_claimed
    /\ state[s].parsed => state[s].parse_claimed
    /\ state[s].published => state[s].parsed
    /\ s \in semantic_queue => state[s].semantic_queued

(* Sources to be handled are claimed, and discovered only once.            *)
WaveInv ==
  /\ Discovering =>
       /\ \A s \in wave \cup discovery_queue :
            state[s].discovery_claimed /\ ~state[s].discovery_done
       /\ wave \cap discovery_queue = {}
       /\ \A s \in Sources : ~state[s].parse_claimed
  /\ phase \in {"waves", "validate", "schedule"} => wave = {}
  /\ phase \in {"validate", "schedule"} => discovery_queue = {}
  /\ independent \/ phase \in {"publish", "committed"} => semantic_queue = {}

WorkerInv ==
  /\ \A v, w \in Workers :
       v # w /\ worker[v].source # 0 => worker[v].source # worker[w].source
  /\ \A w \in Workers :
       /\ worker[w].source # 0 => state[worker[w].source].parse_claimed
       /\ worker[w].pc \in {"claimed", "parsing"} =>
            worker[w].source # 0 /\ ~state[worker[w].source].parsed
       /\ Running(w) => phase = "semantic" /\ (independent <=> worker[w].pc = "static")
       /\ Discovering => worker[w] = Off
       /\ independent => worker[w].source = 0
       /\ worker[w].pc = "static" =>
            \A i \in DOMAIN worker[w].partition :
              state[worker[w].partition[i]].parse_claimed
  /\ independent =>
       ~Discovering /\ \A s \in Sources : state[s].discovery_done => includes[s] = {}
  /\ phase = "semantic" /\ ~independent => semantic_remaining = Cardinality(Semantic)

IndInv == TypeInv /\ SourceInv /\ WaveInv /\ WorkerInv

-----------------------------------------------------------------------------
(* For CommitIsComplete.                                                   *)
Claimed == {s \in Sources : state[s].discovery_claimed}
Done == {s \in Sources : state[s].discovery_done}
Building == phase \notin {"failed", "released"}

DiscoveryInv ==
  Building =>
    /\ roots \subseteq Claimed
    /\ \A s \in Done : includes[s] \subseteq Claimed
    /\ Claimed \subseteq Universe
    /\ Claimed = Done \cup wave \cup discovery_queue
    /\ ~Discovering => wave = {} /\ discovery_queue = {}
    /\ phase \in {"schedule", "semantic", "publish", "committed"} => ~Cyclic

PartitionInv ==
  /\ failed => phase \in {"semantic", "failed"}
  /\ phase = "semantic" /\ independent /\ ~failed =>
       \A s \in Semantic : \E w \in Workers :
         worker[w].pc = "static" /\ \E i \in DOMAIN worker[w].partition :
                                      worker[w].partition[i] = s
  /\ phase \in {"publish", "committed"} => Semantic = {}
  /\ phase = "committed" => Unpublished = {}

-----------------------------------------------------------------------------
(* There are finitely many Sources, so their subsets have sizes.           *)
LEMMA Sizes ==
  /\ IsFiniteSet(Sources) /\ Cardinality(Sources) = NumSources
  /\ \A S \in SUBSET Sources :
       /\ IsFiniteSet(S) /\ Cardinality(S) \in Nat
       /\ Cardinality(S) <= NumSources
       /\ Cardinality(S) = 0 <=> S = {}
<1>1. IsFiniteSet(Sources) /\ Cardinality(Sources) = NumSources
  BY SourceFrontendAssumption, FS_Interval DEF Sources
<1>2. QED
  BY <1>1, FS_Subset, FS_CardinalityType, FS_EmptySet

(* Without one of its members a set is smaller by one.                     *)
LEMMA SizeWithout ==
  ASSUME NEW S \in SUBSET Sources, NEW x
  PROVE  Cardinality(S \ {x}) = IF x \in S THEN Cardinality(S) - 1 ELSE Cardinality(S)
BY Sizes, FS_RemoveElement

(* What notify_all leaves of the threads.                                  *)
LEMMA NotifiedFacts ==
  ASSUME NEW ws \in [Workers -> WorkerType]
  PROVE  /\ Notified(ws) \in [Workers -> WorkerType]
         /\ \A v \in Workers :
              /\ Notified(ws)[v].source = ws[v].source
              /\ Notified(ws)[v].partition = ws[v].partition
              /\ Notified(ws)[v].pc = IF ws[v].pc = "waiting" THEN "looking" ELSE ws[v].pc
BY DEF Notified, WorkerType

(* A thread that was not started.                                          *)
LEMMA OffTyped == Off \in WorkerType /\ Off.pc = "off" /\ Off.source = 0
BY SourceFrontendAssumption, EmptySeq DEF Off, WorkerType

-----------------------------------------------------------------------------
(* The initial state satisfies the invariant.                              *)
LEMMA InitIndInv == Init => IndInv
<1> SUFFICES ASSUME Init PROVE IndInv
  OBVIOUS
<1>1. /\ roots \in SUBSET Sources /\ includes \in [Sources -> SUBSET Sources]
      /\ phase = "waves" /\ wave = {} /\ slots = <<>> /\ discovery_queue = roots
      /\ semantic_queue = {} /\ semantic_remaining = 0
      /\ independent = FALSE /\ failed = FALSE /\ faulty \in BOOLEAN
      /\ worker = [w \in Workers |-> Off]
  BY DEF Init
<1>2. state \in [Sources -> StateType]
  <2>1. ASSUME NEW b \in BOOLEAN
        PROVE  [InitialState EXCEPT !.discovery_claimed = b] \in StateType
    BY DEF InitialState, StateType
  <2>2. \A s \in Sources : (s \in roots) \in BOOLEAN
    OBVIOUS
  <2>3. QED
    BY <2>1, <2>2 DEF Init
<1>3. \A s \in Sources :
        /\ state[s].discovery_claimed = (s \in roots)
        /\ ~state[s].discovery_done /\ state[s].dependents = {} /\ state[s].remaining = 0
        /\ ~state[s].semantic_queued /\ ~state[s].parse_claimed /\ ~state[s].parsed
        /\ ~state[s].published
  BY DEF Init, InitialState
<1>4. \A w \in Workers : worker[w] = Off /\ worker[w].pc = "off" /\ worker[w].source = 0
  BY <1>1, OffTyped
<1>5. TypeInv
  <2>1. DOMAIN slots = {}
    BY <1>1
  <2>2. worker \in [Workers -> WorkerType]
    BY <1>1, OffTyped
  <2>3. semantic_remaining \in 0..NumSources
    BY <1>1, SourceFrontendAssumption
  <2>4. QED
    BY <1>1, <1>2, <2>1, <2>2, <2>3 DEF TypeInv
<1>6. SourceInv
  BY <1>1, <1>3 DEF SourceInv
<1>7. WaveInv
  BY <1>1, <1>3 DEF WaveInv, Discovering
<1>8. WorkerInv
  BY <1>1, <1>4 DEF WorkerInv, Running, Discovering
<1>9. QED
  BY <1>5, <1>6, <1>7, <1>8 DEF IndInv

-----------------------------------------------------------------------------
(* A step that changes no Source keeps what is said of them.               *)
LEMMA SourcesKept ==
  ASSUME IndInv, UNCHANGED <<state, includes>>, semantic_queue' \subseteq semantic_queue
  PROVE  SourceInv'
<1>1. \A s \in Sources : Unparsed(s)' = Unparsed(s)
  BY DEF Unparsed
<1>2. QED
  BY <1>1 DEF IndInv, SourceInv

(* Nor does one in which threads only look, wait, begin a parse or leave   *)
(* disturb what is said of the threads.                                    *)
LEMMA WorkersKept ==
  ASSUME IndInv, UNCHANGED <<state, includes, independent>>,
         \A v \in Workers :
           /\ worker'[v].source = worker[v].source
           /\ worker'[v].partition = worker[v].partition
           /\ \/ worker'[v].pc = worker[v].pc
              \/ worker'[v].pc = "exited" /\ worker[v].pc # "off"
              \/ {worker[v].pc, worker'[v].pc} \subseteq {"waiting", "looking"}
              \/ worker[v].pc = "claimed" /\ worker'[v].pc = "parsing",
         \/ Discovering /\ Discovering' /\ UNCHANGED worker
         \/ UNCHANGED <<phase, semantic_remaining>> /\ ~Discovering
         \/ /\ phase' \notin {"semantic", "waves", "acquire", "discover", "validate", "schedule"}
            /\ \A v \in Workers : worker'[v].pc \in {"off", "exited"}
  PROVE  WorkerInv'
<1>1. /\ \A v, w \in Workers :
           v # w /\ worker'[v].source # 0 => worker'[v].source # worker'[w].source
      /\ \A w \in Workers :
           /\ worker'[w].source # 0 => state'[worker'[w].source].parse_claimed
           /\ worker'[w].pc \in {"claimed", "parsing"} =>
                worker'[w].source # 0 /\ ~state'[worker'[w].source].parsed
           /\ independent' => worker'[w].source = 0
           /\ worker'[w].pc = "static" =>
                \A i \in DOMAIN worker'[w].partition :
                  state'[worker'[w].partition[i]].parse_claimed
  BY DEF IndInv, WorkerInv
<1>2. \A w \in Workers : Running(w)' => Running(w)
  BY DEF Running
<1>3. \A w \in Workers :
        Running(w)' => phase' = "semantic" /\ (independent' <=> worker'[w].pc = "static")
  BY <1>2 DEF IndInv, WorkerInv, Running, Discovering
<1>4. \A w \in Workers : Discovering' => worker'[w] = Off
  BY DEF IndInv, WorkerInv, Discovering
<1>5. independent' =>
        ~Discovering' /\ \A s \in Sources : state'[s].discovery_done => includes'[s] = {}
  BY DEF IndInv, WorkerInv, Discovering
<1>6. phase' = "semantic" /\ ~independent' => semantic_remaining' = Cardinality(Semantic')
  BY DEF IndInv, WorkerInv, Discovering, Semantic
<1>7. QED
  BY <1>1, <1>3, <1>4, <1>5, <1>6 DEF WorkerInv

(* The coordinator moves on in the discovery.                              *)
LEMMA DiscoveryMoves ==
  ASSUME IndInv, Discovering, Discovering',
         UNCHANGED <<inputs, state, semantic_queue, semantic_remaining, independent,
                     failed, worker>>,
         TypeInv', WaveInv'
  PROVE  IndInv'
<1>1. SourceInv'
  BY SourcesKept DEF inputs
<1>2. WorkerInv'
  BY WorkersKept DEF inputs
<1>3. QED
  BY <1>1, <1>2 DEF IndInv

(* The next wave is taken.                                                 *)
LEMMA TakeWaveIndInv == ASSUME IndInv, TakeWave PROVE IndInv'
<1>1. /\ phase = "waves" /\ discovery_queue' = {}
      /\ UNCHANGED <<inputs, state, semantic_queue, semantic_remaining, failed,
                     worker, independent>>
  BY DEF TakeWave
<1>2. \/ /\ discovery_queue = {} /\ phase' = "validate" /\ UNCHANGED <<wave, slots>>
      \/ /\ phase' = "acquire" /\ wave' = discovery_queue
         /\ slots' = [s \in discovery_queue |-> "pending"]
  BY DEF TakeWave
<1>3. TypeInv'
  BY <1>1, <1>2 DEF IndInv, TypeInv, inputs
<1>4. WaveInv'
  BY <1>1, <1>2 DEF IndInv, WaveInv, WorkerInv, Discovering
<1>5. QED
  BY <1>1, <1>2, <1>3, <1>4, DiscoveryMoves DEF Discovering

(* An acquisition ends.                                                    *)
LEMMA ExecuteAcquireIndInv ==
  ASSUME IndInv, NEW s \in Sources, ExecuteAcquire(s) PROVE IndInv'
<1>1. /\ phase = "acquire" /\ s \in wave
      /\ UNCHANGED <<inputs, phase, wave, discovery_queue, state,
                     semantic_queue, semantic_remaining, independent, failed, worker>>
      /\ \E result \in {"ok", "failed"} : slots' = [slots EXCEPT ![s] = result]
  BY DEF ExecuteAcquire
<1>2. TypeInv'
  BY <1>1 DEF IndInv, TypeInv, inputs
<1>3. WaveInv'
  BY <1>1 DEF IndInv, WaveInv, Discovering
<1>4. QED
  BY <1>1, <1>2, <1>3, DiscoveryMoves DEF Discovering

(* fail_locked ends the build while there are no threads, or is called by  *)
(* a thread that leaves.                                                   *)
LEMMA FailIndInv ==
  ASSUME IndInv, NEW ws \in [Workers -> WorkerType], FailLocked(ws),
         UNCHANGED <<inputs, wave, slots, state, independent>>,
         \A v \in Workers :
           /\ ws[v].source = worker[v].source /\ ws[v].partition = worker[v].partition
           /\ ws[v].pc = worker[v].pc \/ (ws[v].pc = "exited" /\ worker[v].pc # "off"),
         \/ phase = "semantic" /\ UNCHANGED <<phase, semantic_remaining>>
         \/ /\ phase' = "failed" /\ semantic_remaining' \in 0..NumSources
            /\ \A v \in Workers : worker[v].pc \in {"off", "exited"}
  PROVE  IndInv'
<1>1. /\ failed' = TRUE /\ discovery_queue' = {} /\ semantic_queue' = {}
      /\ worker' = Notified(ws)
  BY DEF FailLocked
<1>2. \A v \in Workers :
        /\ worker'[v].source = worker[v].source
        /\ worker'[v].partition = worker[v].partition
        /\ worker'[v].pc = IF ws[v].pc = "waiting" THEN "looking" ELSE ws[v].pc
  BY <1>1, NotifiedFacts
<1>3. TypeInv'
  BY <1>1, NotifiedFacts DEF IndInv, TypeInv, inputs
<1>4. WaveInv'
  BY <1>1 DEF WaveInv, Discovering
<1>5. SourceInv'
  BY <1>1, SourcesKept DEF inputs
<1>6. WorkerInv'
  BY <1>2, WorkersKept DEF inputs, Discovering
<1>7. QED
  BY <1>3, <1>4, <1>5, <1>6 DEF IndInv

(* The build fails before there are threads.                               *)
LEMMA FailsEarly ==
  ASSUME IndInv, Discovering, FailLocked(worker), phase' = "failed",
         UNCHANGED <<inputs, wave, slots, state, semantic_remaining, independent>>
  PROVE  IndInv'
<1>1. worker \in [Workers -> WorkerType] /\ semantic_remaining' \in 0..NumSources
  BY DEF IndInv, TypeInv
<1>2. \A v \in Workers : worker[v].pc = "off"
  BY OffTyped DEF IndInv, WorkerInv
<1>3. QED
  BY <1>1, <1>2, FailIndInv

(* The results of a wave are applied.                                      *)
LEMMA ApplyWaveIndInv == ASSUME IndInv, ApplyWave PROVE IndInv'
<1>1. phase = "acquire"
      /\ UNCHANGED <<inputs, wave, slots, state, semantic_remaining, independent>>
  BY DEF ApplyWave
<1>2. CASE /\ phase' = "discover"
           /\ UNCHANGED <<discovery_queue, semantic_queue, failed, worker>>
  <2>1. TypeInv' /\ WaveInv'
    BY <1>1, <1>2 DEF IndInv, TypeInv, WaveInv, inputs, Discovering
  <2>2. QED
    BY <1>1, <1>2, <2>1, DiscoveryMoves DEF Discovering
<1>3. CASE phase' = "failed" /\ FailLocked(worker)
  BY <1>1, <1>3, FailsEarly DEF Discovering
<1>4. QED
  BY <1>2, <1>3 DEF ApplyWave

(* The include graph is validated.                                         *)
LEMMA FinishDiscoveryIndInv == ASSUME IndInv, FinishDiscovery PROVE IndInv'
<1>1. phase = "validate"
      /\ UNCHANGED <<inputs, wave, slots, state, semantic_remaining, independent>>
  BY DEF FinishDiscovery
<1>2. CASE /\ phase' = "schedule"
           /\ UNCHANGED <<discovery_queue, semantic_queue, failed, worker>>
  <2>1. TypeInv' /\ WaveInv'
    BY <1>1, <1>2 DEF IndInv, TypeInv, WaveInv, inputs, Discovering
  <2>2. QED
    BY <1>1, <1>2, <2>1, DiscoveryMoves DEF Discovering
<1>3. CASE phase' = "failed" /\ FailLocked(worker)
  BY <1>1, <1>3, FailsEarly DEF Discovering
<1>4. QED
  BY <1>2, <1>3 DEF FinishDiscovery

-----------------------------------------------------------------------------
(* A discovered Source: what changes in whose state.                       *)
LEMMA DiscoverFacts ==
  ASSUME IndInv, NEW s \in Sources, Discover(s)
  PROVE  /\ state' \in [Sources -> StateType]
         /\ \A t \in Sources :
              /\ state'[t].discovery_claimed <=> (state[t].discovery_claimed \/ t \in includes[s])
              /\ state'[t].discovery_done <=> (state[t].discovery_done \/ t = s)
              /\ state'[t].dependencies = IF t = s THEN includes[s] ELSE state[t].dependencies
              /\ state'[t].dependents = IF t \in includes[s] THEN state[t].dependents \cup {s}
                                        ELSE state[t].dependents
              /\ state'[t].remaining = IF t = s THEN Cardinality(includes[s])
                                       ELSE state[t].remaining
              /\ state'[t].parse_claimed <=> state[t].parse_claimed
              /\ state'[t].parsed <=> state[t].parsed
              /\ state'[t].published <=> state[t].published
              /\ t # s => (state'[t].semantic_queued <=> state[t].semantic_queued)
         /\ state'[s].semantic_queued => state'[s].remaining = 0
         /\ \A t \in semantic_queue' : t \in semantic_queue \/ (t = s /\ state'[s].semantic_queued)
         /\ semantic_queue' \in SUBSET Sources
<1> DEFINE st == Discovered(s)
           ready == IF failed THEN {} ELSE {t \in {s} : Ready(st, t)}
<1>1. phase = "discover" /\ s \in wave
  BY DEF Discover
<1>2. state[s].remaining = 0 /\ ~state[s].semantic_queued
      /\ \A t \in Sources : ~state[t].published /\ ~state[t].parse_claimed
  BY <1>1 DEF IndInv, SourceInv, WaveInv, Discovering
<1>3. includes[s] \in SUBSET Sources /\ Waiting(s) = includes[s]
  BY <1>2 DEF IndInv, TypeInv, Waiting
<1>4. Cardinality(includes[s]) \in Nat
  BY <1>3, Sizes
<1>5. ASSUME NEW t \in Sources
      PROVE  /\ st[t] \in StateType
             /\ st[t].discovery_claimed <=> (state[t].discovery_claimed \/ t \in includes[s])
             /\ st[t].discovery_done <=> (state[t].discovery_done \/ t = s)
             /\ st[t].dependencies = IF t = s THEN includes[s] ELSE state[t].dependencies
             /\ st[t].dependents = IF t \in includes[s] THEN state[t].dependents \cup {s}
                                   ELSE state[t].dependents
             /\ st[t].remaining = IF t = s THEN Cardinality(includes[s])
                                  ELSE state[t].remaining
             /\ st[t].parse_claimed <=> state[t].parse_claimed
             /\ st[t].parsed <=> state[t].parsed
             /\ st[t].published <=> state[t].published
             /\ st[t].semantic_queued <=> state[t].semantic_queued
  <2>1. state[t] \in StateType
    BY DEF IndInv, TypeInv
  <2> DEFINE a == IF t = s THEN state[t].remaining + Cardinality(Waiting(s))
                  ELSE state[t].remaining
             b == IF t \in includes[s] THEN state[t].dependents \cup {s}
                  ELSE state[t].dependents
             c == state[t].discovery_claimed \/ t \in includes[s]
             d == IF t = s THEN includes[s] ELSE state[t].dependencies
             e == state[t].discovery_done \/ t = s
  <2>2. st[t] = [state[t] EXCEPT !.remaining = a, !.dependents = b, !.discovery_claimed = c,
                                 !.dependencies = d, !.discovery_done = e]
    BY DEF Discovered
  <2>3. a = (IF t = s THEN Cardinality(includes[s]) ELSE state[t].remaining) /\ a \in Nat
    BY <1>2, <1>3, <1>4, <2>1 DEF StateType
  <2>4. b \in SUBSET Sources /\ d \in SUBSET Sources
    BY <1>3, <2>1 DEF StateType
  <2>5. c \in BOOLEAN /\ e \in BOOLEAN
    OBVIOUS
  <2> HIDE DEF a, b, c, d, e, st
  <2>6. /\ st[t] \in StateType
        /\ st[t].remaining = a /\ st[t].dependents = b /\ st[t].dependencies = d
        /\ st[t].discovery_claimed = c /\ st[t].discovery_done = e
        /\ st[t].parse_claimed = state[t].parse_claimed /\ st[t].parsed = state[t].parsed
        /\ st[t].published = state[t].published
        /\ st[t].semantic_queued = state[t].semantic_queued
    BY <2>1, <2>2, <2>3, <2>4, <2>5 DEF StateType
  <2>7. QED
    BY <2>3, <2>6 DEF b, c, d, e
<1>6. state' = [t \in Sources |-> IF t \in ready
                                  THEN [st[t] EXCEPT !.semantic_queued = TRUE]
                                  ELSE st[t]]
      /\ semantic_queue' = semantic_queue \cup ready
  BY DEF Discover, EnqueueReadyLocked
<1>7. ready \subseteq {s} /\ (s \in ready => st[s].remaining = 0)
  BY DEF Ready
<1> HIDE DEF st, ready
<1>8. ASSUME NEW t \in Sources
      PROVE  /\ state'[t] \in StateType
             /\ state'[t].discovery_claimed <=> st[t].discovery_claimed
             /\ state'[t].discovery_done <=> st[t].discovery_done
             /\ state'[t].dependencies = st[t].dependencies
             /\ state'[t].dependents = st[t].dependents
             /\ state'[t].remaining = st[t].remaining
             /\ state'[t].parse_claimed <=> st[t].parse_claimed
             /\ state'[t].parsed <=> st[t].parsed
             /\ state'[t].published <=> st[t].published
             /\ t \notin ready => (state'[t].semantic_queued <=> st[t].semantic_queued)
             /\ t \in ready => state'[t].semantic_queued
  <2>1. st[t] \in StateType
    BY <1>5
  <2>2. CASE t \in ready
    <3>1. state'[t] = [st[t] EXCEPT !.semantic_queued = TRUE]
      BY <1>6, <2>2
    <3>2. QED
      BY <2>1, <2>2, <3>1 DEF StateType
  <2>3. CASE t \notin ready
    BY <1>6, <2>1, <2>3
  <2>4. QED
    BY <2>2, <2>3
<1>9. state' \in [Sources -> StateType]
  BY <1>6, <1>8
<1>10. \A t \in Sources : t # s => t \notin ready
  BY <1>7
<1>11. state'[s].semantic_queued => s \in ready
  BY <1>2, <1>5, <1>8
<1>12. state'[s].semantic_queued => state'[s].remaining = 0
  BY <1>7, <1>8, <1>11
<1>13. /\ \A t \in semantic_queue' :
            t \in semantic_queue \/ (t = s /\ state'[s].semantic_queued)
       /\ semantic_queue' \in SUBSET Sources
  BY <1>6, <1>7, <1>8 DEF IndInv, TypeInv
<1>14. \A t \in Sources :
         /\ state'[t].discovery_claimed <=> (state[t].discovery_claimed \/ t \in includes[s])
         /\ state'[t].discovery_done <=> (state[t].discovery_done \/ t = s)
         /\ state'[t].dependencies = IF t = s THEN includes[s] ELSE state[t].dependencies
         /\ state'[t].dependents = IF t \in includes[s] THEN state[t].dependents \cup {s}
                                   ELSE state[t].dependents
         /\ state'[t].remaining = IF t = s THEN Cardinality(includes[s])
                                  ELSE state[t].remaining
  BY <1>5, <1>8
<1>15. \A t \in Sources :
         /\ state'[t].parse_claimed <=> state[t].parse_claimed
         /\ state'[t].parsed <=> state[t].parsed
         /\ state'[t].published <=> state[t].published
         /\ t # s => (state'[t].semantic_queued <=> state[t].semantic_queued)
  BY <1>5, <1>8, <1>10
<1>16. QED
  BY <1>9, <1>12, <1>13, <1>14, <1>15

(* A Source is discovered.                                                 *)
LEMMA DiscoverIndInv == ASSUME IndInv, NEW s \in Sources, Discover(s) PROVE IndInv'
<1>1. /\ phase = "discover" /\ s \in wave /\ wave' = wave \ {s}
      /\ phase' = IF wave' = {} THEN "waves" ELSE phase
      /\ discovery_queue' =
           discovery_queue \cup
             {d \in includes[s] : ~state[d].discovery_claimed /\ ~state[d].published}
      /\ UNCHANGED <<inputs, slots, semantic_remaining, failed, worker, independent>>
  BY DEF Discover
<1>2. includes' = includes /\ includes[s] \in SUBSET Sources
      /\ phase' \in {"waves", "discover"}
  BY <1>1 DEF inputs, IndInv, TypeInv
<1>3. \A t \in Sources : ~state[t].parse_claimed /\ ~state[t].parsed
  BY <1>1 DEF IndInv, WaveInv, SourceInv, Discovering
<1>4. TypeInv'
  BY <1>1, <1>2, DiscoverFacts DEF IndInv, TypeInv, inputs
<1>5. SourceInv'
  <2> SUFFICES ASSUME NEW t \in Sources
               PROVE  /\ state'[t].dependents =
                           {u \in Sources : state'[u].discovery_done /\ t \in includes[u]}
                      /\ ~state'[t].discovery_done => state'[t].remaining = 0
                      /\ state'[t].discovery_done =>
                           /\ state'[t].discovery_claimed
                           /\ state'[t].dependencies = includes[t]
                           /\ state'[t].remaining = Cardinality(Unparsed(t)')
                      /\ state'[t].semantic_queued \/ state'[t].parse_claimed =>
                           state'[t].discovery_done /\ state'[t].remaining = 0
                      /\ state'[t].semantic_queued => ~state'[t].parse_claimed
                      /\ state'[t].parsed => state'[t].parse_claimed
                      /\ state'[t].published => state'[t].parsed
                      /\ t \in semantic_queue' => state'[t].semantic_queued
    BY <1>2 DEF SourceInv
  <2>1. state'[t].dependents =
          {u \in Sources : state'[u].discovery_done /\ t \in includes[u]}
    <3>1. state[t].dependents =
            {u \in Sources : state[u].discovery_done /\ t \in includes[u]}
      BY DEF IndInv, SourceInv
    <3>2. \A u \in Sources : state'[u].discovery_done <=> state[u].discovery_done \/ u = s
      BY DiscoverFacts
    <3>3. state'[t].dependents = IF t \in includes[s] THEN state[t].dependents \cup {s}
                                 ELSE state[t].dependents
      BY DiscoverFacts
    <3>4. QED
      BY <3>1, <3>2, <3>3
  <2>2. Unparsed(t)' = Unparsed(t)
    BY <1>2, DiscoverFacts DEF Unparsed, IndInv, TypeInv
  <2>3. /\ state'[t].discovery_done <=> state[t].discovery_done \/ t = s
        /\ state[t].discovery_claimed => state'[t].discovery_claimed
        /\ state'[t].dependencies = IF t = s THEN includes[s] ELSE state[t].dependencies
        /\ state'[t].remaining = IF t = s THEN Cardinality(includes[s]) ELSE state[t].remaining
        /\ state'[t].parse_claimed <=> state[t].parse_claimed
        /\ state'[t].parsed <=> state[t].parsed
        /\ state'[t].published <=> state[t].published
        /\ t # s => (state'[t].semantic_queued <=> state[t].semantic_queued)
        /\ t = s /\ state'[t].semantic_queued => state'[t].remaining = 0
        /\ t \in semantic_queue' => t \in semantic_queue \/ (t = s /\ state'[t].semantic_queued)
    BY DiscoverFacts, ZenonT(90)
  <2>4. /\ ~state[t].discovery_done => state[t].remaining = 0
        /\ state[t].discovery_done =>
             /\ state[t].discovery_claimed
             /\ state[t].dependencies = includes[t]
             /\ state[t].remaining = Cardinality(Unparsed(t))
        /\ state[t].semantic_queued => state[t].discovery_done /\ state[t].remaining = 0
        /\ state[t].published => state[t].parsed
        /\ t \in semantic_queue => state[t].semantic_queued
    BY DEF IndInv, SourceInv
  <2>5. CASE t = s
    <3>1. Unparsed(s) = includes[s]
      BY <1>2, <1>3 DEF Unparsed
    <3>2. state[s].discovery_claimed /\ ~state[s].discovery_done
      BY <1>1 DEF IndInv, WaveInv, Discovering
    <3>3. QED
      BY <1>3, <2>1, <2>2, <2>3, <2>4, <2>5, <3>1, <3>2
  <2>6. CASE t # s
    BY <1>3, <2>1, <2>2, <2>3, <2>4, <2>6
  <2>7. QED
    BY <2>5, <2>6
<1>6. WaveInv'
  <2>1. \A t \in wave \cup discovery_queue :
          t \in Sources /\ state[t].discovery_claimed /\ ~state[t].discovery_done
    BY <1>1 DEF IndInv, WaveInv, Discovering, TypeInv
  <2>2. wave \cap discovery_queue = {}
    BY <1>1 DEF IndInv, WaveInv, Discovering
  <2>3. \A t \in wave' \cup discovery_queue' :
          state'[t].discovery_claimed /\ ~state'[t].discovery_done
    <3> SUFFICES ASSUME NEW t \in wave' \cup discovery_queue'
                 PROVE  state'[t].discovery_claimed /\ ~state'[t].discovery_done
      OBVIOUS
    <3>1. CASE t \in (wave \ {s}) \cup discovery_queue
      <4>1. t # s /\ t \in Sources
        BY <1>1, <2>1, <2>2, <3>1
      <4>2. QED
        BY <2>1, <3>1, <4>1, DiscoverFacts
    <3>2. CASE t \in includes[s] /\ ~state[t].discovery_claimed
      <4>1. t # s /\ t \in Sources
        BY <1>1, <1>2, <2>1, <3>2
      <4>2. ~state[t].discovery_done
        BY <3>2, <4>1 DEF IndInv, SourceInv
      <4>3. QED
        BY <3>2, <4>1, <4>2, DiscoverFacts
    <3>3. QED
      BY <1>1, <3>1, <3>2
  <2>4. wave' \cap discovery_queue' = {}
    BY <1>1, <2>1, <2>2
  <2>5. \A t \in Sources : ~state'[t].parse_claimed
    BY <1>3, DiscoverFacts
  <2>6. ~independent'
    BY <1>1, <1>2 DEF IndInv, WorkerInv, Discovering
  <2>7. QED
    BY <1>1, <1>2, <2>3, <2>4, <2>5, <2>6 DEF WaveInv
<1>7. WorkerInv'
  <2>1. Discovering /\ Discovering'
    BY <1>1, <1>2 DEF Discovering
  <2>2. ~independent' /\ phase' # "semantic"
    BY <1>1, <1>2, <2>1 DEF IndInv, WorkerInv
  <2>3. \A w \in Workers : worker'[w] = Off
    BY <1>1, <2>1 DEF IndInv, WorkerInv
  <2>4. QED
    BY <2>2, <2>3, OffTyped DEF WorkerInv, Running
<1>8. QED
  BY <1>4, <1>5, <1>6, <1>7 DEF IndInv

-----------------------------------------------------------------------------
(* Division rounds down.                                                   *)
LEMMA DivisionRounds ==
  ASSUME NEW a \in Nat, NEW b \in Nat \ {0}
  PROVE  a \div b \in Nat /\ b * (a \div b) <= a /\ a < b * (a \div b) + b
OBVIOUS

(* Multiples keep the order.                                               *)
LEMMA Multiples ==
  ASSUME NEW q \in Nat, NEW i \in Nat, NEW b \in Nat \ {0}
  PROVE  /\ i <= q => i * b <= q * b
         /\ i < q => i * b + b <= q * b
         /\ i * b \in Nat /\ q * b = b * q
OBVIOUS

(* A quotient compared without dividing.                                   *)
LEMMA QuotientAtLeast ==
  ASSUME NEW a \in Nat, NEW b \in Nat \ {0}, NEW i \in Nat
  PROVE  i <= a \div b <=> i * b <= a
<1> DEFINE q == a \div b
<1>1. q \in Nat /\ b * q <= a /\ a < b * q + b
  BY DivisionRounds
<1> HIDE DEF q
<1>2. i <= q => i * b <= q * b
  BY <1>1, Multiples
<1>3. q < i => q * b + b <= i * b
  BY <1>1, Multiples
<1>4. q * b = b * q /\ i * b \in Nat /\ q * b \in Nat
  BY <1>1
<1>5. QED
  BY <1>1, <1>2, <1>3, <1>4 DEF q

(* The bounds of a part lie in the whole.                                  *)
LEMMA PartBounds ==
  ASSUME NEW n \in Nat, NEW m \in Nat \ {0}, NEW w \in 1..m
  PROVE  /\ (n * (w - 1)) \div m \in Nat
         /\ (n * w) \div m \in 0..n
<1>1. n * w \in Nat /\ n * (w - 1) \in Nat /\ n * w <= n * m
  OBVIOUS
<1>2. (n * w) \div m \in Nat /\ (n * (w - 1)) \div m \in Nat
  BY <1>1, DivisionRounds
<1>3. ~(n + 1 <= (n * w) \div m)
  <2>1. n + 1 <= (n * w) \div m <=> (n + 1) * m <= n * w
    BY <1>1, QuotientAtLeast
  <2>2. (n + 1) * m = n * m + m
    OBVIOUS
  <2>3. ~((n + 1) * m <= n * w)
    <3>1. n * m \in Nat
      OBVIOUS
    <3>2. QED
      BY <1>1, <2>2, <3>1
  <2>4. QED
    BY <2>1, <2>3
<1>4. QED
  BY <1>2, <1>3

(* Every position of the whole is in one of the parts.                     *)
LEMMA PartsCover ==
  ASSUME NEW n \in Nat, NEW m \in Nat \ {0}, NEW i \in 1..n
  PROVE  \E w \in 1..m : (n * (w - 1)) \div m < i /\ i <= (n * w) \div m
<1> DEFINE a == i * m - 1
           q == a \div n
<1>1. a \in Nat /\ n \in Nat \ {0} /\ i * m \in Nat /\ i * m <= n * m
  OBVIOUS
<1>2. q \in Nat /\ n * q <= a /\ a < n * q + n
  BY <1>1, DivisionRounds
<1>3. n * q < i * m /\ i * m <= n * (q + 1)
  <2>1. n * (q + 1) = n * q + n /\ n * q \in Nat
    BY <1>2
  <2>2. QED
    BY <1>1, <1>2, <2>1
<1> HIDE DEF q, a
<1>4. q + 1 \in 1..m
  <2>1. n * q < n * m
    <3>1. n * q \in Nat /\ n * m \in Nat
      BY <1>2
    <3>2. QED
      BY <1>1, <1>3, <3>1
  <2>2. ~(m <= q)
    <3>1. m <= q => m * n <= q * n
      BY <1>1, <1>2, Multiples
    <3>2. m * n = n * m /\ q * n = n * q /\ n * q \in Nat /\ n * m \in Nat
      BY <1>2
    <3>3. QED
      BY <2>1, <3>1, <3>2
  <2>3. QED
    BY <1>2, <2>2
<1>5. i <= (n * (q + 1)) \div m
  <2>1. n * (q + 1) \in Nat /\ i \in Nat
    BY <1>2
  <2>2. QED
    BY <1>3, <2>1, QuotientAtLeast
<1>6. (n * q) \div m < i
  <2>1. n * q \in Nat /\ i \in Nat
    BY <1>2
  <2>2. ~(i <= (n * q) \div m) /\ (n * q) \div m \in Nat
    <3>1. i <= (n * q) \div m <=> i * m <= n * q
      BY <2>1, QuotientAtLeast
    <3>2. QED
      BY <1>1, <1>3, <2>1, <3>1, DivisionRounds
  <2>3. QED
    BY <2>1, <2>2
<1>7. QED
  <2>1. PICK w \in 1..m : w = q + 1
    BY <1>4
  <2>2. w - 1 = q
    BY <1>2, <2>1
  <2>3. (n * (w - 1)) \div m < i
    BY <1>6, <2>2
  <2>4. i <= (n * w) \div m
    BY <1>5, <2>1
  <2>5. QED
    BY <2>3, <2>4

(* InOrder lists the Sources of a set.                                     *)
LEMMA InOrderLists ==
  ASSUME NEW S \in SUBSET Sources
  PROVE  /\ InOrder(S) \in Seq(S) /\ Len(InOrder(S)) = Cardinality(S)
         /\ \A s \in S : \E i \in 1..Cardinality(S) : InOrder(S)[i] = s
<1> DEFINE n == Cardinality(S)
           upto(s) == {t \in S : t <= s}
           rank == [s \in S |-> Cardinality(upto(s))]
<1>1. n \in Nat /\ IsFiniteSet(S) /\ \A s \in S : s \in Nat
  BY Sizes, SourceFrontendAssumption DEF Sources
<1>2. \A s \in S : IsFiniteSet(upto(s)) /\ Cardinality(upto(s)) \in 1..n
  <2> SUFFICES ASSUME NEW s \in S
               PROVE  IsFiniteSet(upto(s)) /\ Cardinality(upto(s)) \in 1..n
    OBVIOUS
  <2>1. upto(s) \in SUBSET S /\ s \in upto(s) /\ upto(s) \in SUBSET Sources
    <3>1. s \in Nat /\ s <= s
      BY <1>1
    <3>2. QED
      BY <3>1
  <2>2. Cardinality(upto(s)) # 0 /\ Cardinality(upto(s)) \in Nat
    BY <2>1, Sizes
  <2>3. IsFiniteSet(upto(s)) /\ Cardinality(upto(s)) <= n
    BY <1>1, <2>1, FS_Subset
  <2>4. QED
    BY <1>1, <2>2, <2>3
<1>3. \A s, t \in S : rank[s] = rank[t] => s = t
  <2>1. ASSUME NEW s \in S, NEW t \in S, s < t PROVE Cardinality(upto(s)) # Cardinality(upto(t))
    <3>1. upto(s) \in SUBSET upto(t) /\ t \in upto(t) /\ t \notin upto(s)
      <4>1. \A u \in S : u <= s => u <= t
        BY <1>1, <2>1
      <4>2. t <= t /\ ~(t <= s)
        BY <1>1, <2>1
      <4>3. QED
        BY <4>1, <4>2
    <3>2. QED
      BY <1>2, <3>1, FS_Subset
  <2>2. \A s, t \in S : s # t => s < t \/ t < s
    BY <1>1
  <2>3. QED
    BY <2>1, <2>2
<1>4. rank \in Injection(S, 1..n)
  <2>1. rank \in [S -> 1..n]
    BY <1>2
  <2> HIDE DEF rank
  <2>2. QED
    BY <1>3, <2>1 DEF Injection, IsInjective
<1>5. IsFiniteSet(1..n) /\ Cardinality(1..n) = n
  <2>1. /\ IsFiniteSet(1..n)
        /\ Cardinality(1..n) = IF 1 > n THEN 0 ELSE n - 1 + 1
    BY <1>1, FS_Interval
  <2> HIDE DEF n
  <2>2. QED
    BY <1>1, <2>1
<1>6. \A i \in 1..n : \E s \in S : Cardinality(upto(s)) = i
  <2>1. rank \in Surjection(S, 1..n)
    <3> HIDE DEF rank
    <3>1. QED
      BY <1>1, <1>4, <1>5, FS_Injection
  <2>2. \A i \in 1..n : \E s \in S : rank[s] = i
    <3> HIDE DEF rank
    <3>1. QED
      BY <2>1 DEF Surjection
  <2>3. QED
    BY <2>2
<1>7. InOrder(S) = [i \in 1..n |-> CHOOSE s \in S : Cardinality(upto(s)) = i]
  BY DEF InOrder
<1>8. \A i \in 1..n : InOrder(S)[i] \in S /\ Cardinality(upto(InOrder(S)[i])) = i
  BY <1>6, <1>7
<1>9. InOrder(S) \in Seq(S) /\ Len(InOrder(S)) = n
  <2> HIDE DEF n
  <2>1. InOrder(S) \in [1..n -> S]
    BY <1>7, <1>8
  <2>2. QED
    BY <1>1, <2>1
<1>10. ASSUME NEW s \in S PROVE \E i \in 1..n : InOrder(S)[i] = s
  <2> DEFINE i == Cardinality(upto(s))
  <2>1. i \in 1..n
    BY <1>2
  <2>2. InOrder(S)[i] \in S /\ Cardinality(upto(InOrder(S)[i])) = i
    BY <1>8, <2>1
  <2>3. InOrder(S)[i] = s
    BY <1>3, <2>2
  <2>4. QED
    BY <2>1, <2>3
<1>11. QED
  BY <1>9, <1>10

(* The number of threads that are started.                                 *)
LEMMA WorkerCountBounds ==
  /\ WorkerCount \in 0..HardwareThreads
  /\ Semantic # {} => WorkerCount # 0
<1> DEFINE a == Cardinality(Semantic)
<1>1. a \in Nat /\ (a = 0 <=> Semantic = {}) /\ HardwareThreads \in Nat \ {0}
  BY Sizes, SourceFrontendAssumption DEF Semantic
<1>2. \E x \in {a, HardwareThreads} : \A y \in {a, HardwareThreads} : x <= y
  BY <1>1
<1>3. WorkerCount \in {a, HardwareThreads} /\ WorkerCount <= a /\ WorkerCount <= HardwareThreads
  BY <1>2 DEF WorkerCount, Min
<1>4. QED
  BY <1>1, <1>3

(* A static partition holds Sources to be parsed, and each of them is in   *)
(* one.                                                                    *)
LEMMA PartitionFacts ==
  LET parts(w) == Partition(InOrder(Semantic), w) IN
  /\ \A w \in 1..WorkerCount : parts(w) \in Seq(Semantic)
  /\ \A s \in Semantic : \E w \in 1..WorkerCount :
       \E j \in DOMAIN parts(w) : parts(w)[j] = s
<1> DEFINE q == InOrder(Semantic)
           n == Cardinality(Semantic)
           m == WorkerCount
           lo(w) == (n * (w - 1)) \div m
           hi(w) == (n * w) \div m
<1>1. Semantic \in SUBSET Sources /\ n \in Nat /\ m \in Nat
  BY Sizes, WorkerCountBounds, SourceFrontendAssumption DEF Semantic
<1>2. /\ q \in Seq(Semantic) /\ Len(q) = n
      /\ \A s \in Semantic : \E i \in 1..n : q[i] = s
  BY <1>1, InOrderLists
<1>3. \A i \in 1..n : q[i] \in Semantic
  BY <1>2, ElementOfSeq
<1>4. \A w \in 1..m : Partition(q, w) = SubSeq(q, lo(w) + 1, hi(w))
  BY <1>2 DEF Partition
<1> HIDE DEF q, n, m
<1>5. ASSUME NEW w \in 1..m
      PROVE  /\ lo(w) \in Nat /\ hi(w) \in 0..n
             /\ Partition(q, w) \in Seq(Semantic)
             /\ Len(Partition(q, w)) = IF lo(w) + 1 <= hi(w) THEN hi(w) - lo(w) ELSE 0
             /\ \A j \in 1..(hi(w) - lo(w)) : Partition(q, w)[j] = q[lo(w) + j]
  <2>1. m \in Nat \ {0}
    BY <1>1
  <2>2. lo(w) \in Nat /\ hi(w) \in 0..n
    BY <1>1, <2>1, PartBounds
  <2>3. \A j \in (lo(w) + 1)..hi(w) : q[j] \in Semantic
    BY <1>1, <1>3, <2>2
  <2> HIDE DEF lo, hi
  <2>4. /\ SubSeq(q, lo(w) + 1, hi(w)) \in Seq(Semantic)
        /\ Len(SubSeq(q, lo(w) + 1, hi(w))) =
             IF lo(w) + 1 <= hi(w) THEN hi(w) - (lo(w) + 1) + 1 ELSE 0
        /\ \A j \in 1..(hi(w) - (lo(w) + 1) + 1) :
             SubSeq(q, lo(w) + 1, hi(w))[j] = q[lo(w) + 1 + j - 1]
    BY <2>2, <2>3, SubSeqProperties
  <2>5. \A j \in 1..(hi(w) - lo(w)) : lo(w) + 1 + j - 1 = lo(w) + j
    BY <1>1, <2>2
  <2>6. hi(w) - (lo(w) + 1) + 1 = hi(w) - lo(w)
    BY <1>1, <2>2
  <2>7. Partition(q, w) = SubSeq(q, lo(w) + 1, hi(w))
    BY <1>4 DEF lo, hi
  <2>8. QED
    BY <2>2, <2>4, <2>5, <2>6, <2>7
<1>6. ASSUME NEW s \in Semantic
      PROVE  \E w \in 1..m : \E j \in DOMAIN Partition(q, w) : Partition(q, w)[j] = s
  <2>1. PICK i \in 1..n : q[i] = s
    BY <1>2 DEF q, n
  <2>2. m \in Nat \ {0}
    BY <1>1, WorkerCountBounds DEF m
  <2>3. PICK w \in 1..m : lo(w) < i /\ i <= hi(w)
    BY <1>1, <2>2, PartsCover
  <2>4. /\ lo(w) \in Nat /\ hi(w) \in 0..n /\ Partition(q, w) \in Seq(Semantic)
        /\ Len(Partition(q, w)) = IF lo(w) + 1 <= hi(w) THEN hi(w) - lo(w) ELSE 0
        /\ \A j \in 1..(hi(w) - lo(w)) : Partition(q, w)[j] = q[lo(w) + j]
    BY <1>5
  <2> HIDE DEF lo, hi
  <2>5. /\ i - lo(w) \in 1..(hi(w) - lo(w)) /\ lo(w) + (i - lo(w)) = i
        /\ lo(w) + 1 <= hi(w)
    BY <1>1, <2>3, <2>4
  <2>6. DOMAIN Partition(q, w) = 1..(hi(w) - lo(w))
    BY <2>4, <2>5, LenProperties
  <2>7. Partition(q, w)[i - lo(w)] = s
    BY <2>1, <2>4, <2>5
  <2>8. QED
    BY <2>5, <2>6, <2>7
<1>7. QED
  BY <1>5, <1>6 DEF q, m
-----------------------------------------------------------------------------
(* The threads are started: with the static partitions, or looking.        *)
LEMMA StartWorkersIndInv == ASSUME IndInv, StartWorkers PROVE IndInv'
<1>1. /\ phase = "schedule" /\ phase' = "semantic"
      /\ semantic_remaining' = Cardinality(Semantic)
      /\ UNCHANGED <<inputs, wave, slots, discovery_queue, failed>>
  BY DEF StartWorkers
<1>2. independent' \in BOOLEAN /\ (independent' <=> Independent)
  BY DEF StartWorkers, Independent
<1>3. /\ \A s \in Sources : ~state[s].parse_claimed /\ ~state[s].parsed
      /\ Semantic = {s \in Sources : state[s].discovery_done}
      /\ \A s \in Semantic : state[s].dependencies = includes[s]
  BY <1>1 DEF IndInv, WaveInv, SourceInv, Discovering, Semantic
<1>4. Semantic \in SUBSET Sources /\ Cardinality(Semantic) \in 0..NumSources
  BY Sizes, SourceFrontendAssumption DEF Semantic
<1>5. CASE Independent
  <2>1. /\ semantic_queue' = {}
        /\ state' = [s \in Sources |->
                       IF s \in Semantic
                       THEN [state[s] EXCEPT !.semantic_queued = FALSE,
                                             !.parse_claimed = TRUE]
                       ELSE state[s]]
        /\ worker' = [w \in Workers |->
                        IF w <= WorkerCount
                        THEN [pc |-> "static", source |-> 0,
                              partition |-> Partition(InOrder(Semantic), w)]
                        ELSE Off]
    BY <1>5 DEF StartWorkers
  <2>2. ASSUME NEW s \in Sources
        PROVE  /\ state'[s] \in StateType
               /\ state'[s].discovery_claimed <=> state[s].discovery_claimed
               /\ state'[s].discovery_done <=> state[s].discovery_done
               /\ state'[s].dependencies = state[s].dependencies
               /\ state'[s].dependents = state[s].dependents
               /\ state'[s].remaining = state[s].remaining
               /\ ~state'[s].parsed
               /\ state'[s].published <=> state[s].published
               /\ state'[s].parse_claimed <=> s \in Semantic
               /\ state'[s].semantic_queued <=> s \notin Semantic /\ state[s].semantic_queued
    <3>1. state[s] \in StateType
      BY DEF IndInv, TypeInv
    <3>2. QED
      BY <1>3, <2>1, <3>1 DEF StateType
  <2>3. ASSUME NEW w \in Workers
        PROVE  /\ worker'[w] \in WorkerType /\ worker'[w].source = 0
               /\ \/ worker'[w].pc = "off"
                  \/ /\ worker'[w].pc = "static"
                     /\ \A i \in DOMAIN worker'[w].partition :
                          worker'[w].partition[i] \in Semantic
    <3>1. CASE w <= WorkerCount
      <4> DEFINE q == Partition(InOrder(Semantic), w)
      <4>1. w \in 1..WorkerCount
        BY <3>1, WorkerCountBounds, SourceFrontendAssumption DEF Workers
      <4>2. q \in Seq(Semantic)
        BY <4>1, PartitionFacts
      <4>3. \A i \in DOMAIN q : q[i] \in Semantic
        BY <4>2, ElementOfSeq
      <4>4. q \in Seq(Sources)
        BY <1>4, <4>2
      <4>5. worker'[w] = [pc |-> "static", source |-> 0, partition |-> q]
        BY <2>1, <3>1
      <4> HIDE DEF q
      <4>6. QED
        BY <4>3, <4>4, <4>5, SourceFrontendAssumption DEF WorkerType
    <3>2. CASE ~(w <= WorkerCount)
      BY <2>1, <3>2, OffTyped
    <3>3. QED
      BY <3>1, <3>2
  <2>4. TypeInv'
    <3>1. state' \in [Sources -> StateType]
      BY <2>1, <2>2
    <3>2. worker' \in [Workers -> WorkerType]
      BY <2>1, <2>3
    <3>3. QED
      BY <1>1, <1>2, <1>4, <2>1, <3>1, <3>2 DEF IndInv, TypeInv, inputs
  <2>5. SourceInv'
    <3>1. \A s \in Sources : Unparsed(s)' = Unparsed(s)
      BY <1>1, <1>3, <2>2 DEF Unparsed, inputs, IndInv, TypeInv
    <3>2. \A s \in Semantic : state[s].remaining = 0
      BY <1>5 DEF Independent
    <3>3. \A s \in Sources : state[s].semantic_queued => s \in Semantic
      BY <1>3 DEF IndInv, SourceInv
    <3>4. includes' = includes
      BY <1>1 DEF inputs
    <3>5. ASSUME NEW s \in Sources
          PROVE  state'[s].dependents =
                   {t \in Sources : state'[t].discovery_done /\ s \in includes'[t]}
      <4>1. state[s].dependents = {t \in Sources : state[t].discovery_done /\ s \in includes[t]}
        BY DEF IndInv, SourceInv
      <4>2. \A t \in Sources : state'[t].discovery_done <=> state[t].discovery_done
        BY <2>2
      <4>3. QED
        BY <2>2, <3>4, <4>1, <4>2
    <3>6. ASSUME NEW s \in Sources
          PROVE  /\ ~state[s].discovery_done => state[s].remaining = 0
                 /\ state[s].discovery_done =>
                      /\ state[s].discovery_claimed
                      /\ state[s].dependencies = includes[s]
                      /\ state[s].remaining = Cardinality(Unparsed(s))
                 /\ state[s].published => state[s].parsed
      BY DEF IndInv, SourceInv
    <3>7. ASSUME NEW s \in Sources
          PROVE  /\ ~state'[s].discovery_done => state'[s].remaining = 0
                 /\ state'[s].discovery_done =>
                      /\ state'[s].discovery_claimed
                      /\ state'[s].dependencies = includes'[s]
                      /\ state'[s].remaining = Cardinality(Unparsed(s)')
                 /\ state'[s].semantic_queued \/ state'[s].parse_claimed =>
                      state'[s].discovery_done /\ state'[s].remaining = 0
                 /\ state'[s].semantic_queued => ~state'[s].parse_claimed
                 /\ state'[s].parsed => state'[s].parse_claimed
                 /\ state'[s].published => state'[s].parsed
                 /\ s \in semantic_queue' => state'[s].semantic_queued
      <4>1. Unparsed(s)' = Unparsed(s) /\ (s \in Semantic => state[s].remaining = 0)
            /\ (s \in Semantic => state[s].discovery_done)
        BY <1>3, <3>1, <3>2
      <4>2. QED
        BY <1>3, <2>1, <2>2, <3>3, <3>4, <3>6, <4>1, ZenonT(90)
    <3>8. QED
      BY <3>5, <3>7 DEF SourceInv
  <2>6. WaveInv'
    BY <1>1, <2>1 DEF WaveInv, Discovering
  <2>7. WorkerInv'
    <3>1. independent' /\ ~Discovering'
      BY <1>1, <1>2, <1>5 DEF Discovering
    <3>2. \A s \in Sources : state'[s].discovery_done => includes'[s] = {}
      BY <1>1, <1>3, <1>5, <2>2 DEF Independent, inputs
    <3>3. \A w \in Workers :
            worker'[w].pc = "static" =>
              \A i \in DOMAIN worker'[w].partition :
                state'[worker'[w].partition[i]].parse_claimed
      BY <1>4, <2>2, <2>3
    <3>4. QED
      BY <1>1, <2>3, <3>1, <3>2, <3>3 DEF WorkerInv, Running
  <2>8. QED
    BY <2>4, <2>5, <2>6, <2>7 DEF IndInv
<1>6. CASE ~Independent
  <2>1. /\ UNCHANGED <<state, semantic_queue>>
        /\ worker' = [w \in Workers |-> IF w <= WorkerCount
                                        THEN [Off EXCEPT !.pc = "looking"] ELSE Off]
    BY <1>6 DEF StartWorkers
  <2>2. \A w \in Workers :
          /\ worker'[w] \in WorkerType /\ worker'[w].source = 0
          /\ worker'[w].pc \in {"off", "looking"}
    BY <2>1, OffTyped DEF WorkerType
  <2>3. TypeInv'
    <3>1. worker' \in [Workers -> WorkerType]
      BY <2>1, <2>2
    <3>2. QED
      BY <1>1, <1>2, <1>4, <2>1, <3>1 DEF IndInv, TypeInv, inputs
  <2>4. SourceInv'
    BY <1>1, <2>1, SourcesKept DEF inputs
  <2>5. WaveInv'
    BY <1>1, <1>2, <1>6 DEF WaveInv, Discovering
  <2>6. WorkerInv'
    <3>1. Semantic' = Semantic
      BY <2>1 DEF Semantic
    <3>2. QED
      BY <1>1, <1>2, <1>6, <2>2, <3>1 DEF WorkerInv, Running, Discovering
  <2>7. QED
    BY <2>3, <2>4, <2>5, <2>6 DEF IndInv
<1>7. QED
  BY <1>5, <1>6
-----------------------------------------------------------------------------
(* A step of a thread that changes nothing but where the thread is.        *)
LEMMA ThreadMoves ==
  ASSUME IndInv, NEW w \in Workers, NEW x,
         worker' = [worker EXCEPT ![w].pc = x],
         \/ x = "exited" /\ worker[w].pc # "off"
         \/ worker[w].pc = "looking" /\ x = "waiting"
         \/ worker[w].pc = "claimed" /\ x = "parsing",
         UNCHANGED <<inputs, phase, wave, slots, discovery_queue, state,
                     semantic_queue, semantic_remaining, independent, failed>>
  PROVE  IndInv'
<1>1. \A v \in Workers : worker[v] \in WorkerType
  BY DEF IndInv, TypeInv
<1>2. /\ worker' \in [Workers -> WorkerType]
      /\ \A v \in Workers :
           /\ worker'[v].source = worker[v].source
           /\ worker'[v].partition = worker[v].partition
           /\ worker'[v].pc = IF v = w THEN x ELSE worker[v].pc
  BY <1>1 DEF IndInv, TypeInv, WorkerType
<1>3. ~Discovering
  BY OffTyped DEF IndInv, WorkerInv
<1>4. TypeInv'
  BY <1>2 DEF IndInv, TypeInv, inputs
<1>5. SourceInv'
  BY SourcesKept DEF inputs
<1>6. WaveInv'
  BY DEF IndInv, WaveInv, Discovering
<1>7. WorkerInv'
  BY <1>2, <1>3, WorkersKept DEF inputs
<1>8. QED
  BY <1>4, <1>5, <1>6, <1>7 DEF IndInv

(* A thread that calls fail_locked and leaves.                             *)
LEMMA ThreadFails ==
  ASSUME IndInv, NEW w \in Workers, worker[w].pc \notin {"off", "exited"},
         FailLocked([worker EXCEPT ![w].pc = "exited"]),
         UNCHANGED <<inputs, phase, wave, slots, state, semantic_remaining, independent>>
  PROVE  IndInv'
<1> DEFINE ws == [worker EXCEPT ![w].pc = "exited"]
<1>1. \A v \in Workers : worker[v] \in WorkerType
  BY DEF IndInv, TypeInv
<1>2. /\ ws \in [Workers -> WorkerType]
      /\ \A v \in Workers :
           /\ ws[v].source = worker[v].source /\ ws[v].partition = worker[v].partition
           /\ ws[v].pc = worker[v].pc \/ (ws[v].pc = "exited" /\ worker[v].pc # "off")
  BY <1>1 DEF IndInv, TypeInv, WorkerType
<1>3. phase = "semantic"
  BY DEF IndInv, WorkerInv, Running
<1> HIDE DEF ws
<1>4. FailLocked(ws)
  BY DEF ws
<1>5. QED
  BY <1>2, <1>3, <1>4, FailIndInv

(* A step that changes only the flags of the parse.                        *)
LEMMA FlagsChange ==
  ASSUME IndInv, includes' = includes,
         \A t \in Sources :
           /\ state'[t].discovery_claimed <=> state[t].discovery_claimed
           /\ state'[t].discovery_done <=> state[t].discovery_done
           /\ state'[t].dependencies = state[t].dependencies
           /\ state'[t].dependents = state[t].dependents
           /\ state'[t].remaining = state[t].remaining,
         \A t \in Sources : state[t].discovery_done => Unparsed(t)' = Unparsed(t),
         \A t \in Sources :
           /\ state'[t].semantic_queued \/ state'[t].parse_claimed =>
                state[t].semantic_queued \/ state[t].parse_claimed
           /\ state'[t].semantic_queued => ~state'[t].parse_claimed
           /\ state'[t].parsed => state'[t].parse_claimed
           /\ state'[t].published => state'[t].parsed
           /\ t \in semantic_queue' => state'[t].semantic_queued
  PROVE  SourceInv'
<1>1. ASSUME NEW s \in Sources
      PROVE  state'[s].dependents =
               {t \in Sources : state'[t].discovery_done /\ s \in includes'[t]}
  <2>1. state[s].dependents = {t \in Sources : state[t].discovery_done /\ s \in includes[t]}
    BY DEF IndInv, SourceInv
  <2>2. \A t \in Sources : state'[t].discovery_done <=> state[t].discovery_done
    OBVIOUS
  <2>3. state'[s].dependents = state[s].dependents
    OBVIOUS
  <2>4. QED
    BY <2>1, <2>2, <2>3
<1>2. ASSUME NEW s \in Sources
      PROVE  /\ ~state'[s].discovery_done => state'[s].remaining = 0
             /\ state'[s].discovery_done =>
                  /\ state'[s].discovery_claimed
                  /\ state'[s].dependencies = includes'[s]
                  /\ state'[s].remaining = Cardinality(Unparsed(s)')
             /\ state'[s].semantic_queued \/ state'[s].parse_claimed =>
                  state'[s].discovery_done /\ state'[s].remaining = 0
  <2>1. /\ ~state[s].discovery_done => state[s].remaining = 0
        /\ state[s].discovery_done =>
             /\ state[s].discovery_claimed
             /\ state[s].dependencies = includes[s]
             /\ state[s].remaining = Cardinality(Unparsed(s))
        /\ state[s].semantic_queued \/ state[s].parse_claimed =>
             state[s].discovery_done /\ state[s].remaining = 0
    BY DEF IndInv, SourceInv
  <2>2. QED
    BY <2>1
<1>3. QED
  BY <1>1, <1>2 DEF SourceInv

(* A thread parses the next Source of its partition.                       *)
LEMMA ParseIndependentIndInv ==
  ASSUME IndInv, NEW w \in Workers, ParseIndependent(w) PROVE IndInv'
<1> DEFINE q == worker[w].partition
           s == Head(q)
<1>1. /\ worker[w].pc = "static" /\ q # <<>>
      /\ state' = [state EXCEPT ![s].parsed = TRUE]
      /\ worker' = [worker EXCEPT ![w].partition = Tail(q)]
      /\ UNCHANGED <<inputs, phase, wave, slots, discovery_queue,
                     semantic_queue, semantic_remaining, failed, independent>>
  BY DEF ParseIndependent
<1>2. phase = "semantic" /\ independent
  BY <1>1 DEF IndInv, WorkerInv, Running
<1>3. q \in Seq(Sources) /\ worker[w] \in WorkerType
  BY DEF IndInv, TypeInv, WorkerType
<1>4. /\ Len(q) \in Nat \ {0} /\ DOMAIN q = 1..Len(q) /\ s = q[1] /\ s \in Sources
      /\ Tail(q) \in Seq(Sources) /\ DOMAIN Tail(q) = 1..(Len(q) - 1)
      /\ \A i \in 1..(Len(q) - 1) : Tail(q)[i] = q[i + 1]
  <2> HIDE DEF q
  <2>1. QED
    BY <1>1, <1>3, EmptySeq, HeadTailProperties, LenProperties DEF q
<1>5. \A i \in DOMAIN q : state[q[i]].parse_claimed
  BY <1>1 DEF IndInv, WorkerInv
<1>6. state[s].parse_claimed
  BY <1>4, <1>5
<1> HIDE DEF q, s
<1>7. ASSUME NEW t \in Sources
      PROVE  /\ state'[t] \in StateType
             /\ state'[t].discovery_claimed <=> state[t].discovery_claimed
             /\ state'[t].discovery_done <=> state[t].discovery_done
             /\ state'[t].dependencies = state[t].dependencies
             /\ state'[t].dependents = state[t].dependents
             /\ state'[t].remaining = state[t].remaining
             /\ state'[t].semantic_queued <=> state[t].semantic_queued
             /\ state'[t].parse_claimed <=> state[t].parse_claimed
             /\ state'[t].parsed <=> state[t].parsed \/ t = s
             /\ state'[t].published <=> state[t].published
  <2>1. state[t] \in StateType /\ state \in [Sources -> StateType]
    BY DEF IndInv, TypeInv
  <2>2. QED
    BY <1>1, <2>1 DEF StateType
<1>8. \A v \in Workers :
        /\ worker'[v] \in WorkerType
        /\ worker'[v].pc = worker[v].pc /\ worker'[v].source = worker[v].source
        /\ worker'[v].partition = IF v = w THEN Tail(q) ELSE worker[v].partition
  <2>1. worker \in [Workers -> WorkerType]
    BY DEF IndInv, TypeInv
  <2>2. QED
    BY <1>1, <1>4, <2>1 DEF WorkerType
<1>9. TypeInv'
  <2>1. state' \in [Sources -> StateType] /\ worker' \in [Workers -> WorkerType]
    BY <1>1, <1>7, <1>8 DEF IndInv, TypeInv
  <2>2. QED
    BY <1>1, <2>1 DEF IndInv, TypeInv, inputs
<1>10. includes' = includes
  BY <1>1 DEF inputs
<1>11. SourceInv'
  <2>1. \A t \in Sources : state[t].discovery_done => Unparsed(t) = {} /\ Unparsed(t)' = {}
    BY <1>2, <1>10 DEF IndInv, WorkerInv, Unparsed
  <2>2. ASSUME NEW t \in Sources
        PROVE  /\ state'[t].semantic_queued \/ state'[t].parse_claimed =>
                    state[t].semantic_queued \/ state[t].parse_claimed
               /\ state'[t].semantic_queued => ~state'[t].parse_claimed
               /\ state'[t].parsed => state'[t].parse_claimed
               /\ state'[t].published => state'[t].parsed
               /\ t \in semantic_queue' => state'[t].semantic_queued
    <3>1. /\ state[t].semantic_queued => ~state[t].parse_claimed
          /\ state[t].parsed => state[t].parse_claimed
          /\ state[t].published => state[t].parsed
          /\ t \in semantic_queue => state[t].semantic_queued
      BY DEF IndInv, SourceInv
    <3>2. QED
      BY <1>1, <1>6, <1>7, <3>1
  <2>3. QED
    BY <1>7, <1>10, <2>1, <2>2, FlagsChange
<1>12. WaveInv'
  BY <1>1, <1>2 DEF IndInv, WaveInv, Discovering
<1>13. WorkerInv'
  <2>1. \A v \in Workers :
          /\ worker'[v].source = 0
          /\ worker'[v].pc \in {"off", "exited", "static"}
          /\ Running(v)' => Running(v)
    <3>1. \A v \in Workers : worker[v].source = 0 /\ worker[v].pc \in {"off", "exited", "static"}
      BY <1>2 DEF IndInv, WorkerInv, Running
    <3>2. QED
      BY <1>8, <3>1 DEF Running
  <2>2. ASSUME NEW v \in Workers, worker'[v].pc = "static",
               NEW i \in DOMAIN worker'[v].partition
        PROVE  state'[worker'[v].partition[i]].parse_claimed
    <3>1. CASE v = w
      <4>1. i \in 1..(Len(q) - 1) /\ worker'[v].partition[i] = q[i + 1]
        BY <1>4, <1>8, <2>2, <3>1
      <4>2. i + 1 \in DOMAIN q
        BY <1>4, <4>1
      <4>3. state[q[i + 1]].parse_claimed /\ q[i + 1] \in Sources
        BY <1>3, <1>5, <4>2, ElementOfSeq DEF q
      <4>4. QED
        BY <1>7, <4>1, <4>3
    <3>2. CASE v # w
      <4> DEFINE p == worker[v].partition
      <4>1. worker'[v].partition = p /\ worker[v].pc = "static" /\ i \in DOMAIN p
        BY <1>8, <2>2, <3>2
      <4>2. p \in Seq(Sources)
        BY DEF IndInv, TypeInv, WorkerType
      <4>3. state[p[i]].parse_claimed /\ p[i] \in Sources
        BY <4>1, <4>2, ElementOfSeq DEF IndInv, WorkerInv
      <4>4. QED
        BY <1>7, <4>1, <4>3
    <3>3. QED
      BY <3>1, <3>2
  <2>3. \A t \in Sources : state'[t].discovery_done => includes'[t] = {}
    BY <1>2, <1>7, <1>10 DEF IndInv, WorkerInv
  <2>4. ~Discovering' /\ phase' = "semantic" /\ independent'
    BY <1>1, <1>2 DEF Discovering
  <2>5. QED
    BY <2>1, <2>2, <2>3, <2>4 DEF WorkerInv, Running
<1>14. QED
  BY <1>9, <1>11, <1>12, <1>13 DEF IndInv
-----------------------------------------------------------------------------
(* The step of Look in which a thread claims a ready Source.               *)
Claim(w, s) ==
  /\ worker[w].pc = "looking"
  /\ s \in semantic_queue
  /\ semantic_queue' = semantic_queue \ {s}
  /\ state' = [state EXCEPT ![s].semantic_queued = FALSE, ![s].parse_claimed = TRUE]
  /\ worker' = [worker EXCEPT ![w].pc = "claimed", ![w].source = s]
  /\ UNCHANGED <<inputs, phase, wave, slots, discovery_queue,
                 semantic_remaining, failed, independent>>

(* A Source is claimed by one thread.                                      *)
LEMMA ClaimIndInv ==
  ASSUME IndInv, NEW w \in Workers, NEW s, Claim(w, s) PROVE IndInv'
<1>1. s \in Sources /\ phase = "semantic" /\ ~independent
      /\ s \in semantic_queue /\ semantic_queue' = semantic_queue \ {s}
      /\ UNCHANGED <<inputs, phase, wave, slots, discovery_queue,
                     semantic_remaining, failed, independent>>
  BY DEF IndInv, TypeInv, WorkerInv, Running, Claim
<1>2. /\ state[s].semantic_queued /\ state[s].discovery_done /\ state[s].remaining = 0
      /\ ~state[s].parse_claimed /\ ~state[s].parsed /\ ~state[s].published
  BY <1>1 DEF IndInv, SourceInv
<1>3. ASSUME NEW t \in Sources
      PROVE  /\ state'[t] \in StateType
             /\ state'[t].discovery_claimed <=> state[t].discovery_claimed
             /\ state'[t].discovery_done <=> state[t].discovery_done
             /\ state'[t].dependencies = state[t].dependencies
             /\ state'[t].dependents = state[t].dependents
             /\ state'[t].remaining = state[t].remaining
             /\ state'[t].semantic_queued <=> state[t].semantic_queued /\ t # s
             /\ state'[t].parse_claimed <=> state[t].parse_claimed \/ t = s
             /\ state'[t].parsed <=> state[t].parsed
             /\ state'[t].published <=> state[t].published
  <2>1. state[t] \in StateType /\ state \in [Sources -> StateType]
    BY DEF IndInv, TypeInv
  <2>2. QED
    BY <2>1 DEF StateType, Claim
<1>4. \A v \in Workers :
        /\ worker'[v] \in WorkerType
        /\ worker'[v].pc = IF v = w THEN "claimed" ELSE worker[v].pc
        /\ worker'[v].source = IF v = w THEN s ELSE worker[v].source
        /\ worker'[v].partition = worker[v].partition
  <2>1. worker \in [Workers -> WorkerType] /\ s \in 0..NumSources
    BY <1>1, SourceFrontendAssumption DEF IndInv, TypeInv, Sources
  <2>2. QED
    BY <2>1 DEF WorkerType, Claim
<1>5. includes' = includes
  BY <1>1 DEF inputs
<1>6. TypeInv'
  <2>1. state' \in [Sources -> StateType] /\ worker' \in [Workers -> WorkerType]
    BY <1>3, <1>4 DEF IndInv, TypeInv, Claim
  <2>2. QED
    BY <1>1, <2>1 DEF IndInv, TypeInv, inputs
<1>7. SourceInv'
  <2>1. \A t \in Sources : Unparsed(t)' = Unparsed(t)
    BY <1>3, <1>5 DEF Unparsed, IndInv, TypeInv
  <2>2. ASSUME NEW t \in Sources
        PROVE  /\ state'[t].semantic_queued \/ state'[t].parse_claimed =>
                    state[t].semantic_queued \/ state[t].parse_claimed
               /\ state'[t].semantic_queued => ~state'[t].parse_claimed
               /\ state'[t].parsed => state'[t].parse_claimed
               /\ state'[t].published => state'[t].parsed
               /\ t \in semantic_queue' => state'[t].semantic_queued
    <3>1. /\ state[t].semantic_queued => ~state[t].parse_claimed
          /\ state[t].parsed => state[t].parse_claimed
          /\ state[t].published => state[t].parsed
          /\ t \in semantic_queue => state[t].semantic_queued
      BY DEF IndInv, SourceInv
    <3>2. QED
      BY <1>1, <1>2, <1>3, <3>1
  <2>3. QED
    BY <1>3, <1>5, <2>1, <2>2, FlagsChange
<1>8. WaveInv'
  BY <1>1 DEF IndInv, WaveInv, Discovering
<1>9. WorkerInv'
  <2>1. \A v \in Workers :
          /\ worker[v].source \in Sources \cup {0}
          /\ worker[v].source # 0 => state[worker[v].source].parse_claimed
          /\ worker[v].source # s
    <3>1. \A v \in Workers :
            worker[v].source # 0 => state[worker[v].source].parse_claimed
      BY DEF IndInv, WorkerInv
    <3>2. s # 0 /\ \A v \in Workers : worker[v].source \in Sources \cup {0}
      BY <1>1, SourceFrontendAssumption DEF IndInv, TypeInv, WorkerType, Sources
    <3>3. QED
      BY <1>2, <3>1, <3>2
  <2>2. \A v, u \in Workers :
          v # u /\ worker'[v].source # 0 => worker'[v].source # worker'[u].source
    <3>1. \A v, u \in Workers :
            v # u /\ worker[v].source # 0 => worker[v].source # worker[u].source
      BY DEF IndInv, WorkerInv
    <3>2. QED
      BY <1>4, <2>1, <3>1
  <2>3. ASSUME NEW v \in Workers
        PROVE  /\ worker'[v].source # 0 => state'[worker'[v].source].parse_claimed
               /\ worker'[v].pc \in {"claimed", "parsing"} =>
                    worker'[v].source # 0 /\ ~state'[worker'[v].source].parsed
               /\ worker'[v].pc # "static"
    <3>1. CASE v = w
      <4>1. s # 0
        BY <1>1, SourceFrontendAssumption DEF Sources
      <4>2. QED
        BY <1>1, <1>2, <1>3, <1>4, <3>1, <4>1
    <3>2. CASE v # w
      <4>1. /\ worker[v].pc \in {"claimed", "parsing"} =>
                 worker[v].source # 0 /\ ~state[worker[v].source].parsed
            /\ worker[v].pc # "static"
        BY <1>1 DEF IndInv, WorkerInv, Running
      <4>2. QED
        BY <1>3, <1>4, <2>1, <3>2, <4>1
    <3>3. QED
      BY <3>1, <3>2
  <2>4. ~Discovering' /\ phase' = "semantic" /\ ~independent'
    BY <1>1 DEF Discovering
  <2>5. Semantic' = Semantic
    BY <1>3 DEF Semantic
  <2>6. semantic_remaining' = Cardinality(Semantic')
    BY <1>1, <2>5 DEF IndInv, WorkerInv
  <2>7. QED
    BY <2>2, <2>3, <2>4, <2>6 DEF WorkerInv, Running
<1>10. QED
  BY <1>6, <1>7, <1>8, <1>9 DEF IndInv

(* A thread looks: it leaves, claims a Source, or waits.                   *)
LEMMA LookIndInv == ASSUME IndInv, NEW w \in Workers, Look(w) PROVE IndInv'
<1>1. /\ worker[w].pc = "looking"
      /\ UNCHANGED <<inputs, phase, wave, slots, discovery_queue,
                     semantic_remaining, failed, independent>>
  BY DEF Look
<1>2. CASE worker' = [worker EXCEPT ![w].pc = "exited"] /\ UNCHANGED <<state, semantic_queue>>
  BY <1>1, <1>2, ThreadMoves
<1>3. CASE worker' = [worker EXCEPT ![w].pc = "waiting"] /\ UNCHANGED <<state, semantic_queue>>
  BY <1>1, <1>3, ThreadMoves
<1>4. CASE \E s \in semantic_queue :
             /\ semantic_queue' = semantic_queue \ {s}
             /\ state' = [state EXCEPT ![s].semantic_queued = FALSE,
                                       ![s].parse_claimed = TRUE]
             /\ worker' = [worker EXCEPT ![w].pc = "claimed", ![w].source = s]
  BY <1>1, <1>4, ClaimIndInv DEF Claim
<1>5. QED
  BY <1>2, <1>3, <1>4 DEF Look

(* A thread begins to parse, or finds an interface missing.                *)
LEMMA ParseBeginIndInv == ASSUME IndInv, NEW w \in Workers, ParseBegin(w) PROVE IndInv'
<1>1. /\ worker[w].pc = "claimed"
      /\ UNCHANGED <<inputs, phase, wave, slots, state, semantic_remaining, independent>>
  BY DEF ParseBegin
<1>2. CASE /\ worker' = [worker EXCEPT ![w].pc = "exited"]
           /\ UNCHANGED <<discovery_queue, semantic_queue, failed>>
  BY <1>1, <1>2, ThreadMoves
<1>3. CASE /\ worker' = [worker EXCEPT ![w].pc = "parsing"]
           /\ UNCHANGED <<discovery_queue, semantic_queue, failed>>
  BY <1>1, <1>3, ThreadMoves
<1>4. CASE FailLocked([worker EXCEPT ![w].pc = "exited"])
  BY <1>1, <1>4, ThreadFails
<1>5. QED
  BY <1>2, <1>3, <1>4 DEF ParseBegin
-----------------------------------------------------------------------------
(* A parse that ends: what changes in whose state.                         *)
LEMMA ParseEndFacts ==
  ASSUME IndInv, NEW w \in Workers, ParseEnd(w), NEW s, s = worker[w].source
  PROVE  /\ s \in Sources /\ phase = "semantic" /\ ~independent
         /\ state[s].parse_claimed /\ ~state[s].parsed /\ state[s].discovery_done
         /\ state' \in [Sources -> StateType] /\ semantic_queue' \in SUBSET Sources
         /\ \A t \in Sources :
              /\ state'[t].discovery_claimed <=> state[t].discovery_claimed
              /\ state'[t].discovery_done <=> state[t].discovery_done
              /\ state'[t].dependencies = state[t].dependencies
              /\ state'[t].dependents = state[t].dependents
              /\ state'[t].remaining = IF t \in state[s].dependents /\ state[t].remaining # 0
                                       THEN state[t].remaining - 1 ELSE state[t].remaining
              /\ state'[t].parse_claimed <=> state[t].parse_claimed
              /\ state'[t].parsed <=> state[t].parsed \/ t = s
              /\ state'[t].published <=> state[t].published
              /\ state[t].semantic_queued => state'[t].semantic_queued
              /\ state'[t].semantic_queued /\ ~state[t].semantic_queued =>
                   /\ state[t].discovery_done /\ state'[t].remaining = 0
                   /\ ~state[t].parse_claimed
              /\ t \in semantic_queue' /\ t \notin semantic_queue =>
                   state'[t].semantic_queued
<1> DEFINE st == Released(s)
           ready == IF failed THEN {} ELSE {t \in state[s].dependents : Ready(st, t)}
<1>1. worker[w].pc = "parsing" /\ EnqueueReadyLocked(st, state[s].dependents)
  BY DEF ParseEnd
<1>2. s \in Sources /\ phase = "semantic" /\ ~independent
      /\ state[s].parse_claimed /\ ~state[s].parsed
  <2>1. /\ s # 0 /\ ~state[s].parsed /\ state[s].parse_claimed
        /\ phase = "semantic" /\ ~independent
    BY <1>1 DEF IndInv, WorkerInv, Running
  <2>2. s \in Sources
    BY <2>1, SourceFrontendAssumption DEF IndInv, TypeInv, WorkerType, Sources
  <2>3. QED
    BY <2>1, <2>2
<1>3. state[s].discovery_done /\ state[s].dependents \in SUBSET Sources
  BY <1>2 DEF IndInv, TypeInv, SourceInv, StateType
<1>4. ASSUME NEW t \in Sources
      PROVE  /\ st[t] \in StateType
             /\ st[t].discovery_claimed <=> state[t].discovery_claimed
             /\ st[t].discovery_done <=> state[t].discovery_done
             /\ st[t].dependencies = state[t].dependencies
             /\ st[t].dependents = state[t].dependents
             /\ st[t].remaining = IF t \in state[s].dependents /\ state[t].remaining # 0
                                  THEN state[t].remaining - 1 ELSE state[t].remaining
             /\ st[t].parse_claimed <=> state[t].parse_claimed
             /\ st[t].parsed <=> state[t].parsed \/ t = s
             /\ st[t].published <=> state[t].published
             /\ st[t].semantic_queued <=> state[t].semantic_queued
  <2>1. state[t] \in StateType
    BY DEF IndInv, TypeInv
  <2> DEFINE a == state[t].parsed \/ t = s
             b == IF t \in state[s].dependents /\ state[t].remaining # 0
                  THEN state[t].remaining - 1 ELSE state[t].remaining
  <2>2. st[t] = [state[t] EXCEPT !.parsed = a, !.remaining = b]
    BY DEF Released
  <2>3. a \in BOOLEAN /\ (a <=> state[t].parsed \/ t = s)
    OBVIOUS
  <2>4. b \in Nat
    BY <2>1 DEF StateType
  <2> HIDE DEF a, st
  <2>5. /\ st[t] \in StateType /\ st[t].parsed = a /\ st[t].remaining = b
        /\ st[t].discovery_claimed = state[t].discovery_claimed
        /\ st[t].discovery_done = state[t].discovery_done
        /\ st[t].dependencies = state[t].dependencies
        /\ st[t].dependents = state[t].dependents
        /\ st[t].parse_claimed = state[t].parse_claimed
        /\ st[t].published = state[t].published
        /\ st[t].semantic_queued = state[t].semantic_queued
    <3> HIDE DEF b
    <3>1. QED
      BY <2>1, <2>2, <2>3, <2>4 DEF StateType
  <2>6. QED
    BY <2>3, <2>5
<1>5. /\ state' = [t \in Sources |-> IF t \in ready
                                     THEN [st[t] EXCEPT !.semantic_queued = TRUE]
                                     ELSE st[t]]
      /\ semantic_queue' = semantic_queue \cup ready
  BY <1>1 DEF EnqueueReadyLocked
<1>6. \A t \in ready : /\ t \in Sources
                       /\ st[t].discovery_done /\ st[t].remaining = 0
                       /\ ~st[t].parse_claimed
  BY <1>3 DEF Ready
<1> HIDE DEF st, ready
<1>7. ASSUME NEW t \in Sources
      PROVE  /\ state'[t] \in StateType
             /\ state'[t].discovery_claimed <=> st[t].discovery_claimed
             /\ state'[t].discovery_done <=> st[t].discovery_done
             /\ state'[t].dependencies = st[t].dependencies
             /\ state'[t].dependents = st[t].dependents
             /\ state'[t].remaining = st[t].remaining
             /\ state'[t].parse_claimed <=> st[t].parse_claimed
             /\ state'[t].parsed <=> st[t].parsed
             /\ state'[t].published <=> st[t].published
             /\ state'[t].semantic_queued <=> st[t].semantic_queued \/ t \in ready
  <2>1. st[t] \in StateType
    BY <1>4
  <2>2. state'[t] = IF t \in ready THEN [st[t] EXCEPT !.semantic_queued = TRUE] ELSE st[t]
    BY <1>5
  <2>3. QED
    BY <2>1, <2>2 DEF StateType
<1>8. state' \in [Sources -> StateType]
  BY <1>5, <1>7
<1>9. semantic_queue' \in SUBSET Sources
  BY <1>5, <1>6 DEF IndInv, TypeInv
<1>10. ASSUME NEW t \in Sources
       PROVE  /\ state'[t].discovery_claimed <=> state[t].discovery_claimed
              /\ state'[t].discovery_done <=> state[t].discovery_done
              /\ state'[t].dependencies = state[t].dependencies
              /\ state'[t].dependents = state[t].dependents
              /\ state'[t].remaining = IF t \in state[s].dependents /\ state[t].remaining # 0
                                       THEN state[t].remaining - 1 ELSE state[t].remaining
              /\ state'[t].parse_claimed <=> state[t].parse_claimed
              /\ state'[t].parsed <=> state[t].parsed \/ t = s
              /\ state'[t].published <=> state[t].published
              /\ state[t].semantic_queued => state'[t].semantic_queued
              /\ state'[t].semantic_queued /\ ~state[t].semantic_queued =>
                   /\ state[t].discovery_done /\ state'[t].remaining = 0
                   /\ ~state[t].parse_claimed
              /\ t \in semantic_queue' /\ t \notin semantic_queue =>
                   state'[t].semantic_queued
  BY <1>4, <1>5, <1>6, <1>7
<1>11. QED
  BY <1>2, <1>3, <1>8, <1>9, <1>10

(* A parse that ends keeps the invariant.                                  *)
LEMMA ParseEndIndInv == ASSUME IndInv, NEW w \in Workers, ParseEnd(w) PROVE IndInv'
<1> DEFINE s == worker[w].source
           ws == [worker EXCEPT ![w].pc = "looking", ![w].source = 0]
<1>1. /\ worker[w].pc = "parsing"
      /\ semantic_remaining' = IF semantic_remaining # 0
                               THEN semantic_remaining - 1 ELSE 0
      /\ worker' = Notified(ws)
      /\ UNCHANGED <<inputs, phase, wave, slots, discovery_queue, failed, independent>>
  BY DEF ParseEnd
<1>2. /\ ws \in [Workers -> WorkerType]
      /\ \A v \in Workers :
           /\ ws[v].pc = IF v = w THEN "looking" ELSE worker[v].pc
           /\ ws[v].source = IF v = w THEN 0 ELSE worker[v].source
  <2>1. worker \in [Workers -> WorkerType] /\ 0 \in 0..NumSources
    BY SourceFrontendAssumption DEF IndInv, TypeInv
  <2>2. QED
    BY <2>1 DEF WorkerType
<1> HIDE DEF ws
<1>3. worker' \in [Workers -> WorkerType]
  BY <1>1, <1>2, NotifiedFacts
<1>4. ASSUME NEW v \in Workers
      PROVE  /\ worker'[v].source = IF v = w THEN 0 ELSE worker[v].source
             /\ v = w => worker'[v].pc = "looking"
             /\ v # w => \/ worker'[v].pc = worker[v].pc
                         \/ worker[v].pc = "waiting" /\ worker'[v].pc = "looking"
  BY <1>1, <1>2, NotifiedFacts
<1> HIDE DEF s
<1>5. /\ s \in Sources /\ phase = "semantic" /\ ~independent
      /\ state[s].parse_claimed /\ ~state[s].parsed /\ state[s].discovery_done
      /\ state' \in [Sources -> StateType] /\ semantic_queue' \in SUBSET Sources
  BY ParseEndFacts DEF s
<1>6. ASSUME NEW t \in Sources
      PROVE  /\ state'[t].discovery_claimed <=> state[t].discovery_claimed
             /\ state'[t].discovery_done <=> state[t].discovery_done
             /\ state'[t].dependencies = state[t].dependencies
             /\ state'[t].dependents = state[t].dependents
             /\ state'[t].remaining = IF t \in state[s].dependents /\ state[t].remaining # 0
                                      THEN state[t].remaining - 1 ELSE state[t].remaining
             /\ state'[t].parse_claimed <=> state[t].parse_claimed
             /\ state'[t].parsed <=> state[t].parsed \/ t = s
             /\ state'[t].published <=> state[t].published
             /\ state[t].semantic_queued => state'[t].semantic_queued
             /\ state'[t].semantic_queued /\ ~state[t].semantic_queued =>
                  /\ state[t].discovery_done /\ state'[t].remaining = 0
                  /\ ~state[t].parse_claimed
             /\ t \in semantic_queue' /\ t \notin semantic_queue =>
                  state'[t].semantic_queued
  BY ParseEndFacts DEF s
<1>7. includes' = includes /\ includes \in [Sources -> SUBSET Sources]
  BY <1>1 DEF inputs, IndInv, TypeInv
<1>8. TypeInv'
  <2>1. semantic_remaining' \in 0..NumSources
    BY <1>1, SourceFrontendAssumption DEF IndInv, TypeInv
  <2>2. QED
    BY <1>1, <1>3, <1>5, <2>1 DEF IndInv, TypeInv, inputs
<1>9. ASSUME NEW t \in Sources
      PROVE  Unparsed(t)' = Unparsed(t) \ {s}
  BY <1>6, <1>7 DEF Unparsed
<1>10. ASSUME NEW t \in Sources, state[t].discovery_done
       PROVE  state'[t].remaining = Cardinality(Unparsed(t)')
  <2>1. t \in state[s].dependents <=> s \in includes[t]
    BY <1>5, <1>10 DEF IndInv, SourceInv
  <2>2. s \in Unparsed(t) <=> s \in includes[t]
    BY <1>5 DEF Unparsed
  <2>3. state[t].remaining = Cardinality(Unparsed(t))
    BY <1>10 DEF IndInv, SourceInv
  <2>4. Unparsed(t) \in SUBSET Sources
    BY <1>7 DEF Unparsed
  <2>5. /\ Cardinality(Unparsed(t)) \in Nat
        /\ Cardinality(Unparsed(t)) = 0 <=> Unparsed(t) = {}
        /\ Cardinality(Unparsed(t) \ {s}) = IF s \in Unparsed(t) THEN Cardinality(Unparsed(t)) - 1
                                            ELSE Cardinality(Unparsed(t))
    BY <2>4, Sizes, SizeWithout
  <2>6. s \in Unparsed(t) => Cardinality(Unparsed(t)) # 0
    BY <2>5
  <2>7. state'[t].remaining = IF t \in state[s].dependents /\ state[t].remaining # 0
                              THEN state[t].remaining - 1 ELSE state[t].remaining
    BY <1>6
  <2>8. QED
    BY <1>9, <2>1, <2>2, <2>3, <2>5, <2>6, <2>7
<1>11. SourceInv'
  <2>1. ASSUME NEW t \in Sources
        PROVE  state'[t].dependents =
                 {u \in Sources : state'[u].discovery_done /\ t \in includes'[u]}
    <3>1. state[t].dependents = {u \in Sources : state[u].discovery_done /\ t \in includes[u]}
      BY DEF IndInv, SourceInv
    <3>2. \A u \in Sources : state'[u].discovery_done <=> state[u].discovery_done
      BY <1>6
    <3>3. state'[t].dependents = state[t].dependents
      BY <1>6
    <3>4. QED
      BY <1>7, <3>1, <3>2, <3>3
  <2>2. ASSUME NEW t \in Sources
        PROVE  /\ ~state'[t].discovery_done => state'[t].remaining = 0
               /\ state'[t].discovery_done =>
                    /\ state'[t].discovery_claimed
                    /\ state'[t].dependencies = includes'[t]
                    /\ state'[t].remaining = Cardinality(Unparsed(t)')
               /\ state'[t].semantic_queued \/ state'[t].parse_claimed =>
                    state'[t].discovery_done /\ state'[t].remaining = 0
               /\ state'[t].semantic_queued => ~state'[t].parse_claimed
               /\ state'[t].parsed => state'[t].parse_claimed
               /\ state'[t].published => state'[t].parsed
               /\ t \in semantic_queue' => state'[t].semantic_queued
    <3>1. /\ ~state[t].discovery_done => state[t].remaining = 0
          /\ state[t].discovery_done =>
               /\ state[t].discovery_claimed
               /\ state[t].dependencies = includes[t]
          /\ state[t].semantic_queued \/ state[t].parse_claimed =>
               state[t].discovery_done /\ state[t].remaining = 0
          /\ state[t].semantic_queued => ~state[t].parse_claimed
          /\ state[t].parsed => state[t].parse_claimed
          /\ state[t].published => state[t].parsed
          /\ t \in semantic_queue => state[t].semantic_queued
      BY DEF IndInv, SourceInv
    <3>2. state[t].remaining = 0 => state'[t].remaining = 0
      BY <1>6
    <3>3. QED
      BY <1>5, <1>6, <1>7, <1>10, <3>1, <3>2
  <2>3. QED
    BY <2>1, <2>2 DEF SourceInv
<1>12. WaveInv'
  BY <1>1, <1>5 DEF WaveInv, Discovering
<1>13. WorkerInv'
  <2>1. \A v \in Workers :
          /\ worker[v].source \in Sources \cup {0}
          /\ worker[v].source # 0 => state[worker[v].source].parse_claimed
          /\ worker[v].pc \in {"claimed", "parsing"} =>
               worker[v].source # 0 /\ ~state[worker[v].source].parsed
          /\ worker[v].pc # "static"
    <3>1. \A v \in Workers : worker[v].source \in Sources \cup {0}
      BY SourceFrontendAssumption DEF IndInv, TypeInv, WorkerType, Sources
    <3>2. \A v \in Workers : worker[v].pc # "static"
      BY <1>5 DEF IndInv, WorkerInv, Running
    <3>3. QED
      BY <3>1, <3>2 DEF IndInv, WorkerInv
  <2>2. \A v, u \in Workers :
          v # u /\ worker[v].source # 0 => worker[v].source # worker[u].source
    BY DEF IndInv, WorkerInv
  <2>3. s # 0
    BY <1>5, SourceFrontendAssumption DEF Sources
  <2>4. \A v, u \in Workers :
          v # u /\ worker'[v].source # 0 => worker'[v].source # worker'[u].source
    BY <1>4, <2>2
  <2>5. ASSUME NEW v \in Workers
        PROVE  /\ worker'[v].source # 0 => state'[worker'[v].source].parse_claimed
               /\ worker'[v].pc \in {"claimed", "parsing"} =>
                    worker'[v].source # 0 /\ ~state'[worker'[v].source].parsed
               /\ worker'[v].pc # "static"
    <3>1. CASE v = w
      BY <1>4, <3>1
    <3>2. CASE v # w
      <4>1. worker[v].source # s
        BY <2>2, <2>3, <3>2 DEF s
      <4>2. worker[v].source # 0 =>
              /\ state'[worker[v].source].parse_claimed
              /\ ~state[worker[v].source].parsed => ~state'[worker[v].source].parsed
        BY <1>6, <2>1, <4>1
      <4>3. QED
        BY <1>4, <2>1, <3>2, <4>2
    <3>3. QED
      BY <3>1, <3>2
  <2>6. ~Discovering' /\ phase' = "semantic" /\ ~independent'
    BY <1>1, <1>5 DEF Discovering
  <2>7. semantic_remaining' = Cardinality(Semantic')
    <3>1. Semantic' = Semantic \ {s} /\ s \in Semantic /\ Semantic \in SUBSET Sources
      BY <1>5, <1>6 DEF Semantic
    <3>2. semantic_remaining = Cardinality(Semantic)
      BY <1>5 DEF IndInv, WorkerInv
    <3>3. /\ Cardinality(Semantic) \in Nat /\ Cardinality(Semantic) # 0
          /\ Cardinality(Semantic \ {s}) = Cardinality(Semantic) - 1
      BY <3>1, Sizes, SizeWithout
    <3>4. QED
      BY <1>1, <3>1, <3>2, <3>3
  <2>8. QED
    BY <2>4, <2>5, <2>6, <2>7 DEF WorkerInv, Running
<1>14. QED
  BY <1>8, <1>11, <1>12, <1>13 DEF IndInv
-----------------------------------------------------------------------------
(* A step of the coordinator that only leaves a phase after the threads.   *)
LEMMA PhaseMoves ==
  ASSUME IndInv, \A v \in Workers : ~Running(v),
         phase' \in {"publish", "committed", "failed"},
         phase' # "failed" => semantic_queue = {},
         semantic_remaining' \in 0..NumSources,
         UNCHANGED <<inputs, wave, slots, discovery_queue, state,
                     semantic_queue, independent, failed, worker>>
  PROVE  IndInv'
<1>1. TypeInv'
  BY DEF IndInv, TypeInv, inputs
<1>2. SourceInv'
  BY SourcesKept DEF inputs
<1>3. WaveInv'
  BY DEF IndInv, WaveInv, Discovering
<1>4. WorkerInv'
  <2>1. \A v \in Workers : worker'[v].pc \in {"off", "exited"}
    BY DEF Running
  <2>2. QED
    BY <2>1, WorkersKept DEF inputs
<1>5. QED
  BY <1>1, <1>2, <1>3, <1>4 DEF IndInv

(* The threads are joined.                                                 *)
LEMMA JoinWorkersIndInv == ASSUME IndInv, JoinWorkers PROVE IndInv'
<1>1. /\ phase = "semantic" /\ \A w \in Workers : ~Running(w)
      /\ semantic_remaining' = 0
      /\ UNCHANGED <<inputs, wave, slots, state, independent>>
  BY DEF JoinWorkers
<1>2. CASE /\ failed \/ independent \/ semantic_remaining = 0
           /\ phase' = IF failed THEN "failed" ELSE "publish"
           /\ UNCHANGED <<discovery_queue, semantic_queue, failed, worker>>
  <2>1. semantic_remaining = 0 /\ ~independent => semantic_queue = {}
    <3>1. ASSUME semantic_remaining = 0, ~independent
          PROVE  semantic_queue = {}
      <4>1. Semantic \in SUBSET Sources /\ Cardinality(Semantic) = 0
        BY <1>1, <3>1 DEF IndInv, WorkerInv, Semantic
      <4>2. Semantic = {}
        BY <4>1, Sizes
      <4>3. \A s \in semantic_queue : s \in Semantic
        BY DEF IndInv, TypeInv, SourceInv, Semantic
      <4>4. QED
        BY <4>2, <4>3
    <3>2. QED
      BY <3>1
  <2>2. phase' # "failed" => semantic_queue = {}
    BY <1>2, <2>1 DEF IndInv, WaveInv
  <2>3. QED
    BY <1>1, <1>2, <2>2, PhaseMoves, SourceFrontendAssumption
<1>3. CASE phase' = "failed" /\ FailLocked(worker)
  <2>1. worker \in [Workers -> WorkerType]
    BY DEF IndInv, TypeInv
  <2>2. QED
    BY <1>1, <1>3, <2>1, FailIndInv, SourceFrontendAssumption DEF Running
<1>4. QED
  BY <1>2, <1>3 DEF JoinWorkers

(* A Source is published.                                                  *)
LEMMA PublishIndInv == ASSUME IndInv, NEW s \in Sources, Publish(s) PROVE IndInv'
<1>1. /\ phase = "publish" /\ state[s].parsed
      /\ state' = [state EXCEPT ![s].published = TRUE]
      /\ UNCHANGED <<inputs, phase, wave, slots, discovery_queue, semantic_queue,
                     semantic_remaining, independent, failed, worker>>
  BY DEF Publish, Unpublished
<1>2. ASSUME NEW t \in Sources
      PROVE  /\ state'[t] \in StateType
             /\ state'[t].discovery_claimed <=> state[t].discovery_claimed
             /\ state'[t].discovery_done <=> state[t].discovery_done
             /\ state'[t].dependencies = state[t].dependencies
             /\ state'[t].dependents = state[t].dependents
             /\ state'[t].remaining = state[t].remaining
             /\ state'[t].semantic_queued <=> state[t].semantic_queued
             /\ state'[t].parse_claimed <=> state[t].parse_claimed
             /\ state'[t].parsed <=> state[t].parsed
             /\ state'[t].published <=> state[t].published \/ t = s
  <2>1. state[t] \in StateType /\ state \in [Sources -> StateType]
    BY DEF IndInv, TypeInv
  <2>2. QED
    BY <1>1, <2>1 DEF StateType
<1>3. includes' = includes
  BY <1>1 DEF inputs
<1>4. TypeInv'
  <2>1. state' \in [Sources -> StateType]
    BY <1>1, <1>2 DEF IndInv, TypeInv
  <2>2. QED
    BY <1>1, <2>1 DEF IndInv, TypeInv, inputs
<1>5. SourceInv'
  <2>1. \A t \in Sources : Unparsed(t)' = Unparsed(t)
    BY <1>2, <1>3 DEF Unparsed, IndInv, TypeInv
  <2>2. ASSUME NEW t \in Sources
        PROVE  /\ state'[t].semantic_queued \/ state'[t].parse_claimed =>
                    state[t].semantic_queued \/ state[t].parse_claimed
               /\ state'[t].semantic_queued => ~state'[t].parse_claimed
               /\ state'[t].parsed => state'[t].parse_claimed
               /\ state'[t].published => state'[t].parsed
               /\ t \in semantic_queue' => state'[t].semantic_queued
    <3>1. /\ state[t].semantic_queued => ~state[t].parse_claimed
          /\ state[t].parsed => state[t].parse_claimed
          /\ state[t].published => state[t].parsed
          /\ t \in semantic_queue => state[t].semantic_queued
      BY DEF IndInv, SourceInv
    <3>2. QED
      BY <1>1, <1>2, <3>1
  <2>3. QED
    BY <1>2, <1>3, <2>1, <2>2, FlagsChange
<1>6. WaveInv'
  BY <1>1 DEF IndInv, WaveInv, Discovering
<1>7. WorkerInv'
  <2>1. \A v \in Workers : worker[v].pc \in {"off", "exited"}
    BY <1>1 DEF IndInv, WorkerInv, Running
  <2>2. ASSUME NEW v \in Workers
        PROVE  worker[v].source # 0 => state'[worker[v].source].parse_claimed
    <3>1. worker[v].source \in Sources \cup {0}
      BY SourceFrontendAssumption DEF IndInv, TypeInv, WorkerType, Sources
    <3>2. worker[v].source # 0 => state[worker[v].source].parse_claimed
      BY DEF IndInv, WorkerInv
    <3>3. QED
      BY <1>2, <3>1, <3>2
  <2>3. /\ \A v, w \in Workers :
             v # w /\ worker[v].source # 0 => worker[v].source # worker[w].source
        /\ \A v \in Workers : independent => worker[v].source = 0
    BY DEF IndInv, WorkerInv
  <2>4. independent => \A t \in Sources : state'[t].discovery_done => includes'[t] = {}
    BY <1>2, <1>3 DEF IndInv, WorkerInv
  <2>5. ~Discovering' /\ phase' # "semantic"
    BY <1>1 DEF Discovering
  <2>6. QED
    BY <1>1, <2>1, <2>2, <2>3, <2>4, <2>5 DEF WorkerInv, Running
<1>8. QED
  BY <1>4, <1>5, <1>6, <1>7 DEF IndInv

(* The generation is destroyed.                                            *)
LEMMA ReleaseIndInv == ASSUME IndInv, Release PROVE IndInv'
<1>1. /\ phase = "committed" /\ phase' = "released"
      /\ includes' = [s \in Sources |-> {}] /\ faulty' = FALSE
      /\ slots' = <<>> /\ independent' = FALSE
      /\ state' = [s \in Sources |-> InitialState]
      /\ worker' = [w \in Workers |-> Off]
      /\ UNCHANGED <<roots, wave, discovery_queue, semantic_queue,
                     semantic_remaining, failed>>
  BY DEF Release
<1>2. semantic_queue' = {}
  BY <1>1 DEF IndInv, WaveInv
<1>3. InitialState \in StateType
  BY DEF InitialState, StateType
<1>4. /\ ~InitialState.discovery_done /\ InitialState.dependents = {}
      /\ InitialState.remaining = 0 /\ ~InitialState.semantic_queued
      /\ ~InitialState.parse_claimed /\ ~InitialState.parsed /\ ~InitialState.published
  BY DEF InitialState
<1>5. TypeInv'
  <2>1. DOMAIN slots' = {}
    BY <1>1
  <2>2. worker' \in [Workers -> WorkerType] /\ state' \in [Sources -> StateType]
    BY <1>1, <1>3, OffTyped
  <2>3. includes' \in [Sources -> SUBSET Sources]
    BY <1>1
  <2>4. QED
    BY <1>1, <2>1, <2>2, <2>3 DEF IndInv, TypeInv
<1>6. SourceInv'
  BY <1>1, <1>2, <1>4 DEF SourceInv
<1>7. WaveInv'
  BY <1>1 DEF WaveInv, Discovering
<1>8. WorkerInv'
  BY <1>1, OffTyped DEF WorkerInv, Running, Discovering
<1>9. QED
  BY <1>5, <1>6, <1>7, <1>8 DEF IndInv

-----------------------------------------------------------------------------
(* Every step of a full build keeps the invariant.                         *)
LEMMA NextIndInv == ASSUME IndInv, [Next]_vars PROVE IndInv'
<1>1. CASE Coordinator
  <2>1. CASE TakeWave \/ ApplyWave \/ FinishDiscovery \/ StartWorkers \/ JoinWorkers
    BY <2>1, TakeWaveIndInv, ApplyWaveIndInv, FinishDiscoveryIndInv,
       StartWorkersIndInv, JoinWorkersIndInv
  <2>2. CASE PublishFails \/ Commit
    <3>1. /\ phase = "publish" /\ phase' \in {"committed", "failed"}
          /\ UNCHANGED <<inputs, wave, slots, discovery_queue, state, semantic_queue,
                         semantic_remaining, independent, failed, worker>>
      BY <2>2 DEF PublishFails, Commit
    <3>2. /\ \A v \in Workers : ~Running(v)
          /\ semantic_queue = {} /\ semantic_remaining' \in 0..NumSources
      BY <3>1 DEF IndInv, TypeInv, WaveInv, WorkerInv
    <3>3. QED
      BY <3>1, <3>2, PhaseMoves
  <2>3. ASSUME NEW s \in Sources, Discover(s) PROVE IndInv'
    BY <2>3, DiscoverIndInv
  <2>4. ASSUME NEW s \in Sources, DiscoverFails(s) PROVE IndInv'
    BY <2>4, FailsEarly DEF DiscoverFails, Discovering
  <2>5. ASSUME NEW s \in Sources, Publish(s) PROVE IndInv'
    BY <2>5, PublishIndInv
  <2>6. QED
    BY <1>1, <2>1, <2>2, <2>3, <2>4, <2>5 DEF Coordinator
<1>2. ASSUME NEW s \in Sources, ExecuteAcquire(s) PROVE IndInv'
  BY <1>2, ExecuteAcquireIndInv
<1>3. ASSUME NEW w \in Workers, Worker(w) PROVE IndInv'
  <2>1. CASE ParseIndependentFails(w) \/ ParseFails(w)
    BY <2>1, ThreadFails DEF ParseIndependentFails, ParseFails
  <2>2. CASE PartitionDone(w)
    BY <2>2, ThreadMoves DEF PartitionDone
  <2>3. QED
    BY <1>3, <2>1, <2>2, ParseIndependentIndInv, LookIndInv, ParseBeginIndInv,
       ParseEndIndInv DEF Worker
<1>4. CASE UNCHANGED vars
  <2>1. /\ UNCHANGED <<inputs, phase, wave, slots, discovery_queue, state, semantic_queue,
                       semantic_remaining, independent, failed, worker>>
    BY <1>4 DEF vars
  <2>2. SourceInv'
    BY <2>1, SourcesKept DEF inputs
  <2>3. WorkerInv'
    BY <2>1, WorkersKept DEF inputs, Discovering
  <2>4. TypeInv' /\ WaveInv'
    BY <2>1 DEF IndInv, TypeInv, WaveInv, inputs, Discovering
  <2>5. QED
    BY <2>2, <2>3, <2>4 DEF IndInv
<1>5. QED
  BY <1>1, <1>2, <1>3, <1>4 DEF Next

(* So does every step of a full build followed by incremental builds.      *)
LEMMA FrontendNextIndInv == ASSUME IndInv, [FrontendNext]_allVars PROVE IndInv'
<1>1. [Next]_vars \/ Release
  BY DEF FrontendNext, allVars
<1>2. QED
  BY <1>1, NextIndInv, ReleaseIndInv

(* The invariant says that the schedule is exact.                          *)
LEMMA IndInvImplies == ASSUME IndInv PROVE ScheduleExact
<1>1. ASSUME NEW s \in Sources PROVE state[s].remaining \in 0..NumSources
  <2>1. Unparsed(s) \in SUBSET Sources
    BY DEF IndInv, TypeInv, Unparsed
  <2>2. Cardinality(Unparsed(s)) \in 0..NumSources
    BY <2>1, Sizes, SourceFrontendAssumption
  <2>3. QED
    BY <2>2, SourceFrontendAssumption DEF IndInv, SourceInv
<1>2. TypeOK
  <2>1. state \in [Sources ->
         [discovery_claimed : BOOLEAN, discovery_done : BOOLEAN,
          dependencies : SUBSET Sources, dependents : SUBSET Sources,
          remaining : 0..NumSources, semantic_queued : BOOLEAN,
          parse_claimed : BOOLEAN, parsed : BOOLEAN, published : BOOLEAN]]
    BY <1>1 DEF IndInv, TypeInv, StateType
  <2>2. \A w \in Workers :
          /\ worker[w].pc \in {"off", "static", "looking", "waiting", "claimed",
                               "parsing", "exited"}
          /\ worker[w].source \in 0..NumSources
          /\ worker[w].partition \in Seq(Sources)
    BY DEF IndInv, TypeInv, WorkerType
  <2>3. QED
    BY <2>1, <2>2 DEF IndInv, TypeInv, TypeOK
<1>3. ParseInOrder
  <2>1. ASSUME NEW w \in Workers, worker[w].pc \in {"claimed", "parsing"}
        PROVE  \A d \in includes[worker[w].source] : state[d].parsed
    <3> DEFINE s == worker[w].source
    <3>1. s \in Sources /\ state[s].parse_claimed
      BY <2>1, SourceFrontendAssumption DEF IndInv, TypeInv, WorkerType, WorkerInv, Sources
    <3> HIDE DEF s
    <3>2. Cardinality(Unparsed(s)) = 0 /\ Unparsed(s) \in SUBSET Sources
      BY <3>1 DEF IndInv, TypeInv, SourceInv, Unparsed
    <3>3. Unparsed(s) = {}
      BY <3>2, Sizes
    <3>4. QED
      BY <3>1, <3>3 DEF Unparsed, s
  <2>2. QED
    BY <2>1 DEF ParseInOrder, IndInv, WorkerInv
<1>4. CountersExact
  BY DEF CountersExact, IndInv, SourceInv, WorkerInv, Unparsed
<1>5. QED
  BY <1>2, <1>3, <1>4 DEF ScheduleExact

(* In every full build, whatever the includes, the threads and what fails: *)
(* a Source is parsed by one thread and after all it includes, and the     *)
(* counters that wake and stop the threads are exact.                      *)
THEOREM ScheduleAlwaysExact == Spec => []ScheduleExact
<1>1. Init => IndInv
  BY InitIndInv
<1>2. IndInv /\ [Next]_vars => IndInv'
  BY NextIndInv
<1>3. IndInv => ScheduleExact
  BY IndInvImplies
<1>4. QED
  BY <1>1, <1>2, <1>3, PTL DEF Spec

(* And it stays so when incremental builds follow the full build.          *)
THEOREM ScheduleStaysExact == FrontendSpec => []ScheduleExact
<1>1. FrontendInit => IndInv
  BY InitIndInv DEF FrontendInit
<1>2. IndInv /\ [FrontendNext]_allVars => IndInv'
  BY FrontendNextIndInv
<1>3. IndInv => ScheduleExact
  BY IndInvImplies
<1>4. QED
  BY <1>1, <1>2, <1>3, PTL DEF FrontendSpec
-----------------------------------------------------------------------------
(* The universe contains the roots and what its members include, and is    *)
(* contained in every set that does.                                       *)
LEMMA UniverseFacts ==
  ASSUME TypeInv
  PROVE  /\ Universe \in SUBSET Sources /\ roots \subseteq Universe
         /\ \A s \in Universe : includes[s] \subseteq Universe
         /\ \A C \in SUBSET Sources :
              roots \subseteq C /\ (\A t \in C : includes[t] \subseteq C)
                => Universe \subseteq C
<1>1. Universe \in SUBSET Sources /\ roots \subseteq Universe
  BY DEF Universe, TypeInv
<1>2. \A C \in SUBSET Sources :
        roots \subseteq C /\ (\A t \in C : includes[t] \subseteq C) => Universe \subseteq C
  BY DEF Universe
<1>3. ASSUME NEW s \in Universe, NEW d \in includes[s] PROVE d \in Universe
  <2>1. s \in Sources /\ d \in Sources
    BY <1>1 DEF TypeInv
  <2>2. ASSUME NEW C \in SUBSET Sources, roots \subseteq C,
               \A t \in C : includes[t] \subseteq C
        PROVE  d \in C
    BY <1>2, <2>2
  <2>3. QED
    BY <2>1, <2>2 DEF Universe
<1>4. QED
  BY <1>1, <1>2, <1>3

(* The initial state satisfies the rest of the invariant.                  *)
LEMMA InitComplete == ASSUME Init PROVE DiscoveryInv /\ PartitionInv
<1>1. /\ phase = "waves" /\ wave = {} /\ discovery_queue = roots /\ failed = FALSE
      /\ TypeInv
  BY InitIndInv DEF Init, IndInv
<1>2. \A s \in Sources : /\ state[s].discovery_claimed <=> s \in roots
                         /\ ~state[s].discovery_done
  BY DEF Init, InitialState
<1>3. Claimed = roots /\ Done = {}
  BY <1>1, <1>2 DEF Claimed, Done, TypeInv
<1>4. DiscoveryInv
  BY <1>1, <1>3, UniverseFacts DEF DiscoveryInv, Discovering
<1>5. PartitionInv
  BY <1>1 DEF PartitionInv
<1>6. QED
  BY <1>4, <1>5

(* A step that discovers nothing.                                          *)
LEMMA DiscoveryKept ==
  ASSUME IndInv, DiscoveryInv, UNCHANGED <<roots, includes>>,
         \A t \in Sources :
           /\ state'[t].discovery_claimed <=> state[t].discovery_claimed
           /\ state'[t].discovery_done <=> state[t].discovery_done,
         Building' => Building /\ wave' \cup discovery_queue' = wave \cup discovery_queue,
         Building' /\ ~Discovering' => wave' = {} /\ discovery_queue' = {},
         phase' \in {"schedule", "semantic", "publish", "committed"} =>
           ~Cyclic \/ phase \in {"schedule", "semantic", "publish", "committed"}
  PROVE  DiscoveryInv'
<1>1. Claimed' = Claimed /\ Done' = Done /\ Universe' = Universe
  BY DEF Claimed, Done, Universe
<1>2. Cyclic' <=> Cyclic
  BY <1>1 DEF Cyclic, Done
<1>3. CASE Building'
  <2>1. Building /\ wave' \cup discovery_queue' = wave \cup discovery_queue
    BY <1>3
  <2>2. /\ roots \subseteq Claimed
        /\ \A s \in Done : includes[s] \subseteq Claimed
        /\ Claimed \subseteq Universe
        /\ Claimed = Done \cup wave \cup discovery_queue
        /\ phase \in {"schedule", "semantic", "publish", "committed"} => ~Cyclic
    BY <2>1 DEF DiscoveryInv
  <2>3. Claimed = Done \cup wave' \cup discovery_queue'
    BY <2>1, <2>2
  <2>4. QED
    BY <1>1, <1>2, <1>3, <2>2, <2>3 DEF DiscoveryInv
<1>4. CASE ~Building'
  BY <1>4 DEF DiscoveryInv
<1>5. QED
  BY <1>3, <1>4

(* Nothing is claimed of a build that failed.                              *)
LEMMA FailedIsComplete == ASSUME phase' = "failed" PROVE DiscoveryInv' /\ PartitionInv'
BY DEF DiscoveryInv, PartitionInv, Building

(* The coordinator moves on in the discovery, discovering nothing.         *)
LEMMA DiscoveryMovesComplete ==
  ASSUME IndInv, DiscoveryInv, PartitionInv, Discovering,
         \/ Discovering' /\ (phase' # "schedule" \/ ~Cyclic)
         \/ phase' = "semantic" /\ phase = "schedule",
         wave' \cup discovery_queue' = wave \cup discovery_queue,
         UNCHANGED <<inputs, failed>>,
         \A t \in Sources :
           /\ state'[t].discovery_claimed <=> state[t].discovery_claimed
           /\ state'[t].discovery_done <=> state[t].discovery_done
  PROVE  DiscoveryInv' /\ ~failed'
<1>1. Building /\ ~failed
  BY DEF Building, Discovering, PartitionInv
<1>2. Building' /\ ~Discovering' => wave' = {} /\ discovery_queue' = {}
  BY DEF IndInv, WaveInv
<1>3. roots' = roots /\ includes' = includes
  BY DEF inputs
<1>4. phase' \in {"schedule", "semantic", "publish", "committed"} =>
        ~Cyclic \/ phase \in {"schedule", "semantic", "publish", "committed"}
  BY DEF Discovering
<1>5. QED
  BY <1>1, <1>2, <1>3, <1>4, DiscoveryKept

(* The steps of the discovery but Discover.                                *)
LEMMA CoordinatorComplete ==
  ASSUME IndInv, DiscoveryInv, PartitionInv,
         TakeWave \/ ApplyWave \/ FinishDiscovery \/ \E s \in Sources : ExecuteAcquire(s)
  PROVE  DiscoveryInv' /\ PartitionInv'
<1>1. CASE phase' = "failed"
  BY <1>1, FailedIsComplete
<1>2. CASE phase' # "failed"
  <2>1. UNCHANGED <<inputs, state, failed>>
    BY <1>2 DEF TakeWave, ApplyWave, FinishDiscovery, ExecuteAcquire
  <2>2. /\ Discovering /\ Discovering' /\ (phase' # "schedule" \/ ~Cyclic)
        /\ wave' \cup discovery_queue' = wave \cup discovery_queue
    <3>1. CASE TakeWave
      BY <3>1 DEF TakeWave, Discovering, IndInv, WaveInv
    <3>2. CASE ApplyWave
      BY <1>2, <3>2 DEF ApplyWave, Discovering
    <3>3. CASE FinishDiscovery
      BY <1>2, <3>3 DEF FinishDiscovery, Discovering
    <3>4. CASE \E s \in Sources : ExecuteAcquire(s)
      BY <3>4 DEF ExecuteAcquire, Discovering
    <3>5. QED
      BY <3>1, <3>2, <3>3, <3>4
  <2>3. DiscoveryInv' /\ ~failed'
    BY <2>1, <2>2, DiscoveryMovesComplete
  <2>4. PartitionInv'
    BY <2>2, <2>3 DEF PartitionInv, Discovering
  <2>5. QED
    BY <2>3, <2>4
<1>3. QED
  BY <1>1, <1>2

(* A Source is discovered: what it includes belongs to the universe.       *)
LEMMA DiscoverComplete ==
  ASSUME IndInv, DiscoveryInv, PartitionInv, NEW s \in Sources, Discover(s)
  PROVE  DiscoveryInv' /\ PartitionInv'
<1>1. /\ phase = "discover" /\ s \in wave /\ wave' = wave \ {s}
      /\ phase' \in {"waves", "discover"}
      /\ discovery_queue' =
           discovery_queue \cup
             {d \in includes[s] : ~state[d].discovery_claimed /\ ~state[d].published}
      /\ UNCHANGED <<inputs, failed>>
  BY DEF Discover
<1>2. includes[s] \in SUBSET Sources /\ roots' = roots /\ includes' = includes
  BY <1>1 DEF IndInv, TypeInv, inputs
<1>3. Claimed' = Claimed \cup includes[s]
  <2>1. \A t \in Sources :
          state'[t].discovery_claimed <=> (state[t].discovery_claimed \/ t \in includes[s])
    BY DiscoverFacts
  <2>2. QED
    BY <1>2, <2>1 DEF Claimed
<1>4. Done' = Done \cup {s}
  <2>1. \A t \in Sources : state'[t].discovery_done <=> (state[t].discovery_done \/ t = s)
    BY DiscoverFacts
  <2>2. QED
    BY <2>1 DEF Done
<1>5. discovery_queue' = discovery_queue \cup (includes[s] \ Claimed)
  <2>1. \A t \in Sources : ~state[t].published
    BY <1>1 DEF IndInv, SourceInv, WaveInv, Discovering
  <2>2. QED
    BY <1>1, <1>2, <2>1 DEF Claimed
<1>6. /\ roots \subseteq Claimed
      /\ \A t \in Done : includes[t] \subseteq Claimed
      /\ Claimed \subseteq Universe
      /\ Claimed = Done \cup wave \cup discovery_queue
  BY <1>1 DEF DiscoveryInv, Building
<1>7. Universe' = Universe
  BY <1>2 DEF Universe
<1>8. includes[s] \subseteq Universe
  <2>1. s \in Universe
    BY <1>1, <1>6
  <2>2. QED
    BY <2>1, UniverseFacts DEF IndInv
<1>9. DiscoveryInv'
  <2>1. Claimed' = Done' \cup wave' \cup discovery_queue'
    BY <1>1, <1>3, <1>4, <1>5, <1>6
  <2>2. /\ roots' \subseteq Claimed' /\ Claimed' \subseteq Universe'
        /\ \A t \in Done' : includes'[t] \subseteq Claimed'
    BY <1>2, <1>3, <1>4, <1>6, <1>7, <1>8
  <2>3. Discovering' /\ phase' \notin {"schedule", "semantic", "publish", "committed"}
    BY <1>1 DEF Discovering
  <2>4. QED
    BY <2>1, <2>2, <2>3 DEF DiscoveryInv
<1>10. PartitionInv'
  BY <1>1 DEF PartitionInv
<1>11. QED
  BY <1>9, <1>10

(* The threads are started: every Source is in a static partition.         *)
LEMMA StartWorkersComplete ==
  ASSUME IndInv, DiscoveryInv, PartitionInv, StartWorkers
  PROVE  DiscoveryInv' /\ PartitionInv'
<1>1. /\ phase = "schedule" /\ phase' = "semantic"
      /\ UNCHANGED <<inputs, wave, slots, discovery_queue, failed>>
  BY DEF StartWorkers
<1>2. ASSUME NEW t \in Sources
      PROVE  /\ state'[t].discovery_claimed <=> state[t].discovery_claimed
             /\ state'[t].discovery_done <=> state[t].discovery_done
             /\ state'[t].parsed <=> state[t].parsed
  <2>1. state[t] \in StateType
    BY DEF IndInv, TypeInv
  <2>2. state'[t] \in {state[t], [state[t] EXCEPT !.semantic_queued = FALSE,
                                                  !.parse_claimed = TRUE]}
    BY DEF StartWorkers
  <2>3. QED
    BY <2>1, <2>2 DEF StateType
<1>3. DiscoveryInv' /\ ~failed'
  BY <1>1, <1>2, DiscoveryMovesComplete DEF Discovering
<1>4. Semantic' = Semantic
  BY <1>2 DEF Semantic
<1>5. ASSUME independent', NEW s \in Semantic
      PROVE  \E w \in Workers :
               worker'[w].pc = "static" /\ \E i \in DOMAIN worker'[w].partition :
                                             worker'[w].partition[i] = s
  <2> DEFINE part(w) == Partition(InOrder(Semantic), w)
  <2>1. worker' = [w \in Workers |->
                     IF w <= WorkerCount
                     THEN [pc |-> "static", source |-> 0, partition |-> part(w)]
                     ELSE Off]
    BY <1>5 DEF StartWorkers
  <2>2. PICK w \in 1..WorkerCount : \E i \in DOMAIN part(w) : part(w)[i] = s
    BY PartitionFacts
  <2>3. w \in Workers /\ w <= WorkerCount
    BY WorkerCountBounds, SourceFrontendAssumption DEF Workers
  <2> HIDE DEF part
  <2>4. worker'[w].pc = "static" /\ worker'[w].partition = part(w)
    BY <2>1, <2>3
  <2>5. QED
    BY <2>2, <2>3, <2>4
<1>6. PartitionInv'
  BY <1>1, <1>3, <1>4, <1>5 DEF PartitionInv
<1>7. QED
  BY <1>3, <1>6
-----------------------------------------------------------------------------
(* What no step of a thread changes.                                       *)
LEMMA WorkerFrame ==
  ASSUME IndInv, NEW w \in Workers, Worker(w)
  PROVE  /\ phase = "semantic" /\ UNCHANGED <<inputs, phase, wave, independent>>
         /\ discovery_queue' \in {discovery_queue, {}}
         /\ failed => failed'
         /\ \A t \in Sources :
              /\ state'[t].discovery_claimed <=> state[t].discovery_claimed
              /\ state'[t].discovery_done <=> state[t].discovery_done
<1>1. Running(w)
  BY DEF Worker, ParseIndependent, ParseIndependentFails, PartitionDone, Look, ParseBegin,
         ParseEnd, ParseFails, Running
<1>2. phase = "semantic"
  BY <1>1 DEF IndInv, WorkerInv
<1>3. /\ UNCHANGED <<inputs, phase, wave, independent>>
      /\ discovery_queue' \in {discovery_queue, {}}
      /\ failed => failed'
  BY DEF Worker, ParseIndependent, ParseIndependentFails, PartitionDone, Look, ParseBegin,
         ParseEnd, ParseFails, FailLocked
<1>4. ASSUME NEW t \in Sources
      PROVE  /\ state'[t].discovery_claimed <=> state[t].discovery_claimed
             /\ state'[t].discovery_done <=> state[t].discovery_done
  <2>1. state \in [Sources -> StateType] /\ state[t] \in StateType
    BY DEF IndInv, TypeInv
  <2>2. CASE UNCHANGED state
    BY <2>2
  <2>3. CASE ParseIndependent(w)
    <3>1. state'[t] \in {state[t], [state[t] EXCEPT !.parsed = TRUE]}
      BY <2>1, <2>3 DEF ParseIndependent
    <3>2. QED
      BY <2>1, <3>1 DEF StateType
  <2>4. CASE \E s : state' = [state EXCEPT ![s].semantic_queued = FALSE,
                                           ![s].parse_claimed = TRUE]
    <3>1. PICK s : state' = [state EXCEPT ![s].semantic_queued = FALSE,
                                          ![s].parse_claimed = TRUE]
      BY <2>4
    <3>2. QED
      BY <2>1, <3>1 DEF StateType
  <2>5. CASE ParseEnd(w)
    BY <2>5, ParseEndFacts
  <2>6. QED
    BY <2>2, <2>3, <2>4, <2>5
    DEF Worker, ParseIndependentFails, PartitionDone, Look, ParseBegin, ParseFails
<1>5. QED
  BY <1>2, <1>3, <1>4

(* Whoever is in a static partition leaves it parsed.                      *)
LEMMA ThreadsComplete ==
  ASSUME IndInv, DiscoveryInv, PartitionInv, NEW w \in Workers, Worker(w)
  PROVE  DiscoveryInv' /\ PartitionInv'
<1>1. /\ phase = "semantic" /\ UNCHANGED <<inputs, phase, wave, independent>>
      /\ discovery_queue' \in {discovery_queue, {}}
      /\ failed => failed'
  BY WorkerFrame
<1>2. \A t \in Sources :
        /\ state'[t].discovery_claimed <=> state[t].discovery_claimed
        /\ state'[t].discovery_done <=> state[t].discovery_done
  BY WorkerFrame
<1>3. wave = {} /\ discovery_queue = {} /\ Building
  BY <1>1 DEF DiscoveryInv, Building, Discovering
<1>4. DiscoveryInv'
  BY <1>1, <1>2, <1>3, DiscoveryKept DEF inputs, Discovering
<1>5. ASSUME independent', ~failed', NEW t \in Semantic'
      PROVE  \E v \in Workers :
               worker'[v].pc = "static" /\ \E i \in DOMAIN worker'[v].partition :
                                             worker'[v].partition[i] = t
  <2>1. independent /\ ~failed /\ t \in Sources
    BY <1>1, <1>5 DEF Semantic
  <2>2. ParseIndependent(w) \/ PartitionDone(w)
    <3>1. Running(w) => worker[w].pc = "static"
      BY <2>1 DEF IndInv, WorkerInv
    <3>2. ~Look(w) /\ ~ParseBegin(w) /\ ~ParseEnd(w) /\ ~ParseFails(w)
      BY <3>1 DEF Look, ParseBegin, ParseEnd, ParseFails, Running
    <3>3. ~ParseIndependentFails(w)
      BY <1>5 DEF ParseIndependentFails, FailLocked
    <3>4. QED
      BY <3>2, <3>3 DEF Worker
  <2>3. worker \in [Workers -> WorkerType] /\ state \in [Sources -> StateType]
    BY DEF IndInv, TypeInv
  <2>4. CASE ParseIndependent(w)
    <3> DEFINE q == worker[w].partition
               s == Head(q)
    <3>1. q \in Seq(Sources) /\ q # <<>>
      BY <2>3, <2>4 DEF ParseIndependent, WorkerType
    <3>2. /\ Len(q) \in Nat \ {0} /\ DOMAIN q = 1..Len(q) /\ s = q[1] /\ s \in Sources
          /\ DOMAIN Tail(q) = 1..(Len(q) - 1)
          /\ \A i \in 1..(Len(q) - 1) : Tail(q)[i] = q[i + 1]
      <4> HIDE DEF q
      <4>1. QED
        BY <3>1, EmptySeq, HeadTailProperties, LenProperties DEF q
    <3>3. state' = [state EXCEPT ![s].parsed = TRUE]
      BY <2>4 DEF ParseIndependent
    <3>4. worker' = [worker EXCEPT ![w].partition = Tail(q)]
      BY <2>4 DEF ParseIndependent
    <3> HIDE DEF q, s
    <3>5. t # s /\ t \in Semantic
      <4>1. state'[s].parsed
        BY <2>3, <3>2, <3>3 DEF StateType
      <4>2. t # s
        BY <1>5, <4>1 DEF Semantic
      <4>3. state'[t] = state[t]
        BY <2>1, <2>3, <3>2, <3>3, <4>2
      <4>4. QED
        BY <1>5, <4>2, <4>3 DEF Semantic
    <3>6. PICK v \in Workers :
            worker[v].pc = "static" /\ \E i \in DOMAIN worker[v].partition :
                                         worker[v].partition[i] = t
      BY <1>1, <2>1, <3>5 DEF PartitionInv
    <3>7. CASE v = w
      <4>1. PICK i \in DOMAIN q : q[i] = t
        BY <3>6, <3>7 DEF q
      <4>2. i \in 2..Len(q)
        BY <3>2, <3>5, <4>1
      <4>3. i - 1 \in 1..(Len(q) - 1) /\ (i - 1) + 1 = i
        BY <3>2, <4>2
      <4>4. i - 1 \in DOMAIN Tail(q) /\ Tail(q)[i - 1] = t
        BY <3>2, <4>1, <4>3
      <4>5. worker'[w].pc = "static" /\ worker'[w].partition = Tail(q)
        BY <2>3, <3>4, <3>6, <3>7 DEF WorkerType
      <4>6. QED
        BY <4>4, <4>5
    <3>8. CASE v # w
      <4>1. worker'[v] = worker[v]
        BY <2>3, <3>4, <3>8
      <4>2. QED
        BY <3>6, <4>1
    <3>9. QED
      BY <3>7, <3>8
  <2>5. CASE PartitionDone(w)
    <3>1. /\ worker[w].partition = <<>> /\ UNCHANGED state
          /\ worker' = [worker EXCEPT ![w].pc = "exited"]
      BY <2>5 DEF PartitionDone
    <3>2. t \in Semantic
      BY <1>5, <3>1 DEF Semantic
    <3>3. PICK v \in Workers :
            worker[v].pc = "static" /\ \E i \in DOMAIN worker[v].partition :
                                         worker[v].partition[i] = t
      BY <1>1, <2>1, <3>2 DEF PartitionInv
    <3>4. DOMAIN worker[w].partition = {}
      BY <3>1
    <3>5. v # w
      BY <3>3, <3>4
    <3>6. worker'[v] = worker[v]
      BY <2>3, <3>1, <3>5
    <3>7. QED
      BY <3>3, <3>6
  <2>6. QED
    BY <2>2, <2>4, <2>5
<1>6. PartitionInv'
  BY <1>1, <1>5 DEF PartitionInv
<1>7. QED
  BY <1>4, <1>6

(* The threads are joined: without a failure everything is parsed.         *)
LEMMA JoinWorkersComplete ==
  ASSUME IndInv, DiscoveryInv, PartitionInv, JoinWorkers
  PROVE  DiscoveryInv' /\ PartitionInv'
<1>1. CASE phase' = "failed"
  BY <1>1, FailedIsComplete
<1>2. CASE phase' # "failed"
  <2>1. /\ phase = "semantic" /\ \A w \in Workers : ~Running(w)
        /\ phase' = "publish" /\ ~failed
        /\ independent \/ semantic_remaining = 0
        /\ UNCHANGED <<inputs, wave, state, discovery_queue, failed>>
    BY <1>2 DEF JoinWorkers
  <2>2. wave = {} /\ discovery_queue = {} /\ Building
    BY <2>1 DEF DiscoveryInv, Building, Discovering
  <2>3. DiscoveryInv'
    BY <2>1, <2>2, DiscoveryKept DEF inputs, Discovering
  <2>4. Semantic = {}
    <3>1. CASE independent
      <4>1. \A s \in Semantic : \E w \in Workers : worker[w].pc = "static"
        BY <2>1, <3>1 DEF PartitionInv
      <4>2. QED
        BY <2>1, <4>1 DEF Running
    <3>2. CASE ~independent
      <4>1. Cardinality(Semantic) = 0 /\ Semantic \in SUBSET Sources
        BY <2>1, <3>2 DEF IndInv, WorkerInv, Semantic
      <4>2. QED
        BY <4>1, Sizes
    <3>3. QED
      BY <3>1, <3>2
  <2>5. PartitionInv'
    BY <2>1, <2>4 DEF PartitionInv, Semantic
  <2>6. QED
    BY <2>3, <2>5
<1>3. QED
  BY <1>1, <1>2

(* Publication and commit.                                                 *)
LEMMA PublishComplete ==
  ASSUME IndInv, DiscoveryInv, PartitionInv,
         PublishFails \/ Commit \/ \E s \in Sources : Publish(s)
  PROVE  DiscoveryInv' /\ PartitionInv'
<1>1. CASE PublishFails
  BY <1>1, FailedIsComplete DEF PublishFails
<1>2. CASE Commit \/ \E s \in Sources : Publish(s)
  <2>1. /\ phase = "publish" /\ phase' \in {"publish", "committed"}
        /\ UNCHANGED <<inputs, wave, discovery_queue, failed>>
    BY <1>2 DEF Commit, Publish
  <2>2. ASSUME NEW t \in Sources
        PROVE  /\ state'[t].discovery_claimed <=> state[t].discovery_claimed
               /\ state'[t].discovery_done <=> state[t].discovery_done
               /\ state'[t].parsed <=> state[t].parsed
    <3>1. state[t] \in StateType /\ state \in [Sources -> StateType]
      BY DEF IndInv, TypeInv
    <3>2. state'[t] \in {state[t], [state[t] EXCEPT !.published = TRUE]}
      BY <1>2, <3>1 DEF Commit, Publish
    <3>3. QED
      BY <3>1, <3>2 DEF StateType
  <2>3. wave = {} /\ discovery_queue = {} /\ Building
    BY <2>1 DEF DiscoveryInv, Building, Discovering
  <2>4. DiscoveryInv'
    BY <2>1, <2>2, <2>3, DiscoveryKept DEF inputs, Discovering
  <2>5. Semantic' = {} /\ ~failed'
    BY <2>1, <2>2 DEF PartitionInv, Semantic
  <2>6. phase' = "committed" => Unpublished' = {}
    <3>1. phase' = "committed" => Commit
      BY <1>2 DEF Publish
    <3>2. QED
      BY <3>1 DEF Commit, Unpublished
  <2>7. PartitionInv'
    BY <2>1, <2>5, <2>6 DEF PartitionInv
  <2>8. QED
    BY <2>4, <2>7
<1>3. QED
  BY <1>1, <1>2

(* Every step of a full build keeps the rest of the invariant.             *)
LEMMA NextComplete ==
  ASSUME IndInv, DiscoveryInv, PartitionInv, [Next]_vars
  PROVE  DiscoveryInv' /\ PartitionInv'
<1>1. CASE Coordinator
  <2>1. ASSUME NEW s \in Sources, DiscoverFails(s) PROVE DiscoveryInv' /\ PartitionInv'
    BY <2>1, FailedIsComplete DEF DiscoverFails
  <2>2. QED
    BY <1>1, <2>1, CoordinatorComplete, DiscoverComplete, StartWorkersComplete,
       JoinWorkersComplete, PublishComplete DEF Coordinator
<1>2. CASE \E s \in Sources : ExecuteAcquire(s)
  BY <1>2, CoordinatorComplete
<1>3. CASE \E w \in Workers : Worker(w)
  BY <1>3, ThreadsComplete
<1>4. CASE UNCHANGED vars
  <2>1. UNCHANGED <<roots, includes, phase, wave, discovery_queue, state, independent,
                    failed, worker>>
    BY <1>4 DEF vars, inputs
  <2>2. DiscoveryInv'
    BY <2>1, DiscoveryKept DEF Building, Discovering, DiscoveryInv
  <2>3. PartitionInv'
    BY <2>1 DEF PartitionInv, Semantic, Unpublished
  <2>4. QED
    BY <2>2, <2>3
<1>5. QED
  BY <1>1, <1>2, <1>3, <1>4 DEF Next

(* So does the end of the full build and every step after it.              *)
LEMMA FrontendNextComplete ==
  ASSUME IndInv, DiscoveryInv, PartitionInv, [FrontendNext]_allVars
  PROVE  DiscoveryInv' /\ PartitionInv'
<1>1. [Next]_vars \/ Release
  BY DEF FrontendNext, allVars
<1>2. CASE Release
  <2>1. phase = "committed" /\ phase' = "released" /\ failed' = failed
    BY <1>2 DEF Release
  <2>2. QED
    BY <2>1 DEF DiscoveryInv, PartitionInv, Building
<1>3. QED
  BY <1>1, <1>2, NextComplete

(* What is committed is the universe.                                      *)
LEMMA CommitImplies == ASSUME IndInv, DiscoveryInv, PartitionInv PROVE CommitIsComplete
<1> SUFFICES ASSUME phase = "committed"
             PROVE  /\ {s \in Sources : state[s].published} = Universe
                    /\ ~failed
                    /\ \A cycle \in SUBSET Universe :
                         cycle # {} => \E s \in cycle : includes[s] \cap cycle = {}
  BY DEF CommitIsComplete
<1>1. /\ ~failed /\ Semantic = {} /\ Unpublished = {}
  BY DEF PartitionInv
<1>2. {s \in Sources : state[s].published} = Done
  <2>1. \A s \in Sources : /\ state[s].published => state[s].parsed
                           /\ state[s].parsed => state[s].discovery_done
    BY DEF IndInv, SourceInv
  <2>2. QED
    BY <1>1, <2>1 DEF Done, Semantic, Unpublished
<1>3. /\ roots \subseteq Claimed
      /\ \A s \in Done : includes[s] \subseteq Claimed
      /\ Claimed \subseteq Universe
      /\ Claimed = Done \cup wave \cup discovery_queue
      /\ wave = {} /\ discovery_queue = {} /\ ~Cyclic
  BY DEF DiscoveryInv, Building, Discovering
<1>4. Done = Universe
  <2>1. Done \in SUBSET Sources
    BY DEF Done
  <2>2. QED
    BY <1>3, <2>1, UniverseFacts DEF IndInv
<1>5. \A cycle \in SUBSET Done :
        cycle # {} => \E s \in cycle : includes[s] \cap cycle = {}
  BY <1>3 DEF Cyclic, Done
<1>6. QED
  BY <1>1, <1>2, <1>4, <1>5

(* A full build that commits has published exactly the Sources reached     *)
(* from the roots; none commits with a failure on record or a cycle.       *)
THEOREM CommitAlwaysComplete == Spec => []CommitIsComplete
<1> DEFINE Inv == IndInv /\ DiscoveryInv /\ PartitionInv
<1>1. Init => Inv
  BY InitIndInv, InitComplete
<1>2. Inv /\ [Next]_vars => Inv'
  BY NextIndInv, NextComplete
<1>3. Inv => CommitIsComplete
  BY CommitImplies
<1> HIDE DEF Inv
<1>4. QED
  BY <1>1, <1>2, <1>3, PTL DEF Spec

(* The same of the full build that incremental builds start from.          *)
THEOREM CommitStaysComplete == FrontendSpec => []CommitIsComplete
<1> DEFINE Inv == IndInv /\ DiscoveryInv /\ PartitionInv
<1>1. FrontendInit => Inv
  BY InitIndInv, InitComplete DEF FrontendInit
<1>2. Inv /\ [FrontendNext]_allVars => Inv'
  BY FrontendNextIndInv, FrontendNextComplete
<1>3. Inv => CommitIsComplete
  BY CommitImplies
<1> HIDE DEF Inv
<1>4. QED
  BY <1>1, <1>2, <1>3, PTL DEF FrontendSpec
-----------------------------------------------------------------------------
(***************************************************************************)
(* Proofs about the incremental builds that follow a full build (Frontend, *)
(* IncrementalFrontend), for any number of Sources, roots, includes, edits *)
(* and generations, while no file that a build saw missing comes back      *)
(* before the build ends (FrontendRecreate.cfg shows what happens          *)
(* otherwise).                                                             *)
(*                                                                         *)
(* The cache of the next generation is right because what a build leaves   *)
(* in the cache is affected by nothing it replaces: whoever includes an    *)
(* affected Source is affected (AffectedClosed), an affected Source is     *)
(* claimed or removed and never taken from the cache (ClaimInv), and an    *)
(* interface points to cached or to new interfaces as its Source includes  *)
(* Sources of the cache or of the build (ParseInv).  Nobody is left        *)
(* waiting because whoever waits when the queue is empty waits for         *)
(* somebody who waits (CountInv), which is an include cycle.               *)
(***************************************************************************)

FileType ==
  {f \in [edit : Nat, includes : SUBSET Sources, present : BOOLEAN] :
     f.present \/ f = Inc!Absent}
InterfaceType == [generation : Nat, imports : SUBSET (Sources \X Nat)]
EntryType ==
  [claimed : BOOLEAN, done : BOOLEAN, entry : BOOLEAN, parsed : BOOLEAN,
   published : BOOLEAN, removed : BOOLEAN, remaining : Nat,
   dependencies : SUBSET Sources, dependents : SUBSET Sources]
CommittedType ==
  [generation : Nat, known : SUBSET Sources, physical : [Sources -> FileType],
   includes : [Sources -> SUBSET Sources], graph : [Sources -> FileType],
   cache : [Sources -> InterfaceType]]
BuildType ==
  [observe : SUBSET Sources, physical : [Sources -> FileType],
   includes : [Sources -> SUBSET Sources], changed : SUBSET Sources,
   known : SUBSET Sources, discovery_queue : SUBSET Sources,
   semantic_queue : SUBSET Sources, missing : SUBSET Sources,
   interface : [Sources -> InterfaceType], state : [Sources -> EntryType]]

IncTypeInv ==
  /\ disk \in [Sources -> FileType]
  /\ edits \in Nat
  /\ committed \in CommittedType
  /\ incremental \in {"off", "idle", "observe", "discover", "parse"}
  /\ build \in BuildType

Cached(s) == committed.cache[s] # Inc!NoInterface

(* What is committed: a Source with bytes is known and has an interface.   *)
CommittedInv ==
  /\ \A s \in Sources :
       /\ Cached(s) <=> committed.physical[s].present
       /\ committed.physical[s].present => s \in committed.known
       /\ s \in committed.known => committed.includes[s] = committed.physical[s].includes
  /\ ImportsCurrent
  /\ GraphMatchesBytes

(* What is known to be missing is missing.                                 *)
MissingInv ==
  incremental \notin {"off", "idle"} => \A s \in build.missing : ~disk[s].present

(* What has been observed.                                                 *)
ObserveInv ==
  incremental \in {"observe", "discover", "parse"} =>
    /\ build.changed \subseteq committed.known
    /\ committed.known \subseteq build.known
    /\ \A s \in build.changed : build.physical[s].present \/ s \in build.missing
    /\ incremental = "observe" =>
         /\ build.known = committed.known
         /\ build.includes = committed.includes
         /\ build.observe \subseteq committed.known
         /\ build.semantic_queue = {}
         /\ \A s \in Sources :
              /\ s \notin build.changed => build.physical[s] = committed.physical[s]
              /\ build.interface[s] = Inc!NoInterface

Active == incremental \in {"discover", "parse"}
Present(s) == build.physical[s].present

(* Who is claimed, removed and taken from the cache.                       *)
ClaimInv ==
  Active => \A s \in Sources :
    /\ build.state[s].removed <=> s \in Inc!Affected /\ ~Present(s)
    /\ s \in Inc!Affected /\ Present(s) => build.state[s].claimed
    /\ build.state[s].claimed => s \in Inc!Affected \/ ~Cached(s)
    /\ build.state[s].published =>
         Cached(s) /\ ~build.state[s].claimed /\ s \notin Inc!Affected
    /\ s \in build.discovery_queue <=> build.state[s].claimed /\ ~build.state[s].done
    /\ incremental = "parse" => s \notin build.discovery_queue

(* What is known of the Sources discovered and of the others.              *)
DoneInv ==
  Active => \A s \in Sources :
    /\ build.state[s].done =>
         /\ build.state[s].claimed /\ s \in build.known /\ Present(s)
         /\ build.state[s].dependencies = build.includes[s]
         /\ build.includes[s] = build.physical[s].includes
         /\ \A d \in build.includes[s] :
              build.state[d].claimed \/ build.state[d].published
    /\ s \notin build.changed /\ (s \in committed.known \/ ~build.state[s].done) =>
         build.physical[s] = committed.physical[s]
    /\ ~build.state[s].done =>
         /\ s \in build.known => s \in committed.known
         /\ build.includes[s] = IF build.state[s].removed THEN {} ELSE committed.includes[s]

(* What a Source still waits for.                                          *)
Awaited(s) ==
  {d \in build.includes[s] :
     ~build.state[d].published /\ build.interface[d] = Inc!NoInterface}

CountInv ==
  Active => \A s \in Sources :
    /\ build.state[s].dependents =
         {t \in Sources : build.state[t].done /\ s \in build.includes[t]}
    /\ build.state[s].done => build.state[s].remaining = Cardinality(Awaited(s))
    /\ s \in build.semantic_queue <=>
         /\ build.state[s].done /\ build.interface[s] = Inc!NoInterface
         /\ build.state[s].remaining = 0

(* Where the interface of d will be that a parse of this build refers to.  *)
GenerationOf(d) ==
  IF build.state[d].published THEN committed.cache[d].generation
  ELSE committed.generation + 1

ParseInv ==
  Active =>
    /\ \A s \in Sources :
         /\ build.state[s].parsed <=>
              build.state[s].removed \/ build.interface[s] # Inc!NoInterface
         /\ build.state[s].entry <=> build.state[s].parsed
         /\ build.interface[s] # Inc!NoInterface =>
              /\ incremental = "parse" /\ build.state[s].done
              /\ Awaited(s) = {}
              /\ build.interface[s].generation = committed.generation + 1
              /\ build.interface[s].imports =
                   {<<d, GenerationOf(d)>> : d \in build.includes[s]}
    /\ incremental = "parse" => ~Inc!Cyclic(build.includes)

IncInv ==
  /\ IncTypeInv /\ CommittedInv /\ MissingInv /\ ObserveInv
  /\ ClaimInv /\ DoneInv /\ CountInv /\ ParseInv

-----------------------------------------------------------------------------
(* The Sources of the two frontends are the same.                          *)
LEMMA SameSources == Inc!Sources = Sources
BY DEF Inc!Sources, Sources

(* What a build starts from and is reset to is typed.                      *)
LEMMA ConstantsTyped ==
  /\ Inc!Absent \in FileType /\ ~Inc!Absent.present /\ Inc!Absent.includes = {}
  /\ Inc!NoInterface \in InterfaceType
  /\ Inc!InitialState \in EntryType
  /\ \A e \in Nat : \A inc \in SUBSET Sources :
       Inc!File(e, inc) \in FileType /\ Inc!File(e, inc).present
       /\ Inc!File(e, inc).includes = inc
<1>1. /\ Inc!Absent \in [edit : Nat, includes : SUBSET Sources, present : BOOLEAN]
      /\ ~Inc!Absent.present /\ Inc!Absent.includes = {}
  BY DEF Inc!Absent
<1>2. Inc!NoInterface \in InterfaceType
  BY DEF Inc!NoInterface, InterfaceType
<1>3. Inc!InitialState \in EntryType
  BY DEF Inc!InitialState, EntryType
<1>4. ASSUME NEW e \in Nat, NEW inc \in SUBSET Sources
      PROVE  /\ Inc!File(e, inc) \in [edit : Nat, includes : SUBSET Sources, present : BOOLEAN]
             /\ Inc!File(e, inc).present /\ Inc!File(e, inc).includes = inc
  BY DEF Inc!File
<1>5. QED
  BY <1>1, <1>2, <1>3, <1>4 DEF FileType

(* A build that is not running.                                            *)
LEMMA NoBuildFacts ==
  /\ Inc!NoBuild \in BuildType
  /\ Inc!NoBuild.changed = {} /\ Inc!NoBuild.missing = {} /\ Inc!NoBuild.semantic_queue = {}
  /\ \A s \in Sources : Inc!NoBuild.interface[s] = Inc!NoInterface
BY SameSources, ConstantsTyped DEF Inc!NoBuild, BuildType

(* Whoever includes an affected Source is affected.                        *)
LEMMA AffectedClosed ==
  ASSUME build.changed \subseteq committed.known
  PROVE  /\ Inc!Affected \subseteq committed.known
         /\ build.changed \subseteq Inc!Affected
         /\ \A s \in committed.known :
              committed.includes[s] \cap Inc!Affected # {} => s \in Inc!Affected
<1>1. Inc!Affected \subseteq committed.known /\ build.changed \subseteq Inc!Affected
  BY DEF Inc!Affected, Inc!Dependents
<1>2. ASSUME NEW s \in committed.known, NEW d \in committed.includes[s], d \in Inc!Affected
      PROVE  s \in Inc!Affected
  <2>1. CASE d \in build.changed
    <3>1. s \in Inc!Dependents(d)
      BY DEF Inc!Dependents
    <3>2. QED
      BY <2>1, <3>1 DEF Inc!Affected
  <2>2. ASSUME NEW c \in build.changed, d \in Inc!Dependents(c) PROVE s \in Inc!Affected
    <3>1. s \in Inc!Dependents(c)
      BY <2>2 DEF Inc!Dependents
    <3>2. QED
      BY <3>1 DEF Inc!Affected
  <2>3. QED
    BY <1>2, <2>1, <2>2 DEF Inc!Affected
<1>3. QED
  BY <1>1, <1>2

(* Who is affected is settled once the changes are known.                  *)
LEMMA AffectedSettled ==
  ASSUME committed' = committed, build'.changed = build.changed
  PROVE  Inc!Affected' = Inc!Affected
BY DEF Inc!Affected, Inc!Dependents

(* When no build runs, only what is committed matters.                     *)
LEMMA NothingRuns ==
  ASSUME disk \in [Sources -> FileType], edits \in Nat, committed \in CommittedType,
         incremental \in {"off", "idle"}, build = Inc!NoBuild, CommittedInv
  PROVE  IncInv
BY NoBuildFacts DEF IncInv, IncTypeInv, MissingInv, ObserveInv, ClaimInv, DoneInv, CountInv,
                    ParseInv, Active

(* The same of the state a build ends in.                                  *)
LEMMA BuildEnds ==
  ASSUME disk' \in [Sources -> FileType], edits' \in Nat, committed' \in CommittedType,
         incremental' = "idle", build' \in BuildType, CommittedInv'
  PROVE  IncInv'
BY DEF IncInv, IncTypeInv, MissingInv, ObserveInv, ClaimInv, DoneInv, CountInv,
       ParseInv, Active

(* What is committed stays as it is.                                       *)
LEMMA CommittedKept == ASSUME CommittedInv, committed' = committed PROVE CommittedInv'
BY DEF CommittedInv, Cached, ImportsCurrent, Inc!ImportsCurrent,
       GraphMatchesBytes, Inc!GraphMatchesBytes

(* A build is discarded.                                                   *)
LEMMA DiscardInv ==
  ASSUME IncInv, Inc!Discard, UNCHANGED <<disk, edits, committed>>
  PROVE  IncInv'
<1>1. incremental' = "idle" /\ build' = Inc!NoBuild
  BY DEF Inc!Discard
<1>2. QED
  BY <1>1, CommittedKept, BuildEnds, NoBuildFacts DEF IncInv, IncTypeInv

-----------------------------------------------------------------------------
(* The server starts with nothing.                                         *)
LEMMA InitIncInv == ASSUME FrontendInit PROVE IncInv
<1>1. /\ disk = [s \in Sources |-> Inc!Absent] /\ edits = 0
      /\ committed = [generation |-> 0, known |-> {}, physical |-> disk,
                      includes |-> [s \in Sources |-> {}], graph |-> disk,
                      cache |-> [s \in Sources |-> Inc!NoInterface]]
      /\ incremental = "off" /\ build = Inc!NoBuild
  BY DEF FrontendInit
<1>2. disk \in [Sources -> FileType] /\ edits \in Nat
  BY <1>1, ConstantsTyped
<1>3. committed \in CommittedType
  BY <1>1, <1>2, ConstantsTyped DEF CommittedType
<1>4. CommittedInv
  <2>1. ASSUME NEW s \in Sources
        PROVE  ~Cached(s) /\ ~committed.physical[s].present /\ s \notin committed.known
    BY <1>1, ConstantsTyped DEF Cached
  <2>2. ImportsCurrent
    BY <2>1, SameSources DEF ImportsCurrent, Inc!ImportsCurrent, Cached
  <2>3. GraphMatchesBytes
    BY <1>1 DEF GraphMatchesBytes, Inc!GraphMatchesBytes
  <2>4. QED
    BY <2>1, <2>2, <2>3 DEF CommittedInv
<1>5. QED
  BY <1>1, <1>2, <1>3, <1>4, NothingRuns

(* The full build hands its Sources and their interfaces over.             *)
LEMMA ReleaseIncInv ==
  ASSUME IncInv, IndInv, DiscoveryInv, PartitionInv, Release PROVE IncInv'
<1> DEFINE known == {s \in Sources : state[s].published}
           file(s) == Inc!File(0, includes[s])
           read == [s \in Sources |-> IF s \in known THEN file(s) ELSE Inc!Absent]
<1>1. /\ phase = "committed" /\ incremental' = "idle" /\ UNCHANGED <<edits, build>>
      /\ \E missing \in SUBSET (Sources \ known) :
           disk' = [s \in Sources |-> IF s \in missing THEN Inc!Absent ELSE file(s)]
      /\ committed' = [generation |-> 1, known |-> known, physical |-> read, graph |-> read,
                       includes |-> [s \in Sources |-> state[s].dependencies],
                       cache |-> PopulateCache]
  BY DEF Release
<1>2. ASSUME NEW s \in Sources
      PROVE  /\ state[s].published \in BOOLEAN
             /\ state[s].dependencies \in SUBSET Sources
             /\ file(s) \in FileType /\ file(s).present /\ file(s).includes = includes[s]
  BY ConstantsTyped DEF IndInv, TypeInv, StateType
<1>3. ASSUME NEW s \in known
      PROVE  state[s].dependencies = includes[s] /\ includes[s] \subseteq known
  <2>1. known = Universe
    BY <1>1, CommitImplies DEF CommitIsComplete
  <2>2. QED
    BY <2>1, UniverseFacts DEF IndInv, SourceInv
<1> HIDE DEF known, file
<1>4. disk' \in [Sources -> FileType]
  BY <1>1, <1>2, ConstantsTyped
<1>5. PopulateCache \in [Sources -> InterfaceType]
      /\ \A s \in Sources :
           PopulateCache[s] = IF s \in known
                              THEN [generation |-> 1, imports |-> state[s].dependencies \X {1}]
                              ELSE Inc!NoInterface
  BY <1>2, ConstantsTyped DEF PopulateCache, InterfaceType, known
<1>6. /\ committed'.known = known /\ committed'.physical = read
      /\ committed'.includes = [s \in Sources |-> state[s].dependencies]
      /\ committed'.graph = read /\ committed'.cache = PopulateCache
  BY <1>1
<1>7. committed' \in CommittedType
  BY <1>1, <1>2, <1>5, ConstantsTyped DEF CommittedType, known
<1>8. ASSUME NEW s \in Sources
      PROVE  /\ Cached(s)' <=> s \in known
             /\ committed'.physical[s].present <=> s \in known
             /\ s \in known => committed'.includes[s] = committed'.physical[s].includes
  <2>1. Cached(s)' <=> s \in known
    BY <1>5, <1>6 DEF Cached, Inc!NoInterface
  <2>2. QED
    BY <1>2, <1>3, <1>6, <2>1, ConstantsTyped
<1>9. ASSUME NEW s \in Sources, Cached(s)'
      PROVE  /\ \A d \in committed'.includes[s] : committed'.cache[d] # Inc!NoInterface
             /\ committed'.cache[s].imports =
                  {<<d, committed'.cache[d].generation>> : d \in committed'.includes[s]}
  <2>1. s \in known /\ committed'.includes[s] = state[s].dependencies
        /\ state[s].dependencies \subseteq known /\ known \subseteq Sources
    BY <1>3, <1>6, <1>8, <1>9 DEF known
  <2>2. \A d \in state[s].dependencies :
          committed'.cache[d] # Inc!NoInterface /\ committed'.cache[d].generation = 1
    BY <1>5, <1>6, <1>8, <2>1 DEF Cached
  <2>3. committed'.cache[s].imports = state[s].dependencies \X {1}
    BY <1>5, <1>6, <2>1
  <2>4. QED
    BY <2>1, <2>2, <2>3
<1>10. CommittedInv'
  <2>1. ImportsCurrent'
    BY <1>9, SameSources DEF ImportsCurrent, Inc!ImportsCurrent, Cached
  <2>2. GraphMatchesBytes'
    BY <1>6 DEF GraphMatchesBytes, Inc!GraphMatchesBytes
  <2>3. QED
    BY <1>6, <1>8, <2>1, <2>2 DEF CommittedInv
<1>11. QED
  BY <1>1, <1>4, <1>7, <1>10, BuildEnds DEF IncInv, IncTypeInv

(* A step that leaves the incremental builds alone.                        *)
LEMMA StutterIncInv == ASSUME IncInv, UNCHANGED incrementalVars PROVE IncInv'
<1>1. UNCHANGED <<disk, edits, committed, incremental, build>>
  BY DEF incrementalVars
<1>2. /\ Inc!Affected' = Inc!Affected
      /\ Inc!Cyclic(build.includes)' <=> Inc!Cyclic(build.includes)
  BY <1>1, AffectedSettled DEF Inc!Cyclic
<1>3. CommittedInv'
  BY <1>1, CommittedKept DEF IncInv
<1>4. IncTypeInv' /\ MissingInv' /\ ObserveInv'
  BY <1>1 DEF IncInv, IncTypeInv, MissingInv, ObserveInv
<1>5. ClaimInv' /\ DoneInv'
  <2>1. ClaimInv'
    BY <1>1, <1>2 DEF IncInv, ClaimInv, Active, Present, Cached
  <2>2. DoneInv'
    BY <1>1 DEF IncInv, DoneInv, Active, Present
  <2>3. QED
    BY <2>1, <2>2
<1>6. CountInv'
  BY <1>1 DEF IncInv, CountInv, Active, Awaited
<1>7. ParseInv'
  BY <1>1, <1>2 DEF IncInv, ParseInv, Active, Awaited, GenerationOf
<1>8. QED
  BY <1>3, <1>4, <1>5, <1>6, <1>7 DEF IncInv

-----------------------------------------------------------------------------
(* A file is written or removed, but none that is known to be missing.     *)
LEMMA EditIncInv ==
  ASSUME IncInv, ~MayRecreate, NEW s \in Sources, NEW f \in FileType, Inc!Edit(s, f)
  PROVE  IncInv'
<1>1. /\ edits' = edits + 1 /\ disk' = [disk EXCEPT ![s] = f] /\ s \notin build.missing
      /\ committed' = committed /\ incremental' = incremental /\ build' = build
  BY DEF Inc!Edit
<1>2. IncTypeInv' /\ MissingInv' /\ ObserveInv'
  <2>1. disk' \in [Sources -> FileType] /\ edits' \in Nat
    BY <1>1 DEF IncInv, IncTypeInv
  <2>2. \A t \in build.missing : disk'[t] = disk[t]
    BY <1>1 DEF IncInv, IncTypeInv, BuildType
  <2>3. QED
    BY <1>1, <2>1, <2>2 DEF IncInv, IncTypeInv, MissingInv, ObserveInv
<1>3. /\ Inc!Affected' = Inc!Affected
      /\ Inc!Cyclic(build.includes)' <=> Inc!Cyclic(build.includes)
  BY <1>1, AffectedSettled DEF Inc!Cyclic
<1>4. CommittedInv'
  BY <1>1, CommittedKept DEF IncInv
<1>5. ClaimInv'
  BY <1>1, <1>3 DEF IncInv, ClaimInv, Active, Present, Cached
<1>6. DoneInv'
  BY <1>1 DEF IncInv, DoneInv, Active, Present
<1>7. CountInv'
  BY <1>1 DEF IncInv, CountInv, Active, Awaited
<1>8. ParseInv'
  BY <1>1, <1>3 DEF IncInv, ParseInv, Active, Awaited, GenerationOf
<1>9. QED
  BY <1>2, <1>4, <1>5, <1>6, <1>7, <1>8 DEF IncInv

(* A build begins.                                                         *)
LEMMA BeginIncInv == ASSUME IncInv, NEW dirty, Inc!Begin(dirty) PROVE IncInv'
<1>1. /\ dirty \subseteq committed.known /\ incremental' = "observe"
      /\ build' = [Inc!NoBuild EXCEPT !.observe = dirty, !.known = committed.known,
                                      !.physical = committed.physical,
                                      !.includes = committed.includes]
      /\ UNCHANGED <<disk, edits, committed>>
  BY DEF Inc!Begin
<1>2. /\ committed.known \in SUBSET Sources /\ committed.physical \in [Sources -> FileType]
      /\ committed.includes \in [Sources -> SUBSET Sources]
  BY DEF IncInv, IncTypeInv, CommittedType
<1>3. /\ build' \in BuildType
      /\ build'.observe = dirty /\ build'.known = committed.known
      /\ build'.physical = committed.physical /\ build'.includes = committed.includes
      /\ build'.changed = {} /\ build'.missing = {} /\ build'.semantic_queue = {}
      /\ \A s \in Sources : build'.interface[s] = Inc!NoInterface
  BY <1>1, <1>2, NoBuildFacts DEF BuildType
<1>4. IncTypeInv' /\ MissingInv' /\ ObserveInv' /\ CommittedInv'
  BY <1>1, <1>3, CommittedKept DEF IncInv, IncTypeInv, MissingInv, ObserveInv
<1>5. QED
  BY <1>1, <1>4 DEF IncInv, ClaimInv, DoneInv, CountInv, ParseInv, Active

(* A dirty Source is observed.                                             *)
LEMMA ObserveIncInv == ASSUME IncInv, NEW s, Inc!Observe(s) PROVE IncInv'
<1> DEFINE changed == IF disk[s] # committed.physical[s]
                      THEN build.changed \cup {s} ELSE build.changed
           missing == IF disk[s].present THEN build.missing ELSE build.missing \cup {s}
<1>1. /\ incremental = "observe" /\ incremental' = "observe" /\ s \in build.observe
      /\ build' = [build EXCEPT !.observe = @ \ {s}, !.physical[s] = disk[s],
                                !.changed = changed, !.missing = missing]
      /\ UNCHANGED <<disk, edits, committed>>
  BY DEF Inc!Observe
<1>2. s \in Sources /\ s \in committed.known /\ disk[s] \in FileType
      /\ build.physical \in [Sources -> FileType]
      /\ changed \in SUBSET Sources /\ missing \in SUBSET Sources
  BY <1>1 DEF IncInv, IncTypeInv, BuildType, ObserveInv
<1>3. /\ build' \in BuildType
      /\ build'.observe = build.observe \ {s} /\ build'.known = build.known
      /\ build'.physical = [build.physical EXCEPT ![s] = disk[s]]
      /\ build'.includes = build.includes
      /\ build'.changed = changed /\ build'.missing = missing
      /\ build'.semantic_queue = build.semantic_queue /\ build'.interface = build.interface
  <2> HIDE DEF changed, missing
  <2>1. [build.physical EXCEPT ![s] = disk[s]] \in [Sources -> FileType]
    BY <1>2
  <2>2. QED
    BY <1>1, <1>2, <2>1 DEF IncInv, IncTypeInv, BuildType
<1>4. IncTypeInv' /\ MissingInv' /\ CommittedInv'
  <2>1. IncTypeInv' /\ CommittedInv'
    BY <1>1, <1>3, CommittedKept DEF IncInv, IncTypeInv
  <2>2. MissingInv'
    BY <1>1, <1>3 DEF IncInv, MissingInv
  <2>3. QED
    BY <2>1, <2>2
<1>5. ObserveInv'
  <2>1. /\ build.changed \subseteq committed.known /\ committed.known \subseteq build.known
        /\ \A t \in build.changed : build.physical[t].present \/ t \in build.missing
        /\ build.known = committed.known /\ build.includes = committed.includes
        /\ build.observe \subseteq committed.known /\ build.semantic_queue = {}
        /\ \A t \in Sources :
             /\ t \notin build.changed => build.physical[t] = committed.physical[t]
             /\ build.interface[t] = Inc!NoInterface
    BY <1>1 DEF IncInv, ObserveInv
  <2>2. changed \subseteq committed.known
    BY <1>2, <2>1
  <2>3. ASSUME NEW t \in Sources
        PROVE  /\ t \in changed => build'.physical[t].present \/ t \in missing
               /\ t \notin changed => build'.physical[t] = committed.physical[t]
    <3>1. CASE t = s
      BY <1>2, <1>3, <3>1
    <3>2. CASE t # s
      BY <1>2, <1>3, <2>1, <3>2
    <3>3. QED
      BY <3>1, <3>2
  <2>4. QED
    BY <1>1, <1>2, <1>3, <2>1, <2>2, <2>3 DEF ObserveInv
<1>6. QED
  BY <1>1, <1>4, <1>5 DEF IncInv, ClaimInv, DoneInv, CountInv, ParseInv, Active

(* The entry of a Source that is claimed (a) or removed (b).               *)
LEMMA EntryFacts ==
  ASSUME NEW a \in BOOLEAN, NEW b \in BOOLEAN, NEW e,
         e = [Inc!InitialState EXCEPT !.claimed = a, !.removed = b, !.parsed = b, !.entry = b]
  PROVE  /\ e \in EntryType
         /\ e.claimed <=> a
         /\ (e.removed <=> b) /\ (e.parsed <=> b) /\ (e.entry <=> b)
         /\ ~e.done /\ ~e.published /\ e.dependents = {}
BY DEF Inc!InitialState, EntryType

(* The affected Sources are known.                                         *)
LEMMA MarkAffectedIncInv == ASSUME IncInv, Inc!MarkAffected PROVE IncInv'
<1> DEFINE gone == {s \in Inc!Affected : ~build.physical[s].present}
           here == Inc!Affected \ gone
           entry(s) == [Inc!InitialState EXCEPT !.claimed = s \in here,
                                                !.removed = s \in gone,
                                                !.parsed = s \in gone,
                                                !.entry = s \in gone]
<1>1. /\ incremental = "observe" /\ incremental' = "discover"
      /\ UNCHANGED <<disk, edits, committed>>
      /\ build' = [build EXCEPT
                     !.includes = [s \in Sources |-> IF s \in gone THEN {} ELSE @[s]],
                     !.discovery_queue = here,
                     !.state = [s \in Sources |-> entry(s)]]
  BY SameSources DEF Inc!MarkAffected
<1>2. /\ build.changed \subseteq committed.known /\ committed.known \subseteq build.known
      /\ \A t \in build.changed : build.physical[t].present \/ t \in build.missing
      /\ build.known = committed.known /\ build.includes = committed.includes
      /\ build.semantic_queue = {}
      /\ \A t \in Sources :
           /\ t \notin build.changed => build.physical[t] = committed.physical[t]
           /\ build.interface[t] = Inc!NoInterface
  BY <1>1 DEF IncInv, ObserveInv
<1>3. Inc!Affected \subseteq Sources
  BY <1>2, AffectedClosed DEF IncInv, IncTypeInv, CommittedType
<1>4. ASSUME NEW s \in Sources
      PROVE  /\ entry(s) \in EntryType
             /\ entry(s).claimed <=> s \in here
             /\ entry(s).removed <=> s \in gone
             /\ entry(s).parsed <=> s \in gone
             /\ entry(s).entry <=> s \in gone
             /\ ~entry(s).done /\ ~entry(s).published /\ entry(s).dependents = {}
  <2> DEFINE a == s \in here
             b == s \in gone
             e == entry(s)
  <2>1. a \in BOOLEAN /\ (a <=> s \in here)
    OBVIOUS
  <2>2. b \in BOOLEAN /\ (b <=> s \in gone)
    OBVIOUS
  <2>3. e = [Inc!InitialState EXCEPT !.claimed = a, !.removed = b, !.parsed = b, !.entry = b]
    BY Zenon
  <2> HIDE DEF a, b, e
  <2>4. /\ e \in EntryType
        /\ e.claimed <=> a
        /\ (e.removed <=> b) /\ (e.parsed <=> b) /\ (e.entry <=> b)
        /\ ~e.done /\ ~e.published /\ e.dependents = {}
    BY <2>1, <2>2, <2>3, EntryFacts, ZenonT(90)
  <2> HIDE DEF here, gone, entry
  <2>5. QED
    BY <2>1, <2>2, <2>4 DEF e
<1> HIDE DEF entry
<1>5. /\ build' \in BuildType
      /\ build'.includes = [s \in Sources |-> IF s \in gone THEN {} ELSE committed.includes[s]]
      /\ build'.discovery_queue = here
      /\ build'.state = [s \in Sources |-> entry(s)]
      /\ build'.changed = build.changed /\ build'.known = build.known
      /\ build'.missing = build.missing /\ build'.physical = build.physical
      /\ build'.semantic_queue = {} /\ build'.interface = build.interface
  <2>1. /\ here \in SUBSET Sources
        /\ [s \in Sources |-> entry(s)] \in [Sources -> EntryType]
        /\ [s \in Sources |-> IF s \in gone THEN {} ELSE build.includes[s]]
             \in [Sources -> SUBSET Sources]
    BY <1>3, <1>4 DEF IncInv, IncTypeInv, BuildType
  <2> HIDE DEF here
  <2>2. QED
    BY <1>1, <1>2, <2>1 DEF IncInv, IncTypeInv, BuildType
<1>6. Inc!Affected' = Inc!Affected
  BY <1>1, <1>5, AffectedSettled
<1>7. ASSUME NEW s \in Sources
      PROVE  /\ build'.state[s].claimed <=> s \in here
             /\ build'.state[s].removed <=> s \in gone
             /\ build'.state[s].parsed <=> s \in gone
             /\ build'.state[s].entry <=> s \in gone
             /\ ~build'.state[s].done /\ ~build'.state[s].published
             /\ build'.state[s].dependents = {}
             /\ build'.includes[s] = IF s \in gone THEN {} ELSE committed.includes[s]
             /\ build'.physical[s] = build.physical[s]
             /\ build'.interface[s] = Inc!NoInterface
  BY <1>2, <1>4, <1>5
<1>8. IncTypeInv' /\ CommittedInv' /\ MissingInv'
  BY <1>1, <1>5, CommittedKept DEF IncInv, IncTypeInv, MissingInv
<1>9. ObserveInv'
  BY <1>1, <1>2, <1>5 DEF ObserveInv
<1>10. ClaimInv'
  BY <1>1, <1>5, <1>6, <1>7 DEF ClaimInv, Present
<1>11. DoneInv'
  BY <1>1, <1>2, <1>5, <1>7 DEF DoneInv
<1>12. CountInv'
  BY <1>5, <1>7 DEF CountInv
<1>13. ParseInv'
  BY <1>1, <1>7 DEF ParseInv
<1>14. QED
  BY <1>8, <1>9, <1>10, <1>11, <1>12, <1>13 DEF IncInv

(* The discovery ends.                                                     *)
LEMMA FinishDiscoveryIncInv == ASSUME IncInv, Inc!FinishDiscovery PROVE IncInv'
<1>1. /\ incremental = "discover" /\ build.discovery_queue = {}
      /\ UNCHANGED <<disk, edits, committed>>
  BY DEF Inc!FinishDiscovery
<1>2. CASE Inc!Discard
  BY <1>1, <1>2, DiscardInv
<1>3. CASE ~Inc!Cyclic(build.includes) /\ incremental' = "parse" /\ build' = build
  <2>1. /\ Inc!Affected' = Inc!Affected
        /\ Inc!Cyclic(build.includes)' <=> Inc!Cyclic(build.includes)
    BY <1>1, <1>3, AffectedSettled DEF Inc!Cyclic
  <2>2. CommittedInv' /\ IncTypeInv' /\ MissingInv' /\ ObserveInv'
    BY <1>1, <1>3, CommittedKept DEF IncInv, IncTypeInv, MissingInv, ObserveInv
  <2>3. ClaimInv'
    BY <1>1, <1>3, <2>1 DEF IncInv, ClaimInv, Active, Present, Cached
  <2>4. DoneInv'
    BY <1>1, <1>3 DEF IncInv, DoneInv, Active, Present
  <2>5. CountInv'
    BY <1>1, <1>3, ZenonT(90) DEF IncInv, CountInv, Active, Awaited
  <2>6. ParseInv'
    BY <1>1, <1>3, <2>1 DEF IncInv, ParseInv, Active, Awaited, GenerationOf
  <2>7. QED
    BY <2>2, <2>3, <2>4, <2>5, <2>6 DEF IncInv
<1>4. QED
  BY <1>2, <1>3 DEF Inc!FinishDiscovery

-----------------------------------------------------------------------------
(* So are their sizes.                                                     *)
LEMMA SameCardinality == \A S : Inc!Cardinality(S) = Cardinality(S)
BY DEF Inc!Cardinality, Cardinality

(* The entry of a Source after a discovery, which took it from the cache   *)
(* (a), claimed it (b), found it included (c), or was its own (d).         *)
LEMMA DiscoveredEntry ==
  ASSUME NEW e \in EntryType, NEW a \in BOOLEAN, NEW b \in BOOLEAN, NEW c \in BOOLEAN,
         NEW d \in BOOLEAN, NEW s \in Sources, NEW I \in SUBSET Sources, NEW r \in Nat,
         NEW f,
         f = [e EXCEPT !.published = @ \/ a, !.claimed = @ \/ b,
                       !.dependents = IF c THEN @ \cup {s} ELSE @,
                       !.dependencies = IF d THEN I ELSE @,
                       !.remaining = IF d THEN r ELSE @,
                       !.done = @ \/ d]
  PROVE  /\ f \in EntryType
         /\ (f.published <=> e.published \/ a) /\ (f.claimed <=> e.claimed \/ b)
         /\ f.done <=> e.done \/ d
         /\ f.dependents = IF c THEN e.dependents \cup {s} ELSE e.dependents
         /\ f.dependencies = IF d THEN I ELSE e.dependencies
         /\ f.remaining = IF d THEN r ELSE e.remaining
         /\ (f.removed <=> e.removed) /\ (f.parsed <=> e.parsed) /\ (f.entry <=> e.entry)
BY ZenonT(90) DEF EntryType

(* What the discovery of s, if it succeeds, makes of the entries.          *)
LEMMA DiscoveredFacts ==
  ASSUME IncInv, NEW s \in Sources, Inc!FileOf(s).includes \in SUBSET Sources
  PROVE  LET deps == Inc!FileOf(s).includes
             cached == Inc!FromCache(deps)
             st == Inc!Discovered(s, deps, cached)
             waiting == Inc!WaitsFor(deps, cached)
         IN
         /\ st \in [Sources -> EntryType]
         /\ \A t \in Sources :
              LET e == build.state[t]
                  f == st[t]
              IN
              /\ f.published <=> e.published \/ t \in cached
              /\ f.claimed <=> e.claimed \/ t \in Inc!NewlyClaimed(deps, cached)
              /\ f.done <=> e.done \/ t = s
              /\ f.dependents = IF t \in deps THEN e.dependents \cup {s} ELSE e.dependents
              /\ f.dependencies = IF t = s THEN deps ELSE e.dependencies
              /\ f.remaining = IF t = s THEN Cardinality(waiting) ELSE e.remaining
              /\ (f.removed <=> e.removed) /\ (f.parsed <=> e.parsed) /\ (f.entry <=> e.entry)
<1> DEFINE deps == Inc!FileOf(s).includes
           cached == Inc!FromCache(deps)
           waiting == Inc!WaitsFor(deps, cached)
           new == Inc!NewlyClaimed(deps, cached)
           entry(t) == [build.state[t] EXCEPT
                          !.published = @ \/ t \in cached,
                          !.claimed = @ \/ t \in new,
                          !.dependents = IF t \in deps THEN @ \cup {s} ELSE @,
                          !.dependencies = IF t = s THEN deps ELSE @,
                          !.remaining = IF t = s THEN Cardinality(waiting) ELSE @,
                          !.done = @ \/ t = s]
           st == Inc!Discovered(s, deps, cached)
<1> HIDE DEF deps, cached
<1>1. st = [t \in Inc!Sources |-> entry(t)]
  BY SameCardinality, ZenonT(90) DEF Inc!Discovered
<1>2. Cardinality(waiting) \in Nat
  BY Sizes DEF Inc!WaitsFor, deps
<1>3. \A t \in Sources : build.state[t] \in EntryType
  BY DEF IncInv, IncTypeInv, BuildType
<1> HIDE DEF waiting, new
<1>4. ASSUME NEW t \in Sources
      PROVE  LET e == build.state[t]
                 f == entry(t)
             IN
             /\ f \in EntryType
             /\ f.published <=> e.published \/ t \in cached
             /\ f.claimed <=> e.claimed \/ t \in new
             /\ f.done <=> e.done \/ t = s
             /\ f.dependents = IF t \in deps THEN e.dependents \cup {s} ELSE e.dependents
             /\ f.dependencies = IF t = s THEN deps ELSE e.dependencies
             /\ f.remaining = IF t = s THEN Cardinality(waiting) ELSE e.remaining
             /\ (f.removed <=> e.removed) /\ (f.parsed <=> e.parsed) /\ (f.entry <=> e.entry)
  <2> DEFINE e == build.state[t]
             a == t \in cached
             b == t \in new
             c == t \in deps
             d == t = s
             r == Cardinality(waiting)
             f == entry(t)
  <2>1. f = [e EXCEPT !.published = @ \/ a, !.claimed = @ \/ b,
                      !.dependents = IF c THEN @ \cup {s} ELSE @,
                      !.dependencies = IF d THEN deps ELSE @,
                      !.remaining = IF d THEN r ELSE @,
                      !.done = @ \/ d]
    BY Zenon
  <2>2. /\ a \in BOOLEAN /\ b \in BOOLEAN /\ c \in BOOLEAN /\ d \in BOOLEAN
        /\ r \in Nat /\ e \in EntryType /\ deps \in SUBSET Sources
    BY <1>2, <1>3 DEF deps
  <2> HIDE DEF e, a, b, c, d, r, f, entry
  <2>3. /\ f \in EntryType
        /\ (f.published <=> e.published \/ a) /\ (f.claimed <=> e.claimed \/ b)
        /\ f.done <=> e.done \/ d
        /\ f.dependents = IF c THEN e.dependents \cup {s} ELSE e.dependents
        /\ f.dependencies = IF d THEN deps ELSE e.dependencies
        /\ f.remaining = IF d THEN r ELSE e.remaining
        /\ (f.removed <=> e.removed) /\ (f.parsed <=> e.parsed) /\ (f.entry <=> e.entry)
    BY <2>1, <2>2, ZenonT(90) DEF EntryType
  <2>4. QED
    BY <2>3 DEF e, a, b, c, d, r, f
<1> HIDE DEF entry, st
<1>5. st \in [Sources -> EntryType] /\ \A t \in Sources : st[t] = entry(t)
  BY <1>1, <1>4, SameSources
<1>6. QED
  BY <1>4, <1>5 DEF deps, cached, st, waiting, new

(* What it does to the build.                                              *)
LEMMA DiscoverEffect ==
  ASSUME IncInv, NEW s \in Sources, Inc!Discover(s), incremental' # "idle"
  PROVE  LET file == Inc!FileOf(s)
             deps == file.includes
             cached == Inc!FromCache(deps)
             waiting == Inc!WaitsFor(deps, cached)
         IN
         /\ incremental = "discover" /\ incremental' = "discover"
         /\ s \in build.discovery_queue /\ UNCHANGED <<disk, edits, committed>>
         /\ file \in FileType /\ file.present /\ deps \in SUBSET Sources
         /\ \A d \in deps : disk[d].present
         /\ build' \in BuildType
         /\ build'.known = build.known \cup {s} /\ build'.changed = build.changed
         /\ build'.missing = build.missing /\ build'.interface = build.interface
         /\ build'.discovery_queue =
              (build.discovery_queue \ {s}) \cup Inc!NewlyClaimed(deps, cached)
         /\ build'.semantic_queue = IF waiting = {} THEN build.semantic_queue \cup {s}
                                    ELSE build.semantic_queue
         /\ build'.physical = [build.physical EXCEPT ![s] = file]
         /\ build'.includes = [build.includes EXCEPT ![s] = deps]
         /\ build'.state \in [Sources -> EntryType]
         /\ \A t \in Sources :
              LET e == build.state[t]
                  f == build'.state[t]
              IN
              /\ f.published <=> e.published \/ t \in cached
              /\ f.claimed <=> e.claimed \/ t \in Inc!NewlyClaimed(deps, cached)
              /\ f.done <=> e.done \/ t = s
              /\ f.dependents = IF t \in deps THEN e.dependents \cup {s} ELSE e.dependents
              /\ f.dependencies = IF t = s THEN deps ELSE e.dependencies
              /\ f.remaining = IF t = s THEN Cardinality(waiting) ELSE e.remaining
              /\ (f.removed <=> e.removed) /\ (f.parsed <=> e.parsed) /\ (f.entry <=> e.entry)
<1> DEFINE file == Inc!FileOf(s)
           deps == file.includes
           cached == Inc!FromCache(deps)
           waiting == Inc!WaitsFor(deps, cached)
           new == Inc!NewlyClaimed(deps, cached)
           st == Inc!Discovered(s, deps, cached)
<1>1. /\ incremental = "discover" /\ s \in build.discovery_queue
      /\ UNCHANGED <<disk, edits, committed>>
      /\ file.present /\ (\A d \in deps : disk[d].present) /\ incremental' = incremental
      /\ build' = [build EXCEPT
               !.known = @ \cup {s},
               !.physical[s] = file,
               !.includes[s] = deps,
               !.discovery_queue = (@ \ {s}) \cup new,
               !.semantic_queue = IF waiting = {} THEN @ \cup {s} ELSE @,
               !.state = st]
  BY Zenon DEF Inc!Discover, Inc!Discard
<1>2. file \in FileType /\ deps \in SUBSET Sources
  BY DEF IncInv, IncTypeInv, BuildType, Inc!FileOf, FileType
<1>3. new \in SUBSET Sources
  BY <1>2 DEF Inc!NewlyClaimed
<1>4. /\ st \in [Sources -> EntryType]
      /\ \A t \in Sources :
           LET e == build.state[t]
               f == st[t]
           IN
           /\ f.published <=> e.published \/ t \in cached
           /\ f.claimed <=> e.claimed \/ t \in new
           /\ f.done <=> e.done \/ t = s
           /\ f.dependents = IF t \in deps THEN e.dependents \cup {s} ELSE e.dependents
           /\ f.dependencies = IF t = s THEN deps ELSE e.dependencies
           /\ f.remaining = IF t = s THEN Cardinality(waiting) ELSE e.remaining
           /\ (f.removed <=> e.removed) /\ (f.parsed <=> e.parsed) /\ (f.entry <=> e.entry)
  BY <1>2, DiscoveredFacts
<1> HIDE DEF file, deps, cached, waiting, new, st
<1>5. /\ build.physical \in [Sources -> FileType]
      /\ build.includes \in [Sources -> SUBSET Sources] /\ build.known \in SUBSET Sources
      /\ build.discovery_queue \in SUBSET Sources /\ build.semantic_queue \in SUBSET Sources
  BY DEF IncInv, IncTypeInv, BuildType
<1>6. /\ [build.physical EXCEPT ![s] = file] \in [Sources -> FileType]
      /\ [build.includes EXCEPT ![s] = deps] \in [Sources -> SUBSET Sources]
      /\ (build.discovery_queue \ {s}) \cup new \in SUBSET Sources
      /\ build.known \cup {s} \in SUBSET Sources
      /\ (IF waiting = {} THEN build.semantic_queue \cup {s} ELSE build.semantic_queue)
           \in SUBSET Sources
  BY <1>2, <1>3, <1>5
<1>7. /\ build' \in BuildType
      /\ build'.known = build.known \cup {s} /\ build'.changed = build.changed
      /\ build'.missing = build.missing /\ build'.interface = build.interface
      /\ build'.discovery_queue = (build.discovery_queue \ {s}) \cup new
      /\ build'.semantic_queue = IF waiting = {} THEN build.semantic_queue \cup {s}
                                 ELSE build.semantic_queue
      /\ build'.physical = [build.physical EXCEPT ![s] = file]
      /\ build'.includes = [build.includes EXCEPT ![s] = deps]
      /\ build'.state = st
  BY <1>1, <1>4, <1>6 DEF IncInv, IncTypeInv, BuildType
<1>8. \A t \in Sources :
          LET e == build.state[t]
              f == build'.state[t]
          IN
          /\ f.published <=> e.published \/ t \in cached
          /\ f.claimed <=> e.claimed \/ t \in new
          /\ f.done <=> e.done \/ t = s
          /\ f.dependents = IF t \in deps THEN e.dependents \cup {s} ELSE e.dependents
          /\ f.dependencies = IF t = s THEN deps ELSE e.dependencies
          /\ f.remaining = IF t = s THEN Cardinality(waiting) ELSE e.remaining
          /\ (f.removed <=> e.removed) /\ (f.parsed <=> e.parsed) /\ (f.entry <=> e.entry)
  BY <1>4, <1>7
<1>9. QED
  BY <1>1, <1>2, <1>4, <1>7, <1>8 DEF file, deps, cached, waiting, new, st

-----------------------------------------------------------------------------
(* What a discovery takes from the cache is not affected, and what it      *)
(* claims is not cached.                                                   *)
LEMMA FromCacheFacts ==
  ASSUME IncInv, incremental = "discover", NEW deps \in SUBSET Sources,
         \A d \in deps : disk[d].present
  PROVE  LET cached == Inc!FromCache(deps)
             new == Inc!NewlyClaimed(deps, cached)
         IN
         /\ cached \in SUBSET Sources /\ new \in SUBSET Sources
         /\ \A d \in cached :
              /\ Cached(d) /\ d \notin Inc!Affected
              /\ ~build.state[d].claimed /\ ~build.state[d].published
         /\ \A d \in new :
              /\ ~Cached(d) /\ d \notin cached
              /\ ~build.state[d].claimed /\ ~build.state[d].published
         /\ \A d \in deps :
              \/ build.state[d].claimed \/ build.state[d].published
              \/ d \in cached \/ d \in new
<1> DEFINE cached == Inc!FromCache(deps)
           new == Inc!NewlyClaimed(deps, cached)
<1>1. cached \in SUBSET Sources /\ new \in SUBSET Sources
  BY DEF Inc!FromCache, Inc!NewlyClaimed
<1>2. ASSUME NEW d \in cached
      PROVE  /\ Cached(d) /\ d \notin Inc!Affected
             /\ ~build.state[d].claimed /\ ~build.state[d].published
  <2>1. d \in deps /\ Cached(d) /\ ~build.state[d].claimed /\ ~build.state[d].published
    BY DEF Inc!FromCache, Cached
  <2>2. d \in Sources /\ disk[d].present /\ Active
    BY <2>1 DEF Active
  <2>3. ASSUME d \in Inc!Affected PROVE FALSE
    <3>1. ~Present(d)
      BY <2>1, <2>2, <2>3 DEF IncInv, ClaimInv
    <3>2. d \notin build.changed
      <4>1. d \notin build.missing
        BY <2>2 DEF IncInv, MissingInv, Active
      <4>2. QED
        BY <2>2, <3>1, <4>1 DEF IncInv, ObserveInv, Active, Present
    <3>3. d \in committed.known
      BY <2>2, <2>3, AffectedClosed DEF IncInv, ObserveInv, Active
    <3>4. build.physical[d] = committed.physical[d]
      BY <2>2, <3>2, <3>3 DEF IncInv, DoneInv
    <3>5. QED
      BY <2>1, <2>2, <3>1, <3>4 DEF IncInv, CommittedInv, Present
  <2>4. QED
    BY <2>1, <2>3
<1>3. ASSUME NEW d \in new
      PROVE  /\ ~Cached(d) /\ d \notin cached
             /\ ~build.state[d].claimed /\ ~build.state[d].published
  BY DEF Inc!FromCache, Inc!NewlyClaimed, Cached
<1>4. ASSUME NEW d \in deps
      PROVE  \/ build.state[d].claimed \/ build.state[d].published
             \/ d \in cached \/ d \in new
  BY DEF Inc!NewlyClaimed
<1> HIDE DEF cached, new
<1>5. QED
  BY <1>1, <1>2, <1>3, <1>4 DEF cached, new

(* A Source is discovered, and what it includes taken from the cache or    *)
(* claimed.                                                                *)
LEMMA DiscoverIncInv == ASSUME IncInv, NEW s \in Sources, Inc!Discover(s) PROVE IncInv'
<1> SUFFICES ASSUME incremental' # "idle" PROVE IncInv'
  BY DiscardInv DEF Inc!Discover, IncInv, IncTypeInv
<1> DEFINE file == Inc!FileOf(s)
           deps == file.includes
           cached == Inc!FromCache(deps)
           waiting == Inc!WaitsFor(deps, cached)
           new == Inc!NewlyClaimed(deps, cached)
<1>1. /\ incremental = "discover" /\ incremental' = "discover"
      /\ s \in build.discovery_queue /\ UNCHANGED <<disk, edits, committed>>
      /\ file \in FileType /\ file.present /\ deps \in SUBSET Sources
      /\ \A d \in deps : disk[d].present
      /\ build' \in BuildType
      /\ build'.known = build.known \cup {s} /\ build'.changed = build.changed
      /\ build'.missing = build.missing /\ build'.interface = build.interface
      /\ build'.discovery_queue = (build.discovery_queue \ {s}) \cup new
      /\ build'.semantic_queue = IF waiting = {} THEN build.semantic_queue \cup {s}
                                 ELSE build.semantic_queue
      /\ build'.physical = [build.physical EXCEPT ![s] = file]
      /\ build'.includes = [build.includes EXCEPT ![s] = deps]
  BY DiscoverEffect
<1>2. /\ s \in build.known => file = build.physical[s]
      /\ waiting = {d \in deps : ~build.state[d].published /\ d \notin cached}
  BY DEF Inc!FileOf, Inc!WaitsFor
<1>3. ASSUME NEW t \in Sources
      PROVE  /\ build'.state[t].published <=> build.state[t].published \/ t \in cached
             /\ build'.state[t].claimed <=> build.state[t].claimed \/ t \in new
             /\ build'.state[t].done <=> build.state[t].done \/ t = s
             /\ build'.state[t].dependents = IF t \in deps THEN build.state[t].dependents \cup {s}
                                             ELSE build.state[t].dependents
             /\ build'.state[t].dependencies = IF t = s THEN deps
                                               ELSE build.state[t].dependencies
             /\ build'.state[t].remaining = IF t = s THEN Cardinality(waiting)
                                            ELSE build.state[t].remaining
             /\ build'.state[t].removed <=> build.state[t].removed
             /\ build'.state[t].parsed <=> build.state[t].parsed
             /\ build'.state[t].entry <=> build.state[t].entry
             /\ build'.physical[t] = IF t = s THEN file ELSE build.physical[t]
             /\ build'.includes[t] = IF t = s THEN deps ELSE build.includes[t]
  <2>1. /\ build.physical \in [Sources -> FileType]
        /\ build.includes \in [Sources -> SUBSET Sources]
    BY DEF IncInv, IncTypeInv, BuildType
  <2>2. build'.physical[t] = IF t = s THEN file ELSE build.physical[t]
    <3> HIDE DEF file
    <3>1. QED
      BY <1>1, <2>1
  <2>3. build'.includes[t] = IF t = s THEN deps ELSE build.includes[t]
    <3> HIDE DEF deps
    <3>1. QED
      BY <1>1, <2>1
  <2>4. QED
    BY <2>2, <2>3, DiscoverEffect
<1> HIDE DEF file
<1>4. /\ cached \in SUBSET Sources /\ new \in SUBSET Sources
      /\ \A d \in cached :
           /\ Cached(d) /\ d \notin Inc!Affected
           /\ ~build.state[d].claimed /\ ~build.state[d].published
      /\ \A d \in new :
           /\ ~Cached(d) /\ d \notin cached
           /\ ~build.state[d].claimed /\ ~build.state[d].published
      /\ \A d \in deps :
           \/ build.state[d].claimed \/ build.state[d].published
           \/ d \in cached \/ d \in new
  <2> HIDE DEF deps
  <2>1. QED
    BY <1>1, FromCacheFacts
<1> HIDE DEF deps, cached, waiting, new
<1>5. /\ Active /\ Active' /\ Inc!Affected' = Inc!Affected
      /\ build.changed \subseteq committed.known /\ committed.known \subseteq build.known
      /\ \A t \in build.changed : build.physical[t].present \/ t \in build.missing
  BY <1>1, AffectedSettled DEF Active, IncInv, ObserveInv
<1>6. ASSUME NEW t \in Sources
      PROVE  /\ build.state[t].removed <=> t \in Inc!Affected /\ ~Present(t)
             /\ t \in Inc!Affected /\ Present(t) => build.state[t].claimed
             /\ build.state[t].claimed => t \in Inc!Affected \/ ~Cached(t)
             /\ build.state[t].published =>
                  Cached(t) /\ ~build.state[t].claimed /\ t \notin Inc!Affected
             /\ t \in build.discovery_queue <=> build.state[t].claimed /\ ~build.state[t].done
  BY <1>5 DEF IncInv, ClaimInv
<1>7. ASSUME NEW t \in Sources
      PROVE  /\ build.state[t].done =>
                  /\ build.state[t].claimed /\ t \in build.known /\ Present(t)
                  /\ build.state[t].dependencies = build.includes[t]
                  /\ build.includes[t] = build.physical[t].includes
                  /\ \A d \in build.includes[t] :
                       build.state[d].claimed \/ build.state[d].published
             /\ t \notin build.changed /\ (t \in committed.known \/ ~build.state[t].done) =>
                  build.physical[t] = committed.physical[t]
             /\ ~build.state[t].done =>
                  /\ t \in build.known => t \in committed.known
                  /\ build.includes[t] = IF build.state[t].removed THEN {}
                                         ELSE committed.includes[t]
             /\ build.includes[t] \in SUBSET Sources
  BY <1>5 DEF IncInv, IncTypeInv, BuildType, DoneInv
<1>8. /\ build.state[s].claimed /\ ~build.state[s].done /\ ~build.state[s].published
      /\ s \notin cached /\ s \notin new
  BY <1>1, <1>4, <1>6
<1>9. Inc!Affected \subseteq committed.known
  BY <1>5, AffectedClosed
<1>10. IncTypeInv' /\ MissingInv' /\ CommittedInv'
  BY <1>1, CommittedKept DEF IncInv, IncTypeInv, MissingInv
<1>11. ObserveInv'
  BY <1>1, <1>3, <1>5 DEF IncInv, IncTypeInv, CommittedType, ObserveInv
<1>12. ClaimInv'
  <2>1. ASSUME NEW t \in Sources
        PROVE  /\ build'.state[t].removed <=> t \in Inc!Affected /\ ~build'.physical[t].present
               /\ t \in Inc!Affected /\ build'.physical[t].present => build'.state[t].claimed
               /\ build'.state[t].claimed => t \in Inc!Affected \/ ~Cached(t)
               /\ build'.state[t].published =>
                    Cached(t) /\ ~build'.state[t].claimed /\ t \notin Inc!Affected
               /\ t \in build'.discovery_queue <=>
                    build'.state[t].claimed /\ ~build'.state[t].done
    <3>1. CASE t = s
      BY <1>1, <1>2, <1>3, <1>5, <1>6, <1>8, <1>9, <3>1, ZenonT(90) DEF Present
    <3>2. CASE t # s
      <4>1. build'.physical[t] = build.physical[t]
        BY <1>3, <3>2
      <4>2. t \in build'.discovery_queue <=> t \in build.discovery_queue \/ t \in new
        BY <1>1, <3>2
      <4>3. build'.state[t].done <=> build.state[t].done
        BY <1>3, <3>2
      <4>4. t \in new => ~build.state[t].done
        BY <1>4, <1>7
      <4>5. QED
        BY <1>4, <1>3, <1>6, <4>1, <4>2, <4>3, <4>4 DEF Present
    <3>3. QED
      BY <3>1, <3>2
  <2>2. QED
    BY <1>1, <1>5, <2>1 DEF ClaimInv, Present, Cached
<1>13. DoneInv'
  <2>1. ASSUME NEW t \in Sources
        PROVE  /\ build'.state[t].done =>
                    /\ build'.state[t].claimed /\ t \in build'.known
                    /\ build'.physical[t].present
                    /\ build'.state[t].dependencies = build'.includes[t]
                    /\ build'.includes[t] = build'.physical[t].includes
                    /\ \A d \in build'.includes[t] :
                         build'.state[d].claimed \/ build'.state[d].published
               /\ t \notin build'.changed /\ (t \in committed.known \/ ~build'.state[t].done) =>
                    build'.physical[t] = committed.physical[t]
               /\ ~build'.state[t].done =>
                    /\ t \in build'.known => t \in committed.known
                    /\ build'.includes[t] = IF build'.state[t].removed THEN {}
                                            ELSE committed.includes[t]
    <3>1. CASE t = s
      <4>1. \A d \in deps : build'.state[d].claimed \/ build'.state[d].published
        BY <1>1, <1>4, <1>3
      <4>2. /\ build'.state[s].done /\ build'.state[s].claimed /\ s \in build'.known
            /\ build'.physical[s] = file /\ build'.includes[s] = deps
            /\ build'.state[s].dependencies = deps
        BY <1>1, <1>3, <1>8
      <4>3. s \notin build.changed /\ s \in committed.known => file = committed.physical[s]
        BY <1>2, <1>5, <1>7
      <4>4. QED
        BY <1>1, <3>1, <4>1, <4>2, <4>3 DEF deps
    <3>2. CASE t # s
      <4>1. /\ build'.physical[t] = build.physical[t] /\ build'.includes[t] = build.includes[t]
            /\ build'.state[t].dependencies = build.state[t].dependencies
            /\ build'.state[t].done <=> build.state[t].done
            /\ t \in build'.known <=> t \in build.known
        BY <1>1, <1>3, <3>2
      <4>2. \A d \in build.includes[t] :
              build.state[d].claimed \/ build.state[d].published =>
              build'.state[d].claimed \/ build'.state[d].published
        BY <1>3, <1>7
      <4>3. /\ build.state[t].claimed => build'.state[t].claimed
            /\ build'.state[t].removed <=> build.state[t].removed
        BY <1>3
      <4>4. QED
        BY <1>1, <1>7, <4>1, <4>2, <4>3 DEF Present
    <3>3. QED
      BY <3>1, <3>2
  <2>2. QED
    BY <1>1, <2>1 DEF DoneInv, Present
<1>14. \A t \in Sources : build.interface[t] = Inc!NoInterface
  BY <1>1, <1>5 DEF IncInv, ParseInv
<1>15. ASSUME NEW t \in Sources
       PROVE  /\ build.state[t].dependents =
                   {u \in Sources : build.state[u].done /\ t \in build.includes[u]}
              /\ build.state[t].done => build.state[t].remaining = Cardinality(Awaited(t))
              /\ t \in build.semantic_queue <=>
                   /\ build.state[t].done /\ build.interface[t] = Inc!NoInterface
                   /\ build.state[t].remaining = 0
  BY <1>5 DEF IncInv, CountInv
<1>16. CountInv'
  <2>1. ASSUME NEW t \in Sources
        PROVE  build'.state[t].dependents =
                 {u \in Sources : build'.state[u].done /\ t \in build'.includes[u]}
    <3>1. \A u \in Sources :
            (build'.state[u].done /\ t \in build'.includes[u]) <=>
            ((build.state[u].done /\ t \in build.includes[u]) \/ (u = s /\ t \in deps))
      <4>1. ASSUME NEW u \in Sources
            PROVE  /\ build'.state[u].done <=> build.state[u].done \/ u = s
                   /\ build'.includes[u] = IF u = s THEN deps ELSE build.includes[u]
        BY <1>3
      <4>2. QED
        BY <1>8, <4>1
    <3>2. build'.state[t].dependents = IF t \in deps THEN build.state[t].dependents \cup {s}
                                       ELSE build.state[t].dependents
      BY <1>3
    <3>3. build.state[t].dependents =
            {u \in Sources : build.state[u].done /\ t \in build.includes[u]}
      BY <1>15
    <3>4. QED
      BY <3>1, <3>2, <3>3
  <2>2. Awaited(s)' = waiting
    <3>1. build'.includes[s] = deps /\ build'.interface = build.interface
          /\ deps \in SUBSET Sources
      BY <1>1, <1>3
    <3>2. ASSUME NEW d \in deps
          PROVE  /\ build'.interface[d] = Inc!NoInterface
                 /\ build'.state[d].published <=> build.state[d].published \/ d \in cached
      BY <1>3, <1>14, <3>1, ZenonT(90)
    <3>3. Awaited(s)' = {d \in deps : ~build'.state[d].published}
      BY <3>1, <3>2 DEF Awaited
    <3>4. QED
      BY <1>2, <3>2, <3>3
  <2>3. ASSUME NEW t \in Sources, t # s, build.state[t].done PROVE Awaited(t)' = Awaited(t)
    <3>1. build'.includes[t] = build.includes[t] /\ build.includes[t] \in SUBSET Sources
      BY <1>3, <1>7, <2>3
    <3>2. ASSUME NEW d \in build.includes[t]
          PROVE  build'.state[d].published <=> build.state[d].published
      BY <1>4, <1>3, <1>7, <2>3
    <3>3. QED
      BY <1>1, <3>1, <3>2 DEF Awaited
  <2>4. waiting \in SUBSET Sources
    BY <1>1, <1>2
  <2>5. ASSUME NEW t \in Sources
        PROVE  /\ build'.state[t].done => build'.state[t].remaining = Cardinality(Awaited(t)')
               /\ t \in build'.semantic_queue <=>
                    /\ build'.state[t].done /\ build'.interface[t] = Inc!NoInterface
                    /\ build'.state[t].remaining = 0
    <3>1. CASE t = s
      <4>1. Cardinality(waiting) = 0 <=> waiting = {}
        BY <2>4, Sizes
      <4>2. s \notin build.semantic_queue
        BY <1>8, <1>15
      <4>3. build'.state[s].done /\ build'.state[s].remaining = Cardinality(waiting)
        BY <1>3
      <4>4. QED
        BY <1>1, <1>14, <2>2, <3>1, <4>1, <4>2, <4>3
    <3>2. CASE t # s
      <4>1. /\ build'.state[t].remaining = build.state[t].remaining
            /\ build'.state[t].done <=> build.state[t].done
            /\ t \in build'.semantic_queue <=> t \in build.semantic_queue
            /\ build'.interface = build.interface
        <5>1. /\ build'.semantic_queue = IF waiting = {} THEN build.semantic_queue \cup {s}
                                         ELSE build.semantic_queue
              /\ build'.interface = build.interface
          BY <1>1
        <5>2. QED
          BY <1>3, <3>2, <5>1, ZenonT(90)
      <4>2. QED
        BY <1>15, <2>3, <3>2, <4>1
    <3>3. QED
      BY <3>1, <3>2
  <2>6. QED
    BY <2>1, <2>5 DEF CountInv
<1>17. ParseInv'
  <2>1. /\ incremental' # "parse"
        /\ \A t \in Sources : build'.interface[t] = Inc!NoInterface
    BY <1>1, <1>14
  <2>2. ASSUME NEW t \in Sources
        PROVE  /\ build'.state[t].parsed <=> build'.state[t].removed
               /\ build'.state[t].entry <=> build'.state[t].parsed
    BY <1>3, <1>5, <1>14 DEF IncInv, ParseInv
  <2>3. QED
    BY <2>1, <2>2 DEF ParseInv
<1>18. QED
  BY <1>10, <1>11, <1>12, <1>13, <1>16, <1>17 DEF IncInv

-----------------------------------------------------------------------------
(* What a parse of s, if it succeeds, makes of the entries.                *)
LEMMA ParsedFacts ==
  ASSUME IncInv, NEW s \in Sources
  PROVE  /\ Inc!Parsed(s) \in [Sources -> EntryType]
         /\ \A t \in Sources :
              LET e == build.state[t]
                  f == Inc!Parsed(s)[t]
              IN
              /\ (f.published <=> e.published) /\ (f.claimed <=> e.claimed)
              /\ (f.done <=> e.done) /\ (f.removed <=> e.removed)
              /\ (f.parsed <=> e.parsed \/ t = s) /\ (f.entry <=> e.entry \/ t = s)
              /\ f.dependents = e.dependents /\ f.dependencies = e.dependencies
              /\ f.remaining = IF t \in build.state[s].dependents /\ e.remaining # 0
                               THEN e.remaining - 1 ELSE e.remaining
<1> DEFINE st == Inc!Parsed(s)
           dependents == build.state[s].dependents
           entry(t) == [build.state[t] EXCEPT
                          !.parsed = @ \/ t = s,
                          !.entry = @ \/ t = s,
                          !.remaining = IF t \in dependents /\ @ # 0 THEN @ - 1 ELSE @]
<1>1. st = [t \in Inc!Sources |-> entry(t)]
  BY Zenon DEF Inc!Parsed
<1>2. \A t \in Sources : build.state[t] \in EntryType
  BY DEF IncInv, IncTypeInv, BuildType
<1> HIDE DEF dependents
<1>3. ASSUME NEW t \in Sources
      PROVE  LET e == build.state[t]
                 f == entry(t)
             IN
             /\ f \in EntryType
             /\ (f.published <=> e.published) /\ (f.claimed <=> e.claimed)
             /\ (f.done <=> e.done) /\ (f.removed <=> e.removed)
             /\ (f.parsed <=> e.parsed \/ t = s) /\ (f.entry <=> e.entry \/ t = s)
             /\ f.dependents = e.dependents /\ f.dependencies = e.dependencies
             /\ f.remaining = IF t \in dependents /\ e.remaining # 0
                              THEN e.remaining - 1 ELSE e.remaining
  <2> DEFINE e == build.state[t]
             a == t = s
             r == IF t \in dependents /\ e.remaining # 0
                  THEN e.remaining - 1 ELSE e.remaining
             f == entry(t)
  <2>1. f = [e EXCEPT !.parsed = @ \/ a, !.entry = @ \/ a, !.remaining = r]
    BY Zenon
  <2>2. a \in BOOLEAN /\ e \in EntryType
    BY <1>2
  <2>3. r \in Nat
    BY <2>2 DEF EntryType
  <2> HIDE DEF e, a, r, f, entry
  <2>4. /\ f \in EntryType
        /\ (f.published <=> e.published) /\ (f.claimed <=> e.claimed)
        /\ (f.done <=> e.done) /\ (f.removed <=> e.removed)
        /\ (f.parsed <=> e.parsed \/ a) /\ (f.entry <=> e.entry \/ a)
        /\ f.dependents = e.dependents /\ f.dependencies = e.dependencies
        /\ f.remaining = r
    BY <2>1, <2>2, <2>3 DEF EntryType
  <2>5. QED
    BY <2>4 DEF e, a, r, f
<1> HIDE DEF entry, st
<1>4. st \in [Sources -> EntryType] /\ \A t \in Sources : st[t] = entry(t)
  BY <1>1, <1>3, SameSources
<1>5. QED
  BY <1>3, <1>4 DEF st, dependents

(* What a Source that is ready to be parsed captures.                      *)
LEMMA CapturedFacts ==
  ASSUME IncInv, incremental = "parse", NEW s \in build.semantic_queue
  PROVE  /\ s \in Sources /\ build.state[s].done /\ build.state[s].remaining = 0
         /\ build.interface[s] = Inc!NoInterface /\ ~build.state[s].published
         /\ Awaited(s) = {}
         /\ Inc!Captured(s) \in InterfaceType /\ Inc!Captured(s) # Inc!NoInterface
         /\ Inc!Captured(s).generation = committed.generation + 1
         /\ Inc!Captured(s).imports = {<<d, GenerationOf(d)>> : d \in build.includes[s]}
<1>1. Active /\ s \in Sources /\ committed.generation \in Nat
      /\ committed.cache \in [Sources -> InterfaceType]
      /\ build.includes \in [Sources -> SUBSET Sources]
  BY DEF Active, IncInv, IncTypeInv, BuildType, CommittedType
<1>2. /\ build.state[s].done /\ build.state[s].remaining = 0
      /\ build.interface[s] = Inc!NoInterface
      /\ Cardinality(Awaited(s)) = 0
  BY <1>1 DEF IncInv, CountInv
<1>3. /\ build.state[s].dependencies = build.includes[s]
      /\ build.includes[s] \in SUBSET Sources
      /\ build.state[s].claimed /\ ~build.state[s].published
  BY <1>1, <1>2 DEF IncInv, DoneInv, ClaimInv
<1>4. Awaited(s) = {}
  <2>1. Awaited(s) \in SUBSET Sources
    BY <1>3 DEF Awaited
  <2>2. QED
    BY <1>2, <2>1, Sizes
<1>5. ASSUME NEW d \in build.includes[s]
      PROVE  Inc!InterfaceOf(d).generation = GenerationOf(d) /\ GenerationOf(d) \in Nat
  <2>1. d \in Sources /\ (build.state[d].published \/ build.interface[d] # Inc!NoInterface)
    BY <1>3, <1>4 DEF Awaited
  <2>2. committed.cache[d].generation \in Nat
    BY <1>1, <2>1 DEF InterfaceType
  <2>3. CASE build.interface[d] # Inc!NoInterface
    <3>1. build.state[d].done /\ build.interface[d].generation = committed.generation + 1
      BY <1>1, <2>1, <2>3 DEF IncInv, ParseInv
    <3>2. ~build.state[d].published
      BY <1>1, <2>1, <3>1 DEF IncInv, DoneInv, ClaimInv
    <3>3. QED
      BY <1>1, <2>3, <3>1, <3>2 DEF Inc!InterfaceOf, GenerationOf
  <2>4. CASE build.interface[d] = Inc!NoInterface
    BY <2>1, <2>2, <2>4 DEF Inc!InterfaceOf, GenerationOf
  <2>5. QED
    BY <2>3, <2>4
<1>6. Inc!Captured(s) = [generation |-> committed.generation + 1,
                         imports |-> {<<d, GenerationOf(d)>> : d \in build.includes[s]}]
  <2>1. {<<d, Inc!InterfaceOf(d).generation>> : d \in build.includes[s]} =
          {<<d, GenerationOf(d)>> : d \in build.includes[s]}
    BY <1>5
  <2>2. QED
    BY <1>3, <2>1 DEF Inc!Captured
<1>7. {<<d, GenerationOf(d)>> : d \in build.includes[s]} \in SUBSET (Sources \X Nat)
  BY <1>3, <1>5
<1>8. QED
  BY <1>1, <1>2, <1>3, <1>4, <1>6, <1>7 DEF InterfaceType, Inc!NoInterface

-----------------------------------------------------------------------------
(* A Source is parsed, and those that waited for it only are ready.        *)
LEMMA ParseIncInv == ASSUME IncInv, NEW s \in Sources, Inc!Parse(s) PROVE IncInv'
<1> SUFFICES ASSUME incremental' # "idle" PROVE IncInv'
  BY DiscardInv DEF Inc!Parse, IncInv, IncTypeInv
<1> DEFINE captured == Inc!Captured(s)
           ready == Inc!ReadyAfter(s)
           st == Inc!Parsed(s)
<1>1. /\ incremental = "parse" /\ incremental' = "parse" /\ s \in build.semantic_queue
      /\ UNCHANGED <<disk, edits, committed>>
      /\ build' = [build EXCEPT !.semantic_queue = (@ \ {s}) \cup ready,
                                !.interface[s] = captured, !.state = st]
  BY Zenon DEF Inc!Parse, Inc!Discard
<1>2. /\ build.state[s].done /\ build.state[s].remaining = 0
      /\ build.interface[s] = Inc!NoInterface /\ ~build.state[s].published
      /\ Awaited(s) = {}
      /\ captured \in InterfaceType /\ captured # Inc!NoInterface
      /\ captured.generation = committed.generation + 1
      /\ captured.imports = {<<d, GenerationOf(d)>> : d \in build.includes[s]}
  BY <1>1, CapturedFacts
<1>3. st \in [Sources -> EntryType]
  BY ParsedFacts
<1>4. /\ \A t \in Sources : build.state[t].dependents \in SUBSET Sources
      /\ build.interface \in [Sources -> InterfaceType]
      /\ build.semantic_queue \in SUBSET Sources
      /\ \A t \in Sources : build.includes[t] \in SUBSET Sources
      /\ \A t \in Sources : build.state[t].remaining \in Nat
  BY DEF IncInv, IncTypeInv, BuildType, EntryType
<1>5. ready = {t \in build.state[s].dependents : build.state[t].remaining = 1 /\ build.state[t].done}
  BY DEF Inc!ReadyAfter
<1> HIDE DEF captured, st, ready
<1>6. ready \in SUBSET Sources
  BY <1>4, <1>5
<1>7. /\ build' \in BuildType
      /\ build'.known = build.known /\ build'.changed = build.changed
      /\ build'.missing = build.missing /\ build'.physical = build.physical
      /\ build'.includes = build.includes /\ build'.discovery_queue = build.discovery_queue
      /\ build'.semantic_queue = (build.semantic_queue \ {s}) \cup ready
      /\ build'.interface = [build.interface EXCEPT ![s] = captured]
      /\ build'.state = st
  <2>1. /\ [build.interface EXCEPT ![s] = captured] \in [Sources -> InterfaceType]
        /\ (build.semantic_queue \ {s}) \cup ready \in SUBSET Sources
    BY <1>2, <1>4, <1>6
  <2>2. QED
    BY <1>1, <1>3, <2>1 DEF IncInv, IncTypeInv, BuildType
<1>8. ASSUME NEW t \in Sources
      PROVE  /\ build'.state[t].published <=> build.state[t].published
             /\ build'.state[t].claimed <=> build.state[t].claimed
             /\ build'.state[t].done <=> build.state[t].done
             /\ build'.state[t].removed <=> build.state[t].removed
             /\ build'.state[t].parsed <=> build.state[t].parsed \/ t = s
             /\ build'.state[t].entry <=> build.state[t].entry \/ t = s
             /\ build'.state[t].dependents = build.state[t].dependents
             /\ build'.state[t].dependencies = build.state[t].dependencies
             /\ build'.state[t].remaining =
                  IF t \in build.state[s].dependents /\ build.state[t].remaining # 0
                  THEN build.state[t].remaining - 1 ELSE build.state[t].remaining
             /\ build'.interface[t] = IF t = s THEN captured ELSE build.interface[t]
  <2>1. build'.interface[t] = IF t = s THEN captured ELSE build.interface[t]
    BY <1>4, <1>7
  <2>2. build'.state = Inc!Parsed(s)
    BY <1>7 DEF st
  <2>3. QED
    BY <2>1, <2>2, ParsedFacts
<1>9. Active /\ Active' /\ Inc!Affected' = Inc!Affected
      /\ (Inc!Cyclic(build.includes)' <=> Inc!Cyclic(build.includes))
  BY <1>1, <1>7, AffectedSettled DEF Active, Inc!Cyclic
<1>10. IncTypeInv' /\ MissingInv' /\ CommittedInv'
  BY <1>1, <1>7, CommittedKept DEF IncInv, IncTypeInv, MissingInv
<1>11. ObserveInv'
  BY <1>1, <1>7 DEF IncInv, ObserveInv
<1>12. ClaimInv'
  <2>1. ASSUME NEW t \in Sources
        PROVE  /\ build'.state[t].removed <=> t \in Inc!Affected /\ ~Present(t)
               /\ t \in Inc!Affected /\ Present(t) => build'.state[t].claimed
               /\ build'.state[t].claimed => t \in Inc!Affected \/ ~Cached(t)
               /\ build'.state[t].published =>
                    Cached(t) /\ ~build'.state[t].claimed /\ t \notin Inc!Affected
               /\ t \in build.discovery_queue <=>
                    build'.state[t].claimed /\ ~build'.state[t].done
               /\ t \notin build.discovery_queue
    BY <1>1, <1>8, <1>9 DEF IncInv, ClaimInv
  <2>2. QED
    BY <1>1, <1>7, <1>9, <2>1 DEF ClaimInv, Present, Cached
<1>13. DoneInv'
  <2>1. ASSUME NEW t \in Sources
        PROVE  /\ build'.state[t].done =>
                    /\ build'.state[t].claimed /\ t \in build.known /\ Present(t)
                    /\ build'.state[t].dependencies = build.includes[t]
                    /\ build.includes[t] = build.physical[t].includes
                    /\ \A d \in build.includes[t] :
                         build'.state[d].claimed \/ build'.state[d].published
               /\ t \notin build.changed /\ (t \in committed.known \/ ~build'.state[t].done) =>
                    build.physical[t] = committed.physical[t]
               /\ ~build'.state[t].done =>
                    /\ t \in build.known => t \in committed.known
                    /\ build.includes[t] = IF build'.state[t].removed THEN {}
                                           ELSE committed.includes[t]
    BY <1>4, <1>8, <1>9 DEF IncInv, DoneInv
  <2>2. QED
    BY <1>1, <1>7, <2>1 DEF DoneInv, Present
<1>14. ASSUME NEW t \in Sources
       PROVE  /\ build.state[t].dependents =
                   {u \in Sources : build.state[u].done /\ t \in build.includes[u]}
              /\ build.state[t].done => build.state[t].remaining = Cardinality(Awaited(t))
              /\ t \in build.semantic_queue <=>
                   /\ build.state[t].done /\ build.interface[t] = Inc!NoInterface
                   /\ build.state[t].remaining = 0
  BY <1>9 DEF IncInv, CountInv
<1>15. ASSUME NEW t \in Sources PROVE Awaited(t)' = Awaited(t) \ {s}
  <2>1. ASSUME NEW d \in build.includes[t]
        PROVE  /\ build'.state[d].published <=> build.state[d].published
               /\ build'.interface[d] = IF d = s THEN captured ELSE build.interface[d]
    BY <1>4, <1>8
  <2>2. build'.includes[t] = build.includes[t]
    BY <1>7
  <2>3. QED
    BY <1>2, <2>1, <2>2 DEF Awaited
<1>16. ASSUME NEW t \in Sources, build.interface[t] # Inc!NoInterface
       PROVE  /\ build.state[t].done /\ Awaited(t) = {}
              /\ build.interface[t].generation = committed.generation + 1
              /\ build.interface[t].imports = {<<d, GenerationOf(d)>> : d \in build.includes[t]}
  BY <1>9, <1>16 DEF IncInv, ParseInv
<1>17. CountInv'
  <2>1. ASSUME NEW t \in Sources
        PROVE  build'.state[t].dependents =
                 {u \in Sources : build'.state[u].done /\ t \in build'.includes[u]}
    BY <1>7, <1>8, <1>14
  <2>2. ASSUME NEW t \in Sources, build.state[t].done
        PROVE  build'.state[t].remaining = Cardinality(Awaited(t) \ {s})
    <3>1. t \in build.state[s].dependents <=> s \in build.includes[t]
      BY <1>14, <2>2
    <3>2. s \in Awaited(t) <=> s \in build.includes[t]
      BY <1>2 DEF Awaited
    <3>3. Awaited(t) \in SUBSET Sources
      BY <1>4 DEF Awaited
    <3>4. /\ Cardinality(Awaited(t)) \in Nat
          /\ Cardinality(Awaited(t)) = 0 <=> Awaited(t) = {}
          /\ Cardinality(Awaited(t) \ {s}) =
               IF s \in Awaited(t) THEN Cardinality(Awaited(t)) - 1 ELSE Cardinality(Awaited(t))
      BY <3>3, Sizes, SizeWithout
    <3>5. build.state[t].remaining = Cardinality(Awaited(t))
      BY <1>14, <2>2
    <3>6. build'.state[t].remaining =
            IF t \in build.state[s].dependents /\ build.state[t].remaining # 0
            THEN build.state[t].remaining - 1 ELSE build.state[t].remaining
      BY <1>8
    <3>7. QED
      BY <3>1, <3>2, <3>4, <3>5, <3>6
  <2>3. ASSUME NEW t \in Sources
        PROVE  t \in build'.semantic_queue <=>
                 /\ build'.state[t].done /\ build'.interface[t] = Inc!NoInterface
                 /\ build'.state[t].remaining = 0
    <3>1. t \in ready <=>
            t \in build.state[s].dependents /\ build.state[t].remaining = 1 /\ build.state[t].done
      BY <1>5
    <3>2. t \in build'.semantic_queue <=> (t \in build.semantic_queue /\ t # s) \/ t \in ready
      BY <1>7
    <3>3. CASE t = s
      BY <1>2, <1>8, <3>1, <3>2, <3>3
    <3>4. CASE t # s
      <4>1. /\ build'.interface[t] = build.interface[t]
            /\ build'.state[t].done <=> build.state[t].done
            /\ build'.state[t].remaining =
                 IF t \in build.state[s].dependents /\ build.state[t].remaining # 0
                 THEN build.state[t].remaining - 1 ELSE build.state[t].remaining
            /\ build.state[t].remaining \in Nat
        BY <1>4, <1>8, <3>4
      <4>2. build.interface[t] # Inc!NoInterface => build.state[t].remaining = 0
        BY <1>14, <1>16, Sizes
      <4>3. t \in build.semantic_queue <=>
              /\ build.state[t].done /\ build.interface[t] = Inc!NoInterface
              /\ build.state[t].remaining = 0
        BY <1>14
      <4>4. QED
        BY <3>1, <3>2, <3>4, <4>1, <4>2, <4>3
    <3>5. QED
      BY <3>3, <3>4
  <2>4. QED
    BY <1>8, <1>15, <2>1, <2>2, <2>3 DEF CountInv
<1>18. ParseInv'
  <2>1. ASSUME NEW t \in Sources
        PROVE  /\ build.state[t].parsed <=>
                    build.state[t].removed \/ build.interface[t] # Inc!NoInterface
               /\ build.state[t].entry <=> build.state[t].parsed
    BY <1>9 DEF IncInv, ParseInv
  <2>2. ASSUME NEW t \in Sources
        PROVE  /\ build'.state[t].parsed <=>
                    build'.state[t].removed \/ build'.interface[t] # Inc!NoInterface
               /\ build'.state[t].entry <=> build'.state[t].parsed
    BY <1>2, <1>8, <2>1
  <2>3. \A d \in Sources : GenerationOf(d)' = GenerationOf(d)
    BY <1>1, <1>8 DEF GenerationOf
  <2>4. ASSUME NEW t \in Sources, build'.interface[t] # Inc!NoInterface
        PROVE  /\ build'.state[t].done /\ Awaited(t)' = {}
               /\ build'.interface[t].generation = committed.generation + 1
               /\ build'.interface[t].imports =
                    {<<d, GenerationOf(d)>> : d \in build.includes[t]}
    <3>1. CASE t = s
      BY <1>2, <1>8, <1>15, <3>1
    <3>2. CASE t # s
      BY <1>8, <1>15, <1>16, <2>4, <3>2
    <3>3. QED
      BY <3>1, <3>2
  <2>5. ASSUME NEW t \in Sources
        PROVE  {<<d, GenerationOf(d)'>> : d \in build.includes[t]} =
                 {<<d, GenerationOf(d)>> : d \in build.includes[t]}
    BY <1>4, <2>3
  <2>6. ~Inc!Cyclic(build.includes)'
    BY <1>1, <1>9 DEF IncInv, ParseInv
  <2>7. QED
    BY <1>1, <1>7, <2>2, <2>4, <2>5, <2>6 DEF ParseInv
<1>19. QED
  BY <1>10, <1>11, <1>12, <1>13, <1>17, <1>18 DEF IncInv

-----------------------------------------------------------------------------
(* When the parse ends, a Source has the interface of this build, has been *)
(* removed, or is none of this build's business.                           *)
LEMMA EndOfParse ==
  ASSUME IncInv, incremental = "parse", NEW s \in Sources,
         build.state[s].done => build.state[s].parsed
  PROVE  LET e == build.state[s] IN
         \/ /\ e.entry /\ e.removed /\ ~e.published /\ ~e.done
            /\ build.physical[s] = Inc!Absent /\ build.includes[s] = {}
         \/ /\ e.entry /\ ~e.removed /\ ~e.published /\ build.interface[s] # Inc!NoInterface
            /\ Present(s) /\ s \in build.known
            /\ build.includes[s] = build.physical[s].includes
            /\ Cached(s) => s \in Inc!Affected
         \/ /\ ~e.entry /\ s \notin Inc!Affected
            /\ build.interface[s] = Inc!NoInterface
            /\ build.physical[s] = committed.physical[s]
            /\ build.includes[s] = committed.includes[s]
            /\ s \in build.known => s \in committed.known
<1>1. Active /\ build.changed \subseteq Inc!Affected
  BY AffectedClosed DEF Active, IncInv, ObserveInv
<1>2. /\ build.state[s].parsed <=>
           build.state[s].removed \/ build.interface[s] # Inc!NoInterface
      /\ build.state[s].entry <=> build.state[s].parsed
      /\ build.interface[s] # Inc!NoInterface => build.state[s].done
  BY <1>1 DEF IncInv, ParseInv
<1>3. /\ build.state[s].removed <=> s \in Inc!Affected /\ ~Present(s)
      /\ s \in Inc!Affected /\ Present(s) => build.state[s].claimed
      /\ build.state[s].claimed => s \in Inc!Affected \/ ~Cached(s)
      /\ build.state[s].published =>
           Cached(s) /\ ~build.state[s].claimed /\ s \notin Inc!Affected
      /\ build.state[s].claimed => build.state[s].done
  BY <1>1 DEF IncInv, ClaimInv
<1>4. /\ build.state[s].done =>
           /\ build.state[s].claimed /\ s \in build.known /\ Present(s)
           /\ build.includes[s] = build.physical[s].includes
      /\ s \notin build.changed /\ (s \in committed.known \/ ~build.state[s].done) =>
           build.physical[s] = committed.physical[s]
      /\ ~build.state[s].done =>
           /\ s \in build.known => s \in committed.known
           /\ build.includes[s] = IF build.state[s].removed THEN {} ELSE committed.includes[s]
  BY <1>1 DEF IncInv, DoneInv
<1>5. ~Present(s) => build.physical[s] = Inc!Absent
  BY DEF IncInv, IncTypeInv, BuildType, FileType, Present
<1>6. CASE build.state[s].removed
  BY <1>2, <1>3, <1>4, <1>5, <1>6
<1>7. CASE ~build.state[s].removed /\ build.interface[s] # Inc!NoInterface
  BY <1>2, <1>3, <1>4, <1>7
<1>8. CASE ~build.state[s].removed /\ build.interface[s] = Inc!NoInterface
  BY <1>1, <1>2, <1>3, <1>4, <1>8
<1>9. QED
  BY <1>6, <1>7, <1>8

(* A build is committed.                                                   *)
LEMMA CommitIncInv == ASSUME IncInv, Inc!Commit PROVE IncInv'
<1> DEFINE entries == {s \in Sources : build.state[s].entry}
           published == {s \in entries : ~build.state[s].published}
           graph == [s \in Sources |-> IF s \notin published THEN committed.graph[s]
                                       ELSE IF build.state[s].removed THEN Inc!Absent
                                       ELSE build.physical[s]]
           cache == Inc!CacheAfter(entries)
<1>1. /\ incremental = "parse" /\ build.semantic_queue = {} /\ Inc!Discard
      /\ UNCHANGED <<disk, edits>>
      /\ \/ committed' = committed
         \/ /\ \A s \in Sources : build.state[s].done => build.state[s].parsed
            /\ committed' = [generation |-> committed.generation + 1, known |-> build.known,
                             physical |-> build.physical, includes |-> build.includes,
                             graph |-> graph, cache |-> cache]
  BY SameSources DEF Inc!Commit
<1>2. CASE committed' = committed
  BY <1>1, <1>2, DiscardInv
<1>3. CASE /\ \A s \in Sources : build.state[s].done => build.state[s].parsed
           /\ committed' = [generation |-> committed.generation + 1, known |-> build.known,
                            physical |-> build.physical, includes |-> build.includes,
                            graph |-> graph, cache |-> cache]
  <2>1. /\ cache = [s \in Sources |-> IF s \notin entries THEN committed.cache[s]
                                      ELSE IF build.state[s].removed THEN Inc!NoInterface
                                      ELSE build.interface[s]]
        /\ Active /\ committed.generation \in Nat
        /\ committed.cache \in [Sources -> InterfaceType]
        /\ committed.graph \in [Sources -> FileType]
        /\ build.interface \in [Sources -> InterfaceType]
        /\ build.physical \in [Sources -> FileType]
        /\ build.includes \in [Sources -> SUBSET Sources] /\ build.known \in SUBSET Sources
    BY <1>1, SameSources
       DEF Inc!CacheAfter, Active, IncInv, IncTypeInv, BuildType, CommittedType
  <2>2. graph \in [Sources -> FileType] /\ cache \in [Sources -> InterfaceType]
    BY <2>1, ConstantsTyped
  <2>3. ASSUME NEW s \in Sources
        PROVE  /\ graph[s] = IF ~build.state[s].entry \/ build.state[s].published
                             THEN committed.graph[s]
                             ELSE IF build.state[s].removed THEN Inc!Absent
                             ELSE build.physical[s]
               /\ cache[s] = IF ~build.state[s].entry THEN committed.cache[s]
                             ELSE IF build.state[s].removed THEN Inc!NoInterface
                             ELSE build.interface[s]
    BY <2>1
  <2> HIDE DEF entries, published, graph, cache
  <2>4. /\ committed'.known = build.known /\ committed'.physical = build.physical
        /\ committed'.includes = build.includes
        /\ committed'.graph = graph /\ committed'.cache = cache
    BY <1>3
  <2>5. committed' \in CommittedType
    BY <1>3, <2>1, <2>2 DEF CommittedType
  <2>6. ASSUME NEW s \in Sources
        PROVE  LET e == build.state[s] IN
               \/ /\ e.entry /\ e.removed /\ ~e.published /\ ~e.done
                  /\ build.physical[s] = Inc!Absent /\ build.includes[s] = {}
               \/ /\ e.entry /\ ~e.removed /\ ~e.published
                  /\ build.interface[s] # Inc!NoInterface
                  /\ Present(s) /\ s \in build.known
                  /\ build.includes[s] = build.physical[s].includes
                  /\ Cached(s) => s \in Inc!Affected
               \/ /\ ~e.entry /\ s \notin Inc!Affected
                  /\ build.interface[s] = Inc!NoInterface
                  /\ build.physical[s] = committed.physical[s]
                  /\ build.includes[s] = committed.includes[s]
                  /\ s \in build.known => s \in committed.known
    BY <1>1, <1>3, EndOfParse
  <2>7. ASSUME NEW s \in Sources
        PROVE  /\ Cached(s) <=> committed.physical[s].present
               /\ committed.physical[s].present => s \in committed.known
               /\ s \in committed.known =>
                    committed.includes[s] = committed.physical[s].includes
               /\ committed.graph[s] = committed.physical[s]
               /\ Cached(s) =>
                    /\ \A d \in committed.includes[s] : Cached(d)
                    /\ committed.cache[s].imports =
                         {<<d, committed.cache[d].generation>> : d \in committed.includes[s]}
               /\ committed.includes[s] \in SUBSET Sources
    BY SameSources DEF IncInv, IncTypeInv, CommittedType, CommittedInv, ImportsCurrent,
                       Inc!ImportsCurrent, GraphMatchesBytes, Inc!GraphMatchesBytes, Cached
  <2>8. committed.known \subseteq build.known
        /\ \A s \in committed.known :
             committed.includes[s] \cap Inc!Affected # {} => s \in Inc!Affected
    BY <1>1, AffectedClosed DEF IncInv, ObserveInv
  <2>9. ASSUME NEW s \in Sources
        PROVE  /\ cache[s] # Inc!NoInterface <=> build.physical[s].present
               /\ build.physical[s].present => s \in build.known
               /\ s \in build.known => build.includes[s] = build.physical[s].includes
               /\ graph[s] = build.physical[s]
    <3>1. CASE build.state[s].entry /\ build.state[s].removed
      BY <2>3, <2>6, <3>1, ConstantsTyped
    <3>2. CASE build.state[s].entry /\ ~build.state[s].removed
      BY <2>3, <2>6, <3>2 DEF Present
    <3>3. CASE ~build.state[s].entry
      <4>1. cache[s] = committed.cache[s] /\ graph[s] = committed.graph[s]
        BY <2>3, <3>3
      <4>2. /\ build.physical[s] = committed.physical[s]
            /\ build.includes[s] = committed.includes[s]
            /\ s \in build.known <=> s \in committed.known
        BY <2>6, <2>8, <3>3
      <4>3. QED
        BY <2>7, <4>1, <4>2 DEF Cached
    <3>4. QED
      BY <3>1, <3>2, <3>3
  <2>10. ASSUME NEW s \in Sources, NEW d \in Sources, build.state[d].published
         PROVE  Cached(d) /\ d \notin Inc!Affected
    BY <1>1, <2>1, <2>10 DEF IncInv, ClaimInv
  <2>11. ASSUME NEW s \in Sources, cache[s] # Inc!NoInterface, build.state[s].entry
         PROVE  \A d \in build.includes[s] :
                  cache[d] # Inc!NoInterface /\ cache[d].generation = GenerationOf(d)
    <3>1. build.interface[s] # Inc!NoInterface
      BY <2>3, <2>11
    <3>2. Awaited(s) = {}
      BY <2>1, <3>1 DEF IncInv, ParseInv
    <3>3. ASSUME NEW d \in build.includes[s]
          PROVE  cache[d] # Inc!NoInterface /\ cache[d].generation = GenerationOf(d)
      <4>1. d \in Sources /\ (build.state[d].published \/ build.interface[d] # Inc!NoInterface)
        BY <2>1, <3>2 DEF Awaited
      <4>2. CASE build.state[d].published
        <5>1. Cached(d) /\ d \notin Inc!Affected
          BY <2>10, <4>1, <4>2
        <5>2. ~build.state[d].entry
          BY <2>6, <4>1, <4>2
        <5>3. QED
          BY <2>3, <4>1, <4>2, <5>1, <5>2 DEF Cached, GenerationOf
      <4>3. CASE ~build.state[d].published
        <5>1. build.interface[d].generation = committed.generation + 1
          BY <2>1, <4>1, <4>3 DEF IncInv, ParseInv
        <5>2. build.state[d].entry /\ ~build.state[d].removed
          <6>1. build.state[d].done
            BY <2>1, <4>1, <4>3 DEF IncInv, ParseInv
          <6>2. QED
            BY <2>6, <4>1, <4>3, <6>1
        <5>3. QED
          BY <2>3, <4>1, <4>3, <5>1, <5>2 DEF GenerationOf
      <4>4. QED
        BY <4>2, <4>3
    <3>4. QED
      BY <3>3
  <2>12. ASSUME NEW s \in Sources, Cached(s), ~build.state[s].entry
         PROVE  \A d \in build.includes[s] : cache[d] = committed.cache[d] /\ Cached(d)
    <3>1. s \in committed.known /\ s \notin Inc!Affected
          /\ build.includes[s] = committed.includes[s]
          /\ \A d \in committed.includes[s] : d \in Sources /\ Cached(d)
      BY <2>6, <2>7, <2>12
    <3>2. ASSUME NEW d \in committed.includes[s] PROVE cache[d] = committed.cache[d]
      <4>1. d \in Sources /\ Cached(d) /\ d \notin Inc!Affected
        BY <2>8, <3>1
      <4>2. ~build.state[d].entry
        <5>1. build.state[d].removed => d \in Inc!Affected
          BY <2>1, <4>1 DEF IncInv, ClaimInv
        <5>2. QED
          BY <2>6, <4>1, <5>1
      <4>3. QED
        BY <2>3, <4>1, <4>2
    <3>3. QED
      BY <3>1, <3>2
  <2>13. ASSUME NEW s \in Sources, cache[s] # Inc!NoInterface
         PROVE  /\ \A d \in build.includes[s] : cache[d] # Inc!NoInterface
                /\ cache[s].imports = {<<d, cache[d].generation>> : d \in build.includes[s]}
    <3>1. CASE build.state[s].entry
      <4>1. cache[s] = build.interface[s] /\ build.interface[s] # Inc!NoInterface
        BY <2>3, <2>13, <3>1
      <4>2. build.interface[s].imports = {<<d, GenerationOf(d)>> : d \in build.includes[s]}
        BY <2>1, <4>1 DEF IncInv, ParseInv
      <4>3. QED
        BY <2>11, <2>13, <3>1, <4>1, <4>2
    <3>2. CASE ~build.state[s].entry
      <4>1. cache[s] = committed.cache[s] /\ Cached(s)
        BY <2>3, <2>13, <3>2 DEF Cached
      <4>2. build.includes[s] = committed.includes[s]
        BY <2>6, <3>2
      <4>3. QED
        BY <2>7, <2>12, <3>2, <4>1, <4>2 DEF Cached
    <3>3. QED
      BY <3>1, <3>2
  <2>14. CommittedInv'
    <3>1. ImportsCurrent'
      BY <2>4, <2>13, SameSources DEF ImportsCurrent, Inc!ImportsCurrent
    <3>2. GraphMatchesBytes'
      BY <2>4, <2>9, SameSources DEF GraphMatchesBytes, Inc!GraphMatchesBytes
    <3>3. QED
      BY <2>4, <2>9, <3>1, <3>2 DEF CommittedInv, Cached
  <2>15. QED
    BY <1>1, <2>5, <2>14, NoBuildFacts, BuildEnds DEF Inc!Discard, IncInv, IncTypeInv
<1>4. QED
  BY <1>1, <1>2, <1>3

-----------------------------------------------------------------------------
(* Every step keeps the invariant, as long as no file comes back that a    *)
(* running build has seen missing.                                         *)
LEMMA IncNextIncInv == ASSUME IncInv, ~MayRecreate, Inc!Next PROVE IncInv'
<1>1. ASSUME NEW dirty, Inc!Begin(dirty) PROVE IncInv'
  BY <1>1, BeginIncInv
<1>2. ASSUME NEW s \in Sources, Inc!Observe(s) \/ Inc!Discover(s) \/ Inc!Parse(s) PROVE IncInv'
  BY <1>2, ObserveIncInv, DiscoverIncInv, ParseIncInv
<1>3. CASE Inc!MarkAffected \/ Inc!FinishDiscovery \/ Inc!Commit
  BY <1>3, MarkAffectedIncInv, FinishDiscoveryIncInv, CommitIncInv
<1>4. CASE Inc!BuildFails
  BY <1>4, DiscardInv DEF Inc!BuildFails
<1>5. ASSUME NEW s \in Sources, Inc!Edit(s, Inc!Absent) PROVE IncInv'
  BY <1>5, EditIncInv, ConstantsTyped
<1>6. ASSUME NEW s \in Sources, NEW inc \in EditedIncludes,
             Inc!Edit(s, Inc!File(edits + 1, inc))
      PROVE  IncInv'
  <2>1. Inc!File(edits + 1, inc) \in FileType
    <3>1. edits + 1 \in Nat /\ inc \in SUBSET Sources
      BY FrontendAssumption DEF IncInv, IncTypeInv
    <3>2. QED
      BY <3>1, ConstantsTyped
  <2>2. QED
    BY <1>6, <2>1, EditIncInv
<1>7. QED
  BY <1>1, <1>2, <1>3, <1>4, <1>5, <1>6, SameSources DEF Inc!Next

(* Nobody is left waiting: those that are wait for one another.            *)
LEMMA IncInvImplies ==
  ASSUME IncInv PROVE ImportsCurrent /\ GraphMatchesBytes /\ NobodyLeftWaiting
<1>1. ImportsCurrent /\ GraphMatchesBytes
  BY DEF IncInv, CommittedInv
<1>2. ASSUME incremental = "parse", build.semantic_queue = {}, NEW s \in Sources,
             build.state[s].claimed, ~build.state[s].parsed
      PROVE  FALSE
  <2> DEFINE left == {t \in Sources : build.state[t].done /\ build.interface[t] = Inc!NoInterface}
  <2>1. Active /\ \A t \in Sources : build.includes[t] \in SUBSET Sources
    BY <1>2 DEF Active, IncInv, IncTypeInv, BuildType
  <2>2. \A t \in Sources : build.state[t].claimed => build.state[t].done
    BY <1>2, <2>1 DEF IncInv, ClaimInv
  <2>3. s \in left
    BY <1>2, <2>1, <2>2 DEF IncInv, ParseInv
  <2>4. ASSUME NEW t \in left PROVE build.includes[t] \cap left # {}
    <3>1. Awaited(t) \in SUBSET Sources
      BY <2>1 DEF Awaited
    <3>2. Cardinality(Awaited(t)) # 0
      BY <1>2, <2>1 DEF IncInv, CountInv
    <3>3. PICK d \in Awaited(t) : TRUE
      BY <3>1, <3>2, Sizes
    <3>4. d \in build.includes[t] /\ d \in Sources
          /\ ~build.state[d].published /\ build.interface[d] = Inc!NoInterface
      BY <3>1, <3>3 DEF Awaited
    <3>5. build.state[d].claimed
      BY <2>1, <3>4 DEF IncInv, DoneInv
    <3>6. QED
      BY <2>2, <3>4, <3>5
  <2>5. left \in SUBSET Inc!Sources /\ left # {}
    BY <2>3, SameSources
  <2> HIDE DEF left
  <2>6. Inc!Cyclic(build.includes)
    BY <2>4, <2>5 DEF Inc!Cyclic
  <2>7. QED
    BY <1>2, <2>1, <2>6 DEF IncInv, ParseInv
<1>3. NobodyLeftWaiting
  BY <1>2, SameSources DEF NobodyLeftWaiting, Inc!NobodyLeftWaiting
<1>4. QED
  BY <1>1, <1>3

(* The full build and the incremental builds that follow.                  *)
BothInv == IndInv /\ DiscoveryInv /\ PartitionInv /\ IncInv

(* A step belongs to the full build, takes its results over, or belongs to *)
(* an incremental build: each keeps what is said of both.                  *)
LEMMA FrontendNextBothInv ==
  ASSUME BothInv, ~MayRecreate, [FrontendNext]_allVars
  PROVE  BothInv'
<1>1. IndInv' /\ DiscoveryInv' /\ PartitionInv'
  BY FrontendNextIndInv, FrontendNextComplete DEF BothInv
<1>2. ASSUME Release PROVE IncInv'
  BY <1>2, ReleaseIncInv DEF BothInv
<1>3. ASSUME Inc!Next PROVE IncInv'
  BY <1>3, IncNextIncInv DEF BothInv
<1>4. ASSUME UNCHANGED incrementalVars PROVE IncInv'
  BY <1>4, StutterIncInv DEF BothInv
<1>5. IncInv'
  BY <1>2, <1>3, <1>4 DEF FrontendNext, allVars
<1>6. QED
  BY <1>1, <1>5 DEF BothInv

(* As long as no file comes back that a running build has seen missing,    *)
(* the frontend never leaves the invariant.                                *)
LEMMA BothInvHolds == ASSUME ~MayRecreate PROVE FrontendSpec => []BothInv
<1>1. FrontendInit => BothInv
  BY InitIndInv, InitComplete, InitIncInv DEF FrontendInit, BothInv
<1>2. BothInv /\ [FrontendNext]_allVars => BothInv'
  BY FrontendNextBothInv
<1>3. QED
  BY <1>1, <1>2, PTL DEF FrontendSpec

(* The cached interface of a Source points to the cached interfaces of     *)
(* exactly the Sources it includes, whatever is edited, built or discarded,*)
(* if no file comes back that a running build has seen missing.            *)
THEOREM ImportsAlwaysCurrent == ASSUME ~MayRecreate PROVE FrontendSpec => []ImportsCurrent
<1>1. BothInv => ImportsCurrent
  BY IncInvImplies DEF BothInv
<1>2. QED
  BY <1>1, BothInvHolds, PTL

(* Under the same condition the Graph holds the facts of the bytes on      *)
(* record for every Source.                                                *)
THEOREM GraphAlwaysMatchesBytes == ASSUME ~MayRecreate PROVE FrontendSpec => []GraphMatchesBytes
<1>1. BothInv => GraphMatchesBytes
  BY IncInvImplies DEF BothInv
<1>2. QED
  BY <1>1, BothInvHolds, PTL

(* And no incremental parse ends with a Source that waits for another.     *)
THEOREM NobodyEverLeftWaiting == ASSUME ~MayRecreate PROVE FrontendSpec => []NobodyLeftWaiting
<1>1. BothInv => NobodyLeftWaiting
  BY IncInvImplies DEF BothInv
<1>2. QED
  BY <1>1, BothInvHolds, PTL
=============================================================================
