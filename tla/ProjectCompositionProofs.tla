---------------------- MODULE ProjectCompositionProofs ----------------------
(***************************************************************************)
(* Proofs about ProjectComposition for any number of Projects and worker   *)
(* threads, whatever the configurations say.                               *)
(*                                                                         *)
(* JobsExact speaks of numbers; what is inductive is where the jobs are.   *)
(* A Project with a node is queued, or the job of one thread, or finished, *)
(* and two threads never have the same job, so the counters are sizes of   *)
(* disjoint sets (JobInv).  The cache is closed under the references of    *)
(* what is loaded, but for the references a thread lost by an exception,   *)
(* and holds nothing but the composition (ClosureInv).  Threads leave only *)
(* when nothing is outstanding or one of them threw (ThreadInv): joined    *)
(* threads have loaded everything.  The outcome is that of a depth-first   *)
(* search (SearchInv): what is done refers only to what is done, without a *)
(* cycle, and the stack is a path of references.                           *)
(***************************************************************************)
EXTENDS ProjectComposition, FiniteSetTheorems, SequenceTheorems, TLAPS

PCs == {"off", "looking", "loading", "blocking", "waiting", "exited",
        "throwing", "threw"}
Phases == {"begin", "start", "join", "abandon", "visit", "returned"}
FrameType == [project : Projects, next : Nat \ {0}]

PoolType ==
  /\ config \in [Projects -> Seq(0..NumProjects)]
  /\ unreadable \in SUBSET (Projects \ {Root})
  /\ phase \in Phases
  /\ cache \in SUBSET Projects
  /\ loaded \in SUBSET cache
  /\ queue \in SUBSET cache
  /\ outstanding \in Nat
  /\ files_loaded \in Nat
  /\ stop \in BOOLEAN
  /\ first_failure \in BOOLEAN
  /\ internal_failure \in BOOLEAN
  /\ worker \in [Workers -> [pc : PCs, project : 0..NumProjects]]
  /\ stack \in Seq(FrameType)
  /\ visit \in [Projects -> {"unseen", "visiting", "done"}]

MutexInv == \A w \in Workers : worker[w].pc = "blocking" <=> mutex = w

(* The threads with a job, and those that lost one by an exception.        *)
Active == {w \in Workers : worker[w].pc = "loading"}
Threw == {w \in Workers : worker[w].pc \in {"throwing", "threw"}}
JobsOf(threads) == {worker[w].project : w \in threads}

(* The Projects whose configuration was loaded by a thread, well or not.   *)
Finished == cache \ (queue \cup JobsOf(Active) \cup {Root})

JobInv ==
  /\ Root \in loaded /\ Root \notin queue
  /\ \A w \in Active \cup Threw :
       worker[w].project \in cache \ ({Root} \cup queue)
  /\ \A v, w \in Active \cup Threw : worker[v].project = worker[w].project => v = w
  /\ outstanding = Cardinality(queue) + Cardinality(Active) + Cardinality(Threw)
  /\ files_loaded = Cardinality(Finished)
  /\ stop => outstanding = 0

ClosureInv ==
  /\ loaded \cap unreadable = {}
  /\ cache \subseteq Composition
  /\ phase \in {"start", "join", "abandon", "visit"} =>
       \A q \in loaded : References(config[q]) \subseteq cache \/ q \in JobsOf(Threw)
  /\ ~first_failure => cache = loaded \cup queue \cup JobsOf(Active)
  /\ first_failure => cache \cap unreadable # {}

ThreadInv ==
  /\ phase \in {"begin", "start"} =>
       (\A w \in Workers : worker[w] = Idle) /\ ~internal_failure
  /\ phase = "begin" => cache = {Root} /\ queue = {} /\ ~first_failure /\ ~stop
  /\ phase = "join" => \/ outstanding = 0 /\ \A w \in Workers : worker[w].pc = "off"
                       \/ \A w \in Workers : worker[w].pc # "off"
  /\ phase = "visit" => outstanding = 0 /\ ~first_failure
  /\ phase \in {"visit", "returned"} => Joined
  /\ \A w \in Workers : worker[w].pc = "exited" => internal_failure \/ stop
  /\ \A w \in Workers : worker[w].pc = "threw" => internal_failure

StackInv ==
  /\ \A i \in DOMAIN stack :
       /\ visit[stack[i].project] = "visiting"
       /\ stack[i].next \in 1..(Len(config[stack[i].project]) + 1)
  /\ \A i, j \in DOMAIN stack : stack[i].project = stack[j].project => i = j
  /\ phase \in {"begin", "start", "join", "abandon"} =>
       stack = <<>> /\ \A p \in Projects : visit[p] = "unseen"

IndInv ==
  /\ PoolType
  /\ MutexInv
  /\ JobInv
  /\ ClosureInv
  /\ ThreadInv
  /\ StackInv

-----------------------------------------------------------------------------
(* The depth-first search.                                                 *)
Done == {p \in Projects : visit[p] = "done"}

(* No set of these Projects in which every one refers to another of them.  *)
Acyclic(projects) ==
  \A some \in SUBSET projects :
    some # {} => \E p \in some : References(config[p]) \cap some = {}

SearchInv ==
  /\ result = "none" <=> phase # "returned"
  /\ Acyclic(Done)
  /\ \A p \in Done : References(config[p]) \subseteq Done
  /\ phase = "visit" =>
       /\ stack # <<>> /\ stack[1].project = Root
       /\ \A i \in DOMAIN stack : stack[i].project \in loaded
       /\ \A p \in Projects : visit[p] = "visiting" =>
            \E i \in DOMAIN stack : stack[i].project = p
       /\ \A i \in DOMAIN stack : i < Len(stack) =>
            stack[i + 1].project \in References(config[stack[i].project])
       /\ \A i \in DOMAIN stack : \A k \in 1..(stack[i].next - 1) :
            LET item == config[stack[i].project][k] IN
            \/ item = Source
            \/ item \in Done
            \/ i < Len(stack) /\ item = stack[i + 1].project
(* The sets that are counted are finite.                                   *)
LEMMA FiniteSets ==
  /\ IsFiniteSet(Projects) /\ Cardinality(Projects) = NumProjects
  /\ IsFiniteSet(Workers)
  /\ Root \in Projects /\ 1 \in Workers
BY ProjectCompositionAssumption, FS_Interval DEF Projects, Workers, Root

(* Subsets of them have sizes.                                             *)
LEMMA Sizes ==
  /\ \A S \in SUBSET Projects : IsFiniteSet(S) /\ Cardinality(S) \in Nat
  /\ \A S \in SUBSET Workers : IsFiniteSet(S) /\ Cardinality(S) \in Nat
BY FiniteSets, FS_Subset, FS_CardinalityType

(* Disjoint sets of Projects together are as large as both.                *)
LEMMA SizeOfUnion ==
  ASSUME NEW S \in SUBSET Projects, NEW T \in SUBSET Projects, S \cap T = {}
  PROVE  Cardinality(S \cup T) = Cardinality(S) + Cardinality(T)
<1>1. IsFiniteSet(S) /\ IsFiniteSet(T)
  BY Sizes
<1>2. Cardinality(S \cap T) = 0
  BY FS_EmptySet
<1>3. /\ Cardinality(S) \in Nat /\ Cardinality(T) \in Nat
      /\ Cardinality(S \cup T) = Cardinality(S) + Cardinality(T) - Cardinality(S \cap T)
  BY <1>1, FS_Union, FS_CardinalityType
<1>4. QED
  BY <1>2, <1>3

(* The references of a configuration are Projects.                         *)
LEMMA ReferencesTyped ==
  ASSUME NEW items \in Seq(0..NumProjects)
  PROVE  References(items) \in SUBSET Projects
<1>1. \A i \in DOMAIN items : items[i] \in 0..NumProjects
  BY LenProperties
<1>2. QED
  BY <1>1, ProjectCompositionAssumption DEF References, Source, Projects

(* Those not scheduled yet.                                                *)
LEMMA FreshTyped ==
  ASSUME PoolType, NEW p \in Projects
  PROVE  /\ Fresh(config[p]) \in SUBSET Projects
         /\ Fresh(config[p]) \cap cache = {}
         /\ References(config[p]) \subseteq cache \cup Fresh(config[p])
         /\ Scheduled(config[p]) = Cardinality(Fresh(config[p]))
         /\ Fresh(config[p]) \subseteq References(config[p])
BY ReferencesTyped DEF PoolType, Fresh, Scheduled

(* The composition has the root and what its readable Projects refer to,   *)
(* and is the least such set.                                              *)
LEMMA CompositionClosed ==
  ASSUME PoolType
  PROVE  /\ Root \in Composition
         /\ Composition \in SUBSET Projects
         /\ \A p \in Composition \ unreadable : References(config[p]) \subseteq Composition
         /\ \A closed \in SUBSET Projects :
              /\ Root \in closed
              /\ \A q \in closed \ unreadable : References(config[q]) \subseteq closed
              => Composition \subseteq closed
<1>1. Root \in Composition /\ Composition \in SUBSET Projects
  BY FiniteSets DEF Composition
<1>2. ASSUME NEW p \in Composition \ unreadable, NEW r \in References(config[p])
      PROVE  r \in Composition
  <2>1. r \in Projects
    BY <1>1, ReferencesTyped DEF PoolType
  <2>2. QED
    BY <2>1 DEF Composition
<1>3. \A closed \in SUBSET Projects :
        /\ Root \in closed
        /\ \A q \in closed \ unreadable : References(config[q]) \subseteq closed
        => Composition \subseteq closed
  BY DEF Composition
<1>4. QED
  BY <1>1, <1>2, <1>3

-----------------------------------------------------------------------------
(* The initial state satisfies the invariant.                              *)
LEMMA InitIndInv == Init => IndInv
<1> SUFFICES ASSUME Init PROVE IndInv
  OBVIOUS
<1> USE DEF Init, InitPool
<1>1. PoolType
  <2>1. config \in [Projects -> Seq(0..NumProjects)]
    BY ProjectCompositionAssumption
  <2>2. unreadable \in SUBSET (Projects \ {Root})
    OBVIOUS
  <2>3. worker \in [Workers -> [pc : PCs, project : 0..NumProjects]]
    BY ProjectCompositionAssumption DEF Idle, PCs
  <2>4. stack \in Seq(FrameType) /\ visit \in [Projects -> {"unseen", "visiting", "done"}]
    BY EmptySeq
  <2>5. /\ cache \in SUBSET Projects /\ loaded \in SUBSET cache /\ queue \in SUBSET cache
        /\ outstanding \in Nat /\ files_loaded \in Nat
    BY FiniteSets
  <2>6. QED
    BY <2>1, <2>2, <2>3, <2>4, <2>5 DEF PoolType, Phases
<1>2. \A w \in Workers : worker[w] = Idle /\ worker[w].pc = "off"
  BY DEF Idle
<1>3. MutexInv
  BY <1>2 DEF MutexInv, Workers
<1>4. Active = {} /\ Threw = {} /\ JobsOf(Active) = {}
  BY <1>2 DEF Active, Threw, JobsOf
<1>5. JobInv
  <2>1. Finished = {}
    BY DEF Finished
  <2>2. QED
    BY <1>4, <2>1, FS_EmptySet DEF JobInv
<1>6. ClosureInv
  <2>1. cache \subseteq Composition
    BY <1>1, CompositionClosed
  <2>2. Root \notin unreadable
    OBVIOUS
  <2>3. QED
    BY <1>4, <2>1, <2>2 DEF ClosureInv
<1>7. ThreadInv /\ StackInv
  BY <1>2 DEF ThreadInv, StackInv
<1>8. QED
  BY <1>1, <1>3, <1>5, <1>6, <1>7 DEF IndInv

(* What notify_all leaves of the threads.                                  *)
LEMMA NotifiedFacts ==
  ASSUME NEW ws \in [Workers -> [pc : PCs, project : 0..NumProjects]]
  PROVE  /\ Notified(ws) \in [Workers -> [pc : PCs, project : 0..NumProjects]]
         /\ \A v \in Workers :
              /\ Notified(ws)[v].project = ws[v].project
              /\ Notified(ws)[v].pc = IF ws[v].pc = "waiting" THEN "looking" ELSE ws[v].pc
BY DEF Notified, PCs

(* Threads run only between their creation and the join.                   *)
LEMMA WorkersRun ==
  ASSUME IndInv, NEW w \in Workers, worker[w].pc \notin {"off", "exited", "threw"}
  PROVE  /\ phase \in {"join", "abandon"}
         /\ phase = "join" => \A v \in Workers : worker[v].pc # "off"
BY DEF IndInv, PoolType, Phases, ThreadInv, Joined, Idle

(* A step that changes no input changes neither the composition nor what   *)
(* a configuration refers to.                                              *)
LEMMA InputsKept ==
  ASSUME UNCHANGED inputs
  PROVE  /\ config' = config /\ unreadable' = unreadable
         /\ Composition' = Composition
BY DEF inputs, Composition

(* A step that gives no thread a job and takes none keeps the sets that    *)
(* are counted.                                                            *)
LEMMA SameJobs ==
  ASSUME \A v \in Workers :
           /\ worker'[v].pc = "loading" <=> worker[v].pc = "loading"
           /\ worker'[v].pc \in {"throwing", "threw"}
                <=> worker[v].pc \in {"throwing", "threw"}
           /\ v \in Active \cup Threw => worker'[v].project = worker[v].project
  PROVE  /\ Active' = Active /\ Threw' = Threw
         /\ JobsOf(Active)' = JobsOf(Active) /\ JobsOf(Threw)' = JobsOf(Threw)
<1>1. Active' = Active /\ Threw' = Threw
  BY DEF Active, Threw
<1>2. \A v \in Active \cup Threw : v \in Workers
  BY DEF Active, Threw
<1>3. QED
  BY <1>1, <1>2 DEF JobsOf

(* Such a step that leaves the pool alone keeps what is said of it.        *)
LEMMA QuietStep ==
  ASSUME IndInv, UNCHANGED <<inputs, pool>>,
         \A v \in Workers :
           /\ worker'[v].pc = "loading" <=> worker[v].pc = "loading"
           /\ worker'[v].pc \in {"throwing", "threw"}
                <=> worker[v].pc \in {"throwing", "threw"}
           /\ v \in Active \cup Threw => worker'[v].project = worker[v].project,
         phase' \in {"start", "join", "abandon", "visit"} =>
           phase \in {"start", "join", "abandon", "visit"}
  PROVE  JobInv' /\ ClosureInv'
<1>1. /\ Active' = Active /\ Threw' = Threw
      /\ JobsOf(Active)' = JobsOf(Active) /\ JobsOf(Threw)' = JobsOf(Threw)
  BY SameJobs
<1>2. \A v \in Active \cup Threw : v \in Workers
  BY DEF Active, Threw
<1>3. Finished' = Finished
  BY <1>1 DEF Finished, pool
<1>4. JobInv'
  BY <1>1, <1>2, <1>3 DEF IndInv, JobInv, pool
<1>5. ClosureInv'
  BY <1>1, InputsKept DEF IndInv, ClosureInv, pool
<1>6. QED
  BY <1>4, <1>5

-----------------------------------------------------------------------------
(* A worker that leaves, or is about to sleep.                             *)
LEMMA LookQuietIndInv ==
  ASSUME IndInv, NEW w \in Workers, Look(w), UNCHANGED queue
  PROVE  IndInv'
<1> DEFINE ws(pc) == [worker EXCEPT ![w].pc = pc]
<1>1. CASE worker' = ws("exited") /\ (internal_failure \/ stop) /\ UNCHANGED mutex
  <2>1. PoolType'
    BY <1>1 DEF IndInv, PoolType, Look, inputs, traversal, PCs
  <2>2. \A v \in Workers : /\ worker'[v].project = worker[v].project
                           /\ worker'[v].pc = IF v = w THEN "exited" ELSE worker[v].pc
    BY <1>1 DEF IndInv, PoolType
  <2>3. JobInv' /\ ClosureInv'
    BY <2>2, QuietStep DEF Look, pool
  <2>4. MutexInv'
    BY <1>1, <2>2 DEF IndInv, MutexInv, Look
  <2>5. ThreadInv'
    BY <1>1, <2>2, WorkersRun DEF IndInv, ThreadInv, Look
  <2>6. StackInv'
    BY DEF IndInv, StackInv, Look, inputs, traversal
  <2>7. QED
    BY <2>1, <2>3, <2>4, <2>5, <2>6 DEF IndInv
<1>2. CASE worker' = ws("blocking") /\ mutex' = w
  <2>1. PoolType'
    BY <1>2 DEF IndInv, PoolType, Look, inputs, traversal, PCs
  <2>2. \A v \in Workers : /\ worker'[v].project = worker[v].project
                           /\ worker'[v].pc = IF v = w THEN "blocking" ELSE worker[v].pc
    BY <1>2 DEF IndInv, PoolType
  <2>3. JobInv' /\ ClosureInv'
    BY <2>2, QuietStep DEF Look, pool
  <2>4. MutexInv'
    <3>1. \A v \in Workers : worker[v].pc # "blocking"
      BY DEF IndInv, MutexInv, Look, Workers
    <3>2. QED
      BY <1>2, <2>2, <3>1 DEF MutexInv
  <2>5. ThreadInv'
    BY <1>2, <2>2, WorkersRun DEF IndInv, ThreadInv, Look
  <2>6. StackInv'
    BY DEF IndInv, StackInv, Look, inputs, traversal
  <2>7. QED
    BY <2>1, <2>3, <2>4, <2>5, <2>6 DEF IndInv
<1>3. CASE \E p \in queue : queue' = Dequeued(p)
  BY <1>3 DEF Dequeued
<1>4. QED
  BY <1>1, <1>2, <1>3 DEF Look

(* A worker takes a path: the job moves from the queue to the thread.      *)
LEMMA LookTakeIndInv ==
  ASSUME IndInv, NEW w \in Workers, Look(w), NEW p \in queue,
         queue' = Dequeued(p), UNCHANGED mutex,
         worker' = [worker EXCEPT ![w] = [pc |-> "loading", project |-> p]]
  PROVE  IndInv'
<1>1. p \in cache /\ p \in Projects /\ p # Root /\ p \notin queue'
  BY DEF IndInv, PoolType, JobInv, Dequeued
<1>2. PoolType'
  BY <1>1 DEF IndInv, PoolType, Look, inputs, traversal, PCs, Dequeued, Projects
<1>3. \A v \in Workers :
        /\ worker'[v].pc = IF v = w THEN "loading" ELSE worker[v].pc
        /\ worker'[v].project = IF v = w THEN p ELSE worker[v].project
  BY DEF IndInv, PoolType
<1>4. worker[w].pc = "looking"
  BY DEF Look
<1>5. /\ Active' = Active \cup {w} /\ w \notin Active
      /\ Threw' = Threw /\ w \notin Threw
  BY <1>3, <1>4 DEF Active, Threw
<1>6. /\ Active \in SUBSET Workers /\ Threw \in SUBSET Workers
  BY DEF Active, Threw
<1>7. JobsOf(Active)' = JobsOf(Active) \cup {p} /\ JobsOf(Threw)' = JobsOf(Threw)
  BY <1>3, <1>5, <1>6 DEF JobsOf
<1>8. p \notin JobsOf(Active) /\ p \notin JobsOf(Threw)
  BY DEF IndInv, JobInv, JobsOf
<1>9. UNCHANGED <<cache, loaded, outstanding, stop, files_loaded, first_failure>>
  BY DEF Look
<1>10. JobInv'
  <2>1. Finished' = Finished
    BY <1>1, <1>7, <1>9 DEF Finished, Dequeued
  <2>2. Cardinality(Active') = Cardinality(Active) + 1
    BY <1>5, <1>6, Sizes, FS_AddElement
  <2>3. Cardinality(queue') = Cardinality(queue) - 1
    BY Sizes, FS_RemoveElement DEF IndInv, PoolType, Dequeued
  <2>4. \A v \in Active' \cup Threw' :
          worker'[v].project \in cache' \ ({Root} \cup queue')
    BY <1>1, <1>3, <1>5, <1>6, <1>9 DEF IndInv, JobInv, Dequeued
  <2>5. \A u, v \in Active' \cup Threw' :
          worker'[u].project = worker'[v].project => u = v
    BY <1>3, <1>5, <1>6 DEF IndInv, JobInv
  <2>6. outstanding' = Cardinality(queue') + Cardinality(Active') + Cardinality(Threw')
    <3>1. /\ Cardinality(queue) \in Nat /\ Cardinality(Active) \in Nat
          /\ Cardinality(Threw) \in Nat
          /\ outstanding = Cardinality(queue) + Cardinality(Active) + Cardinality(Threw)
      BY <1>6, Sizes DEF IndInv, PoolType, JobInv
    <3>2. QED
      BY <1>5, <1>9, <2>2, <2>3, <3>1
  <2>7. Root \in loaded' /\ Root \notin queue'
    BY <1>9 DEF IndInv, JobInv, Dequeued
  <2>8. files_loaded' = Cardinality(Finished') /\ (stop' => outstanding' = 0)
    BY <1>9, <2>1 DEF IndInv, JobInv
  <2>9. QED
    BY <2>4, <2>5, <2>6, <2>7, <2>8 DEF JobInv
<1>11. ClosureInv'
  <2>1. UNCHANGED phase /\ config' = config /\ unreadable' = unreadable
        /\ Composition' = Composition
    BY InputsKept DEF Look
  <2>2. queue \cup {p} = queue /\ queue' \cup {p} = queue
    BY DEF Dequeued
  <2>3. queue' \cup JobsOf(Active)' = queue \cup JobsOf(Active)
    BY <1>7, <2>2
  <2>4. ~first_failure' => cache' = loaded' \cup queue' \cup JobsOf(Active)'
    BY <1>9, <2>3 DEF IndInv, ClosureInv
  <2>5. QED
    BY <1>7, <1>9, <2>1, <2>4 DEF IndInv, ClosureInv
<1>12. MutexInv'
  BY <1>3, <1>4 DEF IndInv, MutexInv
<1>13. ThreadInv'
  <2>1. queue # {} /\ outstanding' = outstanding
    BY <1>9
  <2>2. UNCHANGED <<phase, internal_failure>>
    BY DEF Look
  <2>3. QED
    BY <1>3, <1>4, <1>9, <2>2, WorkersRun DEF IndInv, ThreadInv
<1>14. StackInv'
  BY DEF IndInv, StackInv, Look, inputs, traversal
<1>15. QED
  BY <1>2, <1>10, <1>11, <1>12, <1>13, <1>14 DEF IndInv

(* A worker goes to sleep.                                                 *)
LEMMA BlockIndInv ==
  ASSUME IndInv, NEW w \in Workers, Block(w)
  PROVE  IndInv'
<1>1. PoolType'
  BY DEF IndInv, PoolType, Block, inputs, pool, traversal, PCs
<1>2. \A v \in Workers : /\ worker'[v].project = worker[v].project
                         /\ worker'[v].pc = IF v = w THEN "waiting" ELSE worker[v].pc
  BY DEF IndInv, PoolType, Block
<1>3. worker[w].pc = "blocking" /\ mutex = w /\ mutex' = 0 /\ UNCHANGED phase
  BY DEF IndInv, MutexInv, Block
<1>4. JobInv' /\ ClosureInv'
  BY <1>2, <1>3, QuietStep DEF Block
<1>5. MutexInv'
  BY <1>2, <1>3 DEF IndInv, MutexInv, Workers
<1>6. ThreadInv'
  BY <1>2, <1>3, WorkersRun DEF IndInv, ThreadInv, Block, pool
<1>7. StackInv'
  BY DEF IndInv, StackInv, Block, inputs, traversal
<1>8. QED
  BY <1>1, <1>4, <1>5, <1>6, <1>7 DEF IndInv

(* A worker that threw stores the flag and wakes the others.               *)
LEMMA StoreFailureIndInv ==
  ASSUME IndInv, NEW w \in Workers, StoreFailure(w)
  PROVE  IndInv'
<1> DEFINE ws == [worker EXCEPT ![w].pc = "threw"]
<1>1. ws \in [Workers -> [pc : PCs, project : 0..NumProjects]]
  BY DEF IndInv, PoolType, PCs
<1>2. /\ worker' = Notified(ws) /\ worker[w].pc = "throwing"
      /\ internal_failure' = TRUE /\ UNCHANGED <<inputs, phase, pool, mutex, traversal>>
  BY DEF StoreFailure
<1>3. \A v \in Workers : /\ ws[v].project = worker[v].project
                         /\ ws[v].pc = IF v = w THEN "threw" ELSE worker[v].pc
  BY DEF IndInv, PoolType
<1>4. \A v \in Workers :
        /\ worker'[v].project = worker[v].project
        /\ worker'[v].pc = IF v = w THEN "threw"
                           ELSE IF worker[v].pc = "waiting" THEN "looking"
                           ELSE worker[v].pc
  BY <1>1, <1>2, <1>3, NotifiedFacts, ZenonT(90)
<1>5. PoolType'
  <2>1. worker' \in [Workers -> [pc : PCs, project : 0..NumProjects]]
    BY <1>1, <1>2, NotifiedFacts
  <2>2. QED
    BY <1>2, <2>1 DEF IndInv, PoolType, inputs, pool, traversal
<1>6. JobInv' /\ ClosureInv'
  BY <1>2, <1>4, QuietStep
<1>7. MutexInv'
  BY <1>2, <1>4 DEF IndInv, MutexInv
<1>8. ThreadInv'
  BY <1>2, <1>4, WorkersRun DEF IndInv, ThreadInv, pool
<1>9. StackInv'
  BY <1>2 DEF IndInv, StackInv, inputs, traversal
<1>10. QED
  BY <1>5, <1>6, <1>7, <1>8, <1>9 DEF IndInv

(* A thread whose configuration is loaded gives its job up, and schedules  *)
(* some Projects nobody has scheduled: how the counted sets change.        *)
LEMMA JobGivenUp ==
  ASSUME IndInv, NEW w \in Workers, worker[w].pc = "loading",
         NEW fresh \in SUBSET Projects, fresh \cap cache = {},
         cache' = cache \cup fresh, queue' = queue \cup fresh,
         worker'[w].pc # "loading",
         \A v \in Workers \ {w} :
           /\ worker'[v].pc = "loading" <=> worker[v].pc = "loading"
           /\ worker'[v].pc \in {"throwing", "threw"}
                <=> worker[v].pc \in {"throwing", "threw"}
           /\ worker'[v].project = worker[v].project
  PROVE  LET p == worker[w].project IN
         /\ p \in Projects /\ p \in cache /\ p # Root
         /\ p \notin queue' /\ p \notin fresh /\ Root \notin queue'
         /\ Active' = Active \ {w}
         /\ Threw' \ {w} = Threw /\ w \notin Threw
         /\ JobsOf(Active)' = JobsOf(Active) \ {p} /\ p \in JobsOf(Active)
         /\ Cardinality(Active') = Cardinality(Active) - 1
         /\ Cardinality(Active) \in Nat /\ Cardinality(Active) > 0
         /\ Cardinality(queue') = Cardinality(queue) + Cardinality(fresh)
         /\ Cardinality(queue) \in Nat /\ Cardinality(fresh) \in Nat
         /\ Cardinality(Finished') = Cardinality(Finished) + 1
         /\ \A v \in Active' \cup Threw :
              /\ worker'[v].project \in cache' \ ({Root, p} \cup queue')
              /\ worker'[v].project = worker[v].project
         /\ \A u, v \in Active' \cup Threw :
              worker'[u].project = worker'[v].project => u = v
<1> DEFINE p == worker[w].project
<1>1. w \in Active /\ w \notin Threw
  BY DEF Active, Threw
<1>2. Active \in SUBSET Workers /\ Threw \in SUBSET Workers
  BY DEF Active, Threw
<1>3. /\ p \in Projects /\ p \in cache /\ p # Root /\ p \notin queue
      /\ p \notin fresh /\ Root \notin queue /\ Root \in cache
  BY <1>1 DEF IndInv, PoolType, JobInv
<1>4. Active' = Active \ {w} /\ Threw' \ {w} = Threw
  BY <1>1 DEF Active, Threw
<1>5. \A v \in Active' \cup Threw : v \in Workers \ {w} /\ v \in Active \cup Threw
  BY <1>1, <1>2, <1>4
<1>6. \A v \in Active' \cup Threw :
        /\ worker'[v].project = worker[v].project
        /\ worker[v].project # p
        /\ worker[v].project \in cache \ ({Root} \cup queue)
  BY <1>1, <1>5 DEF IndInv, JobInv
<1>7. JobsOf(Active)' = JobsOf(Active) \ {p} /\ p \in JobsOf(Active)
  <2>1. JobsOf(Active)' = {worker[v].project : v \in Active \ {w}}
    BY <1>4, <1>6 DEF JobsOf
  <2>2. \A v \in Active \ {w} : worker[v].project # p
    BY <1>4, <1>6
  <2>3. QED
    BY <1>1, <2>1, <2>2 DEF JobsOf
<1>8. /\ Cardinality(Active') = Cardinality(Active) - 1
      /\ Cardinality(Active) \in Nat /\ Cardinality(Active) > 0
  <2>1. IsFiniteSet(Active) /\ Cardinality(Active) \in Nat /\ Cardinality(Active \ {w}) \in Nat
    BY <1>2, Sizes
  <2>2. Cardinality(Active \ {w}) = Cardinality(Active) - 1
    BY <1>1, <2>1, FS_RemoveElement
  <2>3. QED
    BY <1>4, <2>1, <2>2
<1>9. /\ Cardinality(queue') = Cardinality(queue) + Cardinality(fresh)
      /\ Cardinality(queue) \in Nat /\ Cardinality(fresh) \in Nat
  <2>1. queue \in SUBSET Projects /\ queue \cap fresh = {}
    BY DEF IndInv, PoolType
  <2>2. QED
    BY <2>1, SizeOfUnion, Sizes
<1>10. Cardinality(Finished') = Cardinality(Finished) + 1
  <2>1. Finished' = Finished \cup {p} /\ p \notin Finished
    BY <1>3, <1>7 DEF Finished
  <2>2. Finished \in SUBSET Projects
    BY DEF IndInv, PoolType, Finished
  <2>3. QED
    BY <2>1, <2>2, Sizes, FS_AddElement
<1>11. \A u, v \in Active' \cup Threw :
         worker'[u].project = worker'[v].project => u = v
  BY <1>5, <1>6 DEF IndInv, JobInv
<1>12. \A v \in Active' \cup Threw :
         worker'[v].project \in cache' \ ({Root, p} \cup queue')
  BY <1>6
<1>13. QED
  BY <1>1, <1>3, <1>4, <1>6, <1>7, <1>8, <1>9, <1>10, <1>11, <1>12

(* A worker completes its job.                                             *)
LEMMA CompleteIndInv ==
  ASSUME IndInv, NEW w \in Workers, Complete(w)
  PROVE  IndInv'
<1> DEFINE p == worker[w].project
           ok == p \notin unreadable
           fresh == IF ok THEN Fresh(config[p]) ELSE {}
           ws == [worker EXCEPT ![w] = [Idle EXCEPT !.pc = "looking"]]
<1>1. /\ worker[w].pc = "loading" /\ mutex = 0
      /\ first_failure' = (first_failure \/ ~ok)
      /\ loaded' = IF ok THEN loaded \cup {p} ELSE loaded
      /\ files_loaded' = files_loaded + 1
      /\ stop' = (stop \/ outstanding' = 0)
      /\ worker' = Notified(ws)
      /\ UNCHANGED <<inputs, phase, internal_failure, mutex, traversal>>
  BY DEF Complete
<1>2. p \in Projects /\ p \in cache /\ p \notin queue
  BY <1>1 DEF IndInv, PoolType, JobInv, Active
<1>3. /\ fresh \in SUBSET Projects /\ fresh \cap cache = {}
      /\ ok => /\ References(config[p]) \subseteq cache \cup fresh
               /\ fresh \subseteq References(config[p])
  BY <1>2, FreshTyped DEF IndInv
<1>4. cache' = cache \cup fresh /\ queue' = queue \cup fresh
  BY DEF Complete
<1>5. outstanding' = outstanding + Cardinality(fresh) - 1
  BY <1>2, FreshTyped, FS_EmptySet DEF IndInv, Complete
<1>6. ws \in [Workers -> [pc : PCs, project : 0..NumProjects]]
  BY ProjectCompositionAssumption DEF IndInv, PoolType, PCs, Idle
<1>7. /\ ws[w].pc = "looking"
      /\ \A v \in Workers \ {w} : ws[v] = worker[v]
  BY DEF IndInv, PoolType, Idle
<1>8. /\ worker'[w].pc = "looking"
      /\ \A v \in Workers \ {w} :
           /\ worker'[v].project = worker[v].project
           /\ worker'[v].pc = IF worker[v].pc = "waiting" THEN "looking" ELSE worker[v].pc
  BY <1>1, <1>6, <1>7, NotifiedFacts
<1>9. /\ p # Root /\ p \notin queue' /\ p \notin fresh /\ Root \notin queue'
      /\ Active' = Active \ {w} /\ Threw' \ {w} = Threw /\ w \notin Threw
      /\ JobsOf(Active)' = JobsOf(Active) \ {p} /\ p \in JobsOf(Active)
      /\ Cardinality(Active') = Cardinality(Active) - 1
      /\ Cardinality(Active) \in Nat /\ Cardinality(Active) > 0
      /\ Cardinality(queue') = Cardinality(queue) + Cardinality(fresh)
      /\ Cardinality(queue) \in Nat /\ Cardinality(fresh) \in Nat
      /\ Cardinality(Finished') = Cardinality(Finished) + 1
      /\ \A v \in Active' \cup Threw :
           /\ worker'[v].project \in cache' \ ({Root, p} \cup queue')
           /\ worker'[v].project = worker[v].project
      /\ \A u, v \in Active' \cup Threw :
           worker'[u].project = worker'[v].project => u = v
  <2>1. \A v \in Workers \ {w} :
          /\ worker'[v].pc = "loading" <=> worker[v].pc = "loading"
          /\ worker'[v].pc \in {"throwing", "threw"}
               <=> worker[v].pc \in {"throwing", "threw"}
          /\ worker'[v].project = worker[v].project
    BY <1>8
  <2>2. worker'[w].pc # "loading"
    BY <1>8
  <2> HIDE DEF fresh
  <2>3. QED
    BY <1>1, <1>3, <1>4, <2>1, <2>2, JobGivenUp, ZenonT(90)
<1>10. Threw' = Threw /\ JobsOf(Threw)' = JobsOf(Threw)
  <2>1. w \notin Threw'
    BY <1>8 DEF Threw
  <2>2. Threw' = Threw
    <3>1. Threw' \ {w} = Threw
      BY <1>9
    <3>2. QED
      BY <2>1, <3>1
  <2>3. QED
    BY <1>9, <2>2 DEF JobsOf
<1> HIDE DEF fresh
<1>11. /\ Cardinality(Threw) \in Nat
       /\ outstanding = Cardinality(queue) + Cardinality(Active) + Cardinality(Threw)
  <2>1. Threw \in SUBSET Workers
    BY DEF Threw
  <2>2. QED
    BY <2>1, Sizes DEF IndInv, JobInv
<1>12. outstanding' = Cardinality(queue') + Cardinality(Active') + Cardinality(Threw')
  BY <1>5, <1>9, <1>10, <1>11
<1>13. outstanding' \in Nat /\ outstanding > 0 /\ ~stop
  BY <1>5, <1>9, <1>11 DEF IndInv, JobInv
<1>14. PoolType'
  <2>1. worker' \in [Workers -> [pc : PCs, project : 0..NumProjects]]
    BY <1>1, <1>6, NotifiedFacts
  <2>2. /\ cache' \in SUBSET Projects /\ loaded' \in SUBSET cache' /\ queue' \in SUBSET cache'
    BY <1>1, <1>2, <1>3, <1>4 DEF IndInv, PoolType
  <2>3. stop' \in BOOLEAN /\ first_failure' \in BOOLEAN /\ files_loaded' \in Nat
    BY <1>1 DEF IndInv, PoolType
  <2>4. QED
    BY <1>1, <1>13, <2>1, <2>2, <2>3 DEF IndInv, PoolType, inputs, traversal
<1>15. JobInv'
  <2>1. Root \in loaded'
    BY <1>1 DEF IndInv, JobInv
  <2>2. files_loaded' = Cardinality(Finished') /\ (stop' => outstanding' = 0)
    BY <1>1, <1>9, <1>13 DEF IndInv, JobInv
  <2>3. QED
    BY <1>9, <1>10, <1>12, <2>1, <2>2 DEF JobInv
<1>16. ClosureInv'
  <2>1. UNCHANGED phase /\ config' = config /\ unreadable' = unreadable
        /\ Composition' = Composition
    BY <1>1, InputsKept
  <2>2. loaded' \cap unreadable' = {}
    BY <1>1, <2>1 DEF IndInv, ClosureInv
  <2>3. cache' \subseteq Composition'
    <3>1. ok => fresh \subseteq Composition
      BY <1>2, <1>3, CompositionClosed DEF IndInv, ClosureInv
    <3>2. ~ok => fresh = {}
      BY DEF fresh
    <3>3. QED
      BY <1>4, <2>1, <3>1, <3>2 DEF IndInv, ClosureInv
  <2>4. phase \in {"start", "join", "abandon", "visit"} =>
          \A q \in loaded' : References(config[q]) \subseteq cache' \/ q \in JobsOf(Threw)
    BY <1>1, <1>3, <1>4 DEF IndInv, ClosureInv
  <2>5. ~first_failure' => cache' = loaded' \cup queue' \cup JobsOf(Active)'
    <3>1. JobsOf(Active)' = JobsOf(Active) \ {p}
      BY <1>9
    <3>2. ~first_failure' => ok /\ cache = loaded \cup queue \cup JobsOf(Active)
      BY <1>1 DEF IndInv, ClosureInv
    <3>3. ok => loaded' = loaded \cup {p}
      BY <1>1
    <3> HIDE DEF ok
    <3>4. QED
      BY <1>2, <1>4, <3>1, <3>2, <3>3
  <2>6. first_failure' => cache' \cap unreadable' # {}
    BY <1>1, <1>2, <1>4, <2>1 DEF IndInv, ClosureInv
  <2>7. QED
    BY <1>10, <2>1, <2>2, <2>3, <2>4, <2>5, <2>6 DEF ClosureInv
<1>17. MutexInv'
  BY <1>1, <1>8 DEF IndInv, MutexInv, Workers
<1>18. ThreadInv'
  <2>1. /\ phase \in {"join", "abandon"}
        /\ phase = "join" => \A v \in Workers : worker[v].pc # "off"
    BY <1>1, WorkersRun
  <2>2. \A v \in Workers : worker'[v].pc = "off" => worker[v].pc = "off" /\ v # w
    BY <1>8
  <2>3. \A v \in Workers : /\ worker'[v].pc = "exited" => worker[v].pc = "exited"
                           /\ worker'[v].pc = "threw" => worker[v].pc = "threw"
    BY <1>8
  <2>4. stop => stop'
    BY <1>1
  <2>5. QED
    BY <1>1, <2>1, <2>2, <2>3, <2>4 DEF IndInv, ThreadInv
<1>19. StackInv'
  BY <1>1 DEF IndInv, StackInv, inputs, traversal
<1>20. QED
  BY <1>14, <1>15, <1>16, <1>17, <1>18, <1>19 DEF IndInv

(* A worker throws while it schedules.                                     *)
LEMMA ThrowSchedulingIndInv ==
  ASSUME IndInv, NEW w \in Workers, ThrowScheduling(w)
  PROVE  IndInv'
<1> DEFINE p == worker[w].project
<1>1. /\ worker[w].pc = "loading" /\ mutex = 0 /\ p \notin unreadable
      /\ files_loaded' = files_loaded + 1
      /\ loaded' = loaded \cup {p}
      /\ worker' = [worker EXCEPT ![w].pc = "throwing"]
      /\ UNCHANGED <<inputs, phase, stop, first_failure, internal_failure, mutex, traversal>>
  BY DEF ThrowScheduling
<1>2. p \in Projects /\ p \in cache /\ p \notin queue
  BY <1>1 DEF IndInv, PoolType, JobInv, Active
<1>3. PICK fresh \in SUBSET Fresh(config[p]) :
        /\ cache' = cache \cup fresh /\ queue' = queue \cup fresh
        /\ outstanding' = outstanding + Cardinality(fresh)
  BY DEF ThrowScheduling
<1>4. /\ fresh \in SUBSET Projects /\ fresh \cap cache = {}
      /\ fresh \subseteq References(config[p])
  BY <1>2, <1>3, FreshTyped DEF IndInv
<1>5. \A v \in Workers :
        /\ worker'[v].project = worker[v].project
        /\ worker'[v].pc = IF v = w THEN "throwing" ELSE worker[v].pc
  BY <1>1 DEF IndInv, PoolType
<1>6. /\ p # Root /\ p \notin queue' /\ p \notin fresh /\ Root \notin queue'
      /\ Active' = Active \ {w} /\ Threw' \ {w} = Threw /\ w \notin Threw
      /\ JobsOf(Active)' = JobsOf(Active) \ {p} /\ p \in JobsOf(Active)
      /\ Cardinality(Active') = Cardinality(Active) - 1
      /\ Cardinality(Active) \in Nat /\ Cardinality(Active) > 0
      /\ Cardinality(queue') = Cardinality(queue) + Cardinality(fresh)
      /\ Cardinality(queue) \in Nat /\ Cardinality(fresh) \in Nat
      /\ Cardinality(Finished') = Cardinality(Finished) + 1
      /\ \A v \in Active' \cup Threw :
           /\ worker'[v].project \in cache' \ ({Root, p} \cup queue')
           /\ worker'[v].project = worker[v].project
      /\ \A u, v \in Active' \cup Threw :
           worker'[u].project = worker'[v].project => u = v
  <2>1. \A v \in Workers \ {w} :
          /\ worker'[v].pc = "loading" <=> worker[v].pc = "loading"
          /\ worker'[v].pc \in {"throwing", "threw"}
               <=> worker[v].pc \in {"throwing", "threw"}
          /\ worker'[v].project = worker[v].project
    BY <1>5
  <2>2. worker'[w].pc # "loading"
    BY <1>5
  <2>3. QED
    BY <1>1, <1>3, <1>4, <2>1, <2>2, JobGivenUp, ZenonT(90)
<1>7. Threw' = Threw \cup {w}
  <2>1. w \in Threw'
    BY <1>5 DEF Threw
  <2>2. QED
    BY <1>6, <2>1
<1>8. JobsOf(Threw)' = JobsOf(Threw) \cup {p}
  <2>1. \A v \in Threw' : v \in Workers
    BY DEF Threw
  <2>2. QED
    BY <1>5, <1>7, <2>1 DEF JobsOf
<1>9. /\ Cardinality(Threw) \in Nat /\ Cardinality(Threw') = Cardinality(Threw) + 1
      /\ outstanding = Cardinality(queue) + Cardinality(Active) + Cardinality(Threw)
  <2>1. Threw \in SUBSET Workers
    BY DEF Threw
  <2>2. QED
    BY <1>6, <1>7, <2>1, Sizes, FS_AddElement DEF IndInv, JobInv
<1>10. outstanding' = Cardinality(queue') + Cardinality(Active') + Cardinality(Threw')
  BY <1>3, <1>6, <1>9
<1>11. outstanding' \in Nat /\ outstanding > 0 /\ ~stop
  BY <1>3, <1>6, <1>9 DEF IndInv, JobInv
<1>12. PoolType'
  <2>1. worker' \in [Workers -> [pc : PCs, project : 0..NumProjects]]
    BY <1>1 DEF IndInv, PoolType, PCs
  <2>2. /\ cache' \in SUBSET Projects /\ loaded' \in SUBSET cache' /\ queue' \in SUBSET cache'
    BY <1>1, <1>2, <1>3, <1>4 DEF IndInv, PoolType
  <2>3. QED
    BY <1>1, <1>11, <2>1, <2>2 DEF IndInv, PoolType, inputs, traversal
<1>13. JobInv'
  <2>1. \A v \in Active' \cup Threw' :
          worker'[v].project \in cache' \ ({Root} \cup queue')
    BY <1>2, <1>3, <1>5, <1>6, <1>7
  <2>2. \A u, v \in Active' \cup Threw' :
          worker'[u].project = worker'[v].project => u = v
    BY <1>5, <1>6, <1>7
  <2>3. Root \in loaded' /\ files_loaded' = Cardinality(Finished') /\ ~stop'
    BY <1>1, <1>6, <1>11 DEF IndInv, JobInv
  <2>4. QED
    BY <1>6, <1>10, <2>1, <2>2, <2>3 DEF JobInv
<1>14. ClosureInv'
  <2>1. UNCHANGED phase /\ config' = config /\ unreadable' = unreadable
        /\ Composition' = Composition
    BY <1>1, InputsKept
  <2>2. loaded' \cap unreadable' = {}
    BY <1>1, <2>1 DEF IndInv, ClosureInv
  <2>3. cache' \subseteq Composition'
    <3>1. fresh \subseteq Composition
      BY <1>1, <1>2, <1>4, CompositionClosed DEF IndInv, ClosureInv
    <3>2. QED
      BY <1>3, <2>1, <3>1 DEF IndInv, ClosureInv
  <2>4. phase \in {"start", "join", "abandon", "visit"} =>
          \A q \in loaded' : References(config[q]) \subseteq cache' \/ q \in JobsOf(Threw)'
    BY <1>1, <1>3, <1>8 DEF IndInv, ClosureInv
  <2>5. ~first_failure' => cache' = loaded' \cup queue' \cup JobsOf(Active)'
    <3>1. JobsOf(Active)' = JobsOf(Active) \ {p}
      BY <1>6
    <3>2. ~first_failure' => cache = loaded \cup queue \cup JobsOf(Active)
      BY <1>1 DEF IndInv, ClosureInv
    <3>3. loaded' = loaded \cup {p} /\ cache' = cache \cup fresh /\ queue' = queue \cup fresh
      BY <1>1, <1>3
    <3>4. QED
      BY <1>2, <3>1, <3>2, <3>3
  <2>6. first_failure' => cache' \cap unreadable' # {}
    BY <1>1, <1>3, <2>1 DEF IndInv, ClosureInv
  <2>7. QED
    BY <2>1, <2>2, <2>3, <2>4, <2>5, <2>6 DEF ClosureInv
<1>15. MutexInv'
  BY <1>1, <1>5 DEF IndInv, MutexInv, Workers
<1>16. ThreadInv'
  <2>1. /\ phase \in {"join", "abandon"}
        /\ phase = "join" => \A v \in Workers : worker[v].pc # "off"
    BY <1>1, WorkersRun
  <2>2. QED
    BY <1>1, <1>5, <2>1 DEF IndInv, ThreadInv
<1>17. StackInv'
  BY <1>1 DEF IndInv, StackInv, inputs, traversal
<1>18. QED
  BY <1>12, <1>13, <1>14, <1>15, <1>16, <1>17 DEF IndInv

-----------------------------------------------------------------------------
(* The root's references are queued before there are threads.              *)
LEMMA ScheduleRootIndInv == ASSUME IndInv, ScheduleRoot PROVE IndInv'
<1> DEFINE fresh == Fresh(config[Root])
<1>1. /\ phase = "begin" /\ phase' = "start"
      /\ cache' = cache \cup fresh /\ queue' = fresh
      /\ outstanding' = Scheduled(config[Root]) /\ stop' = (outstanding' = 0)
      /\ UNCHANGED <<inputs, loaded, first_failure, files_loaded, internal_failure,
                     mutex, worker, traversal>>
  BY DEF ScheduleRoot
<1>2. /\ cache = {Root} /\ queue = {} /\ ~first_failure /\ ~internal_failure
      /\ \A w \in Workers : worker[w] = Idle /\ worker[w].pc = "off"
  BY <1>1 DEF IndInv, ThreadInv, Idle
<1>3. /\ fresh \in SUBSET Projects /\ fresh \cap cache = {}
      /\ References(config[Root]) \subseteq cache \cup fresh
      /\ outstanding' = Cardinality(fresh) /\ fresh \subseteq References(config[Root])
  BY <1>1, FiniteSets, FreshTyped DEF IndInv
<1> HIDE DEF fresh
<1>4. Active = {} /\ Threw = {} /\ Active' = {} /\ Threw' = {}
  BY <1>1, <1>2 DEF Active, Threw
<1>5. JobsOf(Active) = {} /\ JobsOf(Active)' = {} /\ JobsOf(Threw)' = {}
  BY <1>4 DEF JobsOf
<1>6. loaded = {Root}
  BY <1>2 DEF IndInv, PoolType, JobInv
<1>7. PoolType'
  BY <1>1, <1>2, <1>3, Sizes DEF IndInv, PoolType, inputs, traversal, Phases
<1>8. JobInv'
  <2>1. Finished' = Finished
    BY <1>1, <1>2, <1>5 DEF Finished
  <2>2. Cardinality({}) = 0 /\ Cardinality(fresh) \in Nat
    BY <1>3, FS_EmptySet, Sizes
  <2>3. outstanding' = Cardinality(queue') + Cardinality(Active') + Cardinality(Threw')
    BY <1>1, <1>3, <1>4, <2>2
  <2>4. Root \in loaded' /\ Root \notin queue'
    BY <1>1, <1>2, <1>3, <1>6
  <2>5. files_loaded' = Cardinality(Finished') /\ (stop' => outstanding' = 0)
    BY <1>1, <2>1 DEF IndInv, JobInv
  <2>6. QED
    BY <1>4, <2>3, <2>4, <2>5 DEF JobInv
<1>9. ClosureInv'
  <2>1. /\ config' = config /\ unreadable' = unreadable /\ Composition' = Composition
    BY <1>1, InputsKept
  <2>2. cache' \subseteq Composition'
    <3>1. Root \notin unreadable
      BY DEF IndInv, PoolType
    <3>2. fresh \subseteq Composition
      BY <1>3, <3>1, CompositionClosed DEF IndInv
    <3>3. QED
      BY <1>1, <2>1, <3>2 DEF IndInv, ClosureInv
  <2>3. cache' = loaded' \cup queue' \cup JobsOf(Active)'
    BY <1>1, <1>2, <1>5, <1>6
  <2>4. \A q \in loaded' : References(config'[q]) \subseteq cache'
    BY <1>1, <1>3, <1>6, <2>1
  <2>5. QED
    BY <1>1, <1>2, <2>1, <2>2, <2>3, <2>4 DEF IndInv, ClosureInv
<1>10. MutexInv' /\ ThreadInv'
  BY <1>1, <1>2 DEF IndInv, MutexInv, ThreadInv
<1>11. StackInv'
  BY <1>1 DEF IndInv, StackInv, inputs, traversal
<1>12. QED
  BY <1>7, <1>8, <1>9, <1>10, <1>11 DEF IndInv

(* Threads are created without a job.                                      *)
LEMMA StartWorkersIndInv == ASSUME IndInv, StartWorkers PROVE IndInv'
<1>1. PICK created \in 0..WorkerLimit :
        LET count == IF outstanding = 0 THEN 0 ELSE created IN
        /\ phase = "start"
        /\ phase' = IF outstanding # 0 /\ created < WorkerLimit
                    THEN "abandon" ELSE "join"
        /\ worker' = [w \in Workers |->
                        IF w <= count THEN [Idle EXCEPT !.pc = "looking"] ELSE Idle]
        /\ UNCHANGED <<inputs, pool, internal_failure, mutex, traversal>>
  <2>1. WorkerLimit \in 0..WorkerLimit
    BY ProjectCompositionAssumption
  <2>2. QED
    BY <2>1 DEF StartWorkers
<1>2. \A w \in Workers : worker[w] = Idle /\ worker[w].pc = "off" /\ ~internal_failure
  BY <1>1 DEF IndInv, ThreadInv, Idle
<1>3. \A w \in Workers : /\ worker'[w].pc \in {"off", "looking"}
                         /\ worker'[w].project = 0
                         /\ outstanding = 0 => worker'[w].pc = "off"
  BY <1>1 DEF Idle, Workers
<1>4. phase' = "join" /\ outstanding # 0 => \A w \in Workers : worker'[w].pc # "off"
  BY <1>1, ProjectCompositionAssumption DEF Idle, Workers
<1>5. PoolType'
  <2>1. worker' \in [Workers -> [pc : PCs, project : 0..NumProjects]]
    BY <1>1, ProjectCompositionAssumption DEF Idle, PCs
  <2>2. phase' \in Phases
    BY <1>1 DEF Phases
  <2>3. QED
    BY <1>1, <2>1, <2>2 DEF IndInv, PoolType, inputs, pool, traversal
<1>6. JobInv' /\ ClosureInv'
  <2>1. \A v \in Workers :
          /\ worker'[v].pc = "loading" <=> worker[v].pc = "loading"
          /\ worker'[v].pc \in {"throwing", "threw"}
               <=> worker[v].pc \in {"throwing", "threw"}
          /\ v \in Active \cup Threw => worker'[v].project = worker[v].project
    BY <1>2, <1>3 DEF Active, Threw
  <2>2. QED
    BY <1>1, <2>1, QuietStep
<1>7. MutexInv'
  BY <1>1, <1>2, <1>3 DEF IndInv, MutexInv
<1>8. ThreadInv'
  <2>1. phase' \in {"join", "abandon"} /\ outstanding' = outstanding
    BY <1>1 DEF pool
  <2>2. QED
    BY <1>3, <1>4, <2>1 DEF ThreadInv
<1>9. StackInv'
  BY <1>1 DEF IndInv, StackInv, inputs, traversal
<1>10. QED
  BY <1>5, <1>6, <1>7, <1>8, <1>9 DEF IndInv

-----------------------------------------------------------------------------
(* Without threads the coordinator leaves the pool as it is: only the      *)
(* stack can go wrong.                                                     *)
LEMMA CoordinatorAlone ==
  ASSUME IndInv, Joined, UNCHANGED <<inputs, pool, internal_failure, mutex, worker>>,
         phase' \in {"visit", "returned"},
         phase' = "visit" =>
           phase \in {"join", "visit"} /\ outstanding = 0 /\ ~first_failure,
         stack' \in Seq(FrameType),
         visit' \in [Projects -> {"unseen", "visiting", "done"}],
         StackInv'
  PROVE  IndInv'
<1>1. PoolType'
  BY DEF IndInv, PoolType, inputs, pool, Phases
<1>2. JobInv' /\ ClosureInv'
  BY QuietStep
<1>3. MutexInv'
  BY DEF IndInv, MutexInv
<1>4. ThreadInv'
  BY DEF IndInv, ThreadInv, pool, Joined
<1>5. QED
  BY <1>1, <1>2, <1>3, <1>4 DEF IndInv

(* There are no threads before their creation, nor in the traversal.       *)
LEMMA Alone ==
  ASSUME IndInv, phase \in {"begin", "visit"}
  PROVE  Joined /\ (phase = "visit" => outstanding = 0 /\ ~first_failure)
BY DEF IndInv, ThreadInv, Joined, Idle

(* A step that returns and leaves the traversal as it is.                  *)
LEMMA ReturnIndInv ==
  ASSUME IndInv, Joined, phase' = "returned",
         UNCHANGED <<inputs, pool, internal_failure, mutex, worker, stack, visit>>
  PROVE  IndInv'
<1>1. StackInv'
  BY DEF IndInv, StackInv, inputs
<1>2. stack' \in Seq(FrameType) /\ visit' \in [Projects -> {"unseen", "visiting", "done"}]
  BY DEF IndInv, PoolType
<1>3. QED
  BY <1>1, <1>2, CoordinatorAlone

(* When joined threads left no failure, no job is outstanding.             *)
LEMMA JoinedIdle ==
  ASSUME IndInv, Joined, phase = "join", ~internal_failure
  PROVE  outstanding = 0
<1>1. CASE \A w \in Workers : worker[w].pc # "off"
  <2>1. worker[1].pc \in {"exited", "threw"}
    BY <1>1, FiniteSets DEF Joined
  <2>2. QED
    BY <2>1, FiniteSets DEF IndInv, ThreadInv, JobInv
<1>2. QED
  BY <1>1 DEF IndInv, ThreadInv

(* The join: a failure, or the traversal begins at the root.               *)
LEMMA JoinIndInv == ASSUME IndInv, Join PROVE IndInv'
<1>1. /\ Joined /\ phase \in {"join", "abandon"}
      /\ UNCHANGED <<inputs, pool, internal_failure, mutex, worker>>
  BY DEF Join
<1>2. CASE phase' = "returned" /\ UNCHANGED <<stack, visit>>
  BY <1>1, <1>2, ReturnIndInv
<1>3. CASE /\ phase = "join" /\ ~internal_failure /\ ~first_failure
           /\ phase' = "visit"
           /\ stack' = <<[project |-> Root, next |-> 1]>>
           /\ visit' = [visit EXCEPT ![Root] = "visiting"]
  <2>1. outstanding = 0
    BY <1>1, <1>3, JoinedIdle
  <2>2. stack' \in Seq(FrameType) /\ Len(stack') = 1 /\ DOMAIN stack' = {1}
        /\ stack'[1].project = Root /\ stack'[1].next = 1
    BY <1>3, FiniteSets DEF FrameType
  <2>3. visit' \in [Projects -> {"unseen", "visiting", "done"}] /\ visit'[Root] = "visiting"
    BY <1>3, FiniteSets DEF IndInv, PoolType
  <2>4. Len(config'[Root]) \in Nat
    BY <1>1, FiniteSets DEF IndInv, PoolType, inputs
  <2>5. StackInv'
    BY <1>3, <2>2, <2>3, <2>4 DEF StackInv
  <2>6. QED
    BY <1>1, <1>3, <2>1, <2>2, <2>3, <2>5, CoordinatorAlone
<1>4. QED
  BY <1>1, <1>2, <1>3 DEF Join, Return

-----------------------------------------------------------------------------
(* A frame is at an item of a Project.                                     *)
LEMMA FramesTyped ==
  ASSUME IndInv
  PROVE  \A i \in DOMAIN stack : /\ stack[i] \in FrameType
                                 /\ stack[i].project \in Projects
                                 /\ stack[i].next \in Nat \ {0}
<1>1. stack \in Seq(FrameType)
  BY DEF IndInv, PoolType
<1>2. \A i \in DOMAIN stack : stack[i] \in FrameType
  BY <1>1, LenProperties, ElementOfSeq
<1>3. QED
  BY <1>2 DEF FrameType

(* The uppermost frame moves on by one item.                               *)
LEMMA AdvancedFacts ==
  ASSUME IndInv, NEW item, AtItem(item)
  PROVE  /\ Top \in DOMAIN stack /\ DOMAIN stack = 1..Len(stack) /\ Len(stack) \in Nat
         /\ Advanced \in Seq(FrameType) /\ Len(Advanced) = Len(stack)
         /\ \A i \in DOMAIN stack :
              /\ Advanced[i].project = stack[i].project
              /\ Advanced[i].next = IF i = Top THEN stack[i].next + 1 ELSE stack[i].next
              /\ Advanced[i].next \in 1..(Len(config[stack[i].project]) + 1)
<1>1. stack \in Seq(FrameType) /\ stack # <<>>
  BY DEF IndInv, PoolType, AtItem
<1>2. Top \in DOMAIN stack /\ DOMAIN stack = 1..Len(stack) /\ Len(stack) \in Nat
  BY <1>1, EmptySeq, LenProperties DEF Top
<1>3. \A i \in DOMAIN stack : /\ stack[i] \in FrameType /\ stack[i].next \in Nat \ {0}
                              /\ stack[i].project \in Projects
  BY FramesTyped
<1>4. \A i \in DOMAIN stack : Len(config[stack[i].project]) \in Nat
  BY <1>3 DEF IndInv, PoolType
<1>5. Frame.next \in 1..Len(config[Frame.project])
  <2>1. config[Frame.project] \in Seq(0..NumProjects)
    BY <1>2, <1>3 DEF IndInv, PoolType, Frame
  <2>2. QED
    BY <2>1 DEF AtItem, ItemsOfFrame
<1>6. Advanced \in Seq(FrameType) /\ Len(Advanced) = Len(stack)
  BY <1>1, <1>2, <1>3 DEF Advanced, FrameType
<1>7. \A i \in DOMAIN stack :
        /\ Advanced[i].project = stack[i].project
        /\ Advanced[i].next = IF i = Top THEN stack[i].next + 1 ELSE stack[i].next
  BY <1>1, <1>2, <1>3 DEF Advanced, FrameType
<1>8. \A i \in DOMAIN stack : Advanced[i].next \in 1..(Len(config[stack[i].project]) + 1)
  BY <1>2, <1>3, <1>4, <1>5, <1>7, SMTT(40) DEF IndInv, StackInv, Frame
<1>9. QED
  BY <1>2, <1>6, <1>7, <1>8

(* The traversal moves on and enters nothing.                              *)
LEMMA AdvanceIndInv ==
  ASSUME IndInv, NEW item, AtItem(item), stack' = Advanced, UNCHANGED <<phase, visit>>,
         UNCHANGED <<inputs, pool, internal_failure, mutex, worker>>
  PROVE  IndInv'
<1>1. phase = "visit" /\ phase' = "visit" /\ config' = config
  BY DEF AtItem, inputs
<1>2. stack' \in Seq(FrameType) /\ DOMAIN stack' = DOMAIN stack
  BY AdvancedFacts
<1>3. StackInv'
  BY <1>1, <1>2, AdvancedFacts, SMTT(40) DEF IndInv, StackInv
<1>4. visit' \in [Projects -> {"unseen", "visiting", "done"}]
  BY DEF IndInv, PoolType
<1>5. QED
  BY <1>1, <1>2, <1>3, <1>4, Alone, CoordinatorAlone

(* The traversal enters a Project.                                         *)
LEMMA EnterIndInv ==
  ASSUME IndInv, NEW p \in Projects, AtItem(p), Enters(p),
         stack' = Append(Advanced, [project |-> p, next |-> 1]),
         visit' = [visit EXCEPT ![p] = "visiting"], UNCHANGED phase,
         UNCHANGED <<inputs, pool, internal_failure, mutex, worker>>
  PROVE  /\ IndInv'
         /\ Len(stack') = Len(stack) + 1
         /\ stack'[Len(stack) + 1] = [project |-> p, next |-> 1]
         /\ \A i \in DOMAIN stack : stack'[i] = Advanced[i]
<1> DEFINE frame == [project |-> p, next |-> 1]
<1>1. phase = "visit" /\ phase' = "visit" /\ config' = config
  BY DEF AtItem, inputs
<1>2. frame \in FrameType
  BY DEF FrameType
<1>3. /\ Advanced \in Seq(FrameType) /\ Len(Advanced) = Len(stack) /\ Len(stack) \in Nat
      /\ DOMAIN stack = 1..Len(stack)
  BY AdvancedFacts
<1>4. /\ stack' \in Seq(FrameType) /\ Len(stack') = Len(stack) + 1
      /\ DOMAIN stack' = 1..(Len(stack) + 1)
      /\ stack'[Len(stack) + 1] = frame
      /\ \A i \in 1..Len(stack) : stack'[i] = Advanced[i]
  BY <1>2, <1>3, AppendProperties
<1>5. visit' \in [Projects -> {"unseen", "visiting", "done"}] /\ visit'[p] = "visiting"
      /\ \A q \in Projects : q # p => visit'[q] = visit[q]
  BY DEF IndInv, PoolType
<1>6. \A i \in 1..Len(stack) :
        /\ stack'[i].project = stack[i].project
        /\ stack[i].project \in Projects
        /\ visit[stack[i].project] = "visiting"
        /\ stack[i].project # p
        /\ stack'[i].next \in 1..(Len(config[stack[i].project]) + 1)
  <2>1. \A i \in 1..Len(stack) : stack[i].project \in Projects
    BY <1>3, FramesTyped
  <2>2. QED
    BY <1>3, <1>4, <2>1, AdvancedFacts DEF IndInv, StackInv, Enters
<1>7. Len(config[p]) \in Nat
  BY DEF IndInv, PoolType
<1>8. StackInv'
  <2>1. \A i \in DOMAIN stack' : i \in 1..Len(stack) \/ i = Len(stack) + 1
    BY <1>3, <1>4
  <2>2. \A i \in DOMAIN stack' :
          /\ visit'[stack'[i].project] = "visiting"
          /\ stack'[i].next \in 1..(Len(config'[stack'[i].project]) + 1)
    BY <1>1, <1>4, <1>5, <1>6, <1>7, <2>1
  <2>3. \A i, j \in DOMAIN stack' : stack'[i].project = stack'[j].project => i = j
    BY <1>3, <1>4, <1>6, <2>1 DEF IndInv, StackInv
  <2>4. QED
    BY <1>1, <2>2, <2>3 DEF StackInv
<1>9. QED
  BY <1>1, <1>3, <1>4, <1>5, <1>8, Alone, CoordinatorAlone

(* A Project is done and its frame is popped.                              *)
LEMMA FinishFrameIndInv ==
  ASSUME IndInv, FinishFrame
  PROVE  /\ IndInv'
         /\ Top \in DOMAIN stack /\ DOMAIN stack = 1..Len(stack) /\ Len(stack) \in Nat
         /\ Frame.project \in Projects
         /\ Len(stack') = Len(stack) - 1
         /\ DOMAIN stack' = 1..(Len(stack) - 1)
         /\ \A i \in DOMAIN stack' : stack'[i] = stack[i]
<1>1. /\ phase = "visit" /\ phase' \in {"visit", "returned"} /\ config' = config
      /\ visit' = [visit EXCEPT ![Frame.project] = "done"]
      /\ stack' = SubSeq(stack, 1, Top - 1)
      /\ UNCHANGED <<inputs, pool, internal_failure, mutex, worker>>
  BY DEF FinishFrame, Return, inputs
<1>2. stack \in Seq(FrameType) /\ stack # <<>>
  BY DEF IndInv, PoolType, FinishFrame
<1>3. Top = Len(stack) /\ Top \in DOMAIN stack /\ DOMAIN stack = 1..Len(stack) /\ Len(stack) \in Nat
  BY <1>2, EmptySeq, LenProperties DEF Top
<1>4. \A i \in DOMAIN stack : stack[i] \in FrameType /\ stack[i].project \in Projects
  BY FramesTyped
<1>5. /\ stack' \in Seq(FrameType) /\ Len(stack') = Len(stack) - 1
      /\ DOMAIN stack' = 1..(Len(stack) - 1)
      /\ \A i \in DOMAIN stack' : stack'[i] = stack[i] /\ i \in DOMAIN stack /\ i # Top
  BY <1>1, <1>2, <1>3, <1>4
<1>6. Frame.project \in Projects
  BY <1>3, <1>4 DEF Frame
<1>7. visit' \in [Projects -> {"unseen", "visiting", "done"}]
      /\ \A q \in Projects : q # Frame.project => visit'[q] = visit[q]
  BY <1>1, <1>6 DEF IndInv, PoolType
<1>8. StackInv'
  <2>1. \A i \in DOMAIN stack' : stack[i].project # Frame.project
    BY <1>3, <1>5 DEF IndInv, StackInv, Frame
  <2>2. QED
    BY <1>1, <1>4, <1>5, <1>7, <2>1 DEF IndInv, StackInv
<1>9. QED
  BY <1>1, <1>3, <1>5, <1>6, <1>7, <1>8, Alone, CoordinatorAlone

(* A reference is followed.                                                *)
LEMMA VisitProjectIndInv ==
  ASSUME IndInv, NEW p \in Projects, VisitProject(p)
  PROVE  IndInv'
<1>1. /\ AtItem(p) /\ phase = "visit"
      /\ UNCHANGED <<inputs, pool, internal_failure, mutex, worker>>
  BY DEF VisitProject, AtItem
<1>2. CASE phase' = "returned" /\ UNCHANGED <<stack, visit>>
  BY <1>1, <1>2, Alone, ReturnIndInv
<1>3. CASE /\ Enters(p) /\ visit' = [visit EXCEPT ![p] = "visiting"]
           /\ stack' = Append(Advanced, [project |-> p, next |-> 1])
           /\ UNCHANGED phase
  BY <1>1, <1>3, EnterIndInv
<1>4. CASE stack' = Advanced /\ UNCHANGED <<visit, phase>>
  BY <1>1, <1>4, AdvanceIndInv
<1>5. QED
  BY <1>2, <1>3, <1>4 DEF VisitProject, Return

-----------------------------------------------------------------------------
(* Every step preserves the invariant.                                     *)
LEMMA NextIndInv == IndInv /\ [Next]_vars => IndInv'
<1> SUFFICES ASSUME IndInv, [Next]_vars PROVE IndInv'
  OBVIOUS
<1>1. CASE PublishRootOnly
  BY <1>1, Alone, ReturnIndInv DEF PublishRootOnly, Return
<1>2. CASE ScheduleRoot
  BY <1>2, ScheduleRootIndInv
<1>3. CASE StartWorkers
  BY <1>3, StartWorkersIndInv
<1>4. CASE Join
  BY <1>4, JoinIndInv
<1>5. CASE CoordinatorThrows
  BY <1>5, Alone, ReturnIndInv DEF CoordinatorThrows, Return, traversal
<1>6. CASE FinishFrame
  BY <1>6, FinishFrameIndInv
<1>7. CASE AddRoot
  BY <1>7, AdvanceIndInv DEF AddRoot
<1>8. CASE RootRefused
  <2>1. phase \in {"begin", "visit"} /\ phase' = "returned"
    BY <1>8 DEF RootRefused, AtItem, Return
  <2>2. QED
    BY <1>8, <2>1, Alone, ReturnIndInv DEF RootRefused, traversal
<1>9. ASSUME NEW p \in Projects, VisitProject(p) PROVE IndInv'
  BY <1>9, VisitProjectIndInv
<1>10. ASSUME NEW w \in Workers, Look(w) PROVE IndInv'
  BY <1>10, LookQuietIndInv, LookTakeIndInv DEF Look
<1>11. ASSUME NEW w \in Workers, Block(w) \/ Complete(w) \/ ThrowScheduling(w) \/ StoreFailure(w)
       PROVE  IndInv'
  BY <1>11, BlockIndInv, CompleteIndInv, ThrowSchedulingIndInv, StoreFailureIndInv
<1>12. CASE UNCHANGED vars
  <2>1. UNCHANGED <<inputs, phase, pool, internal_failure, mutex, worker, traversal>>
    BY <1>12 DEF vars
  <2>2. PoolType'
    BY <2>1 DEF IndInv, PoolType, inputs, pool, traversal
  <2>3. JobInv' /\ ClosureInv'
    BY <2>1, QuietStep
  <2>4. MutexInv' /\ ThreadInv'
    BY <2>1 DEF IndInv, MutexInv, ThreadInv, Joined, pool
  <2>5. StackInv'
    BY <2>1 DEF IndInv, StackInv, inputs, traversal
  <2>6. QED
    BY <2>2, <2>3, <2>4, <2>5 DEF IndInv
<1>13. QED
  BY <1>1, <1>2, <1>3, <1>4, <1>5, <1>6, <1>7, <1>8, <1>9, <1>10, <1>11, <1>12
     DEF Next, Coordinator, Worker

(* IndInv holds in every reachable state.                                  *)
LEMMA Inductive == Spec => []IndInv
<1>1. QED
  BY InitIndInv, NextIndInv, PTL DEF Spec

-----------------------------------------------------------------------------
(* A function without two equal values has as many values as arguments.    *)
LEMMA ImageSize ==
  ASSUME NEW S, IsFiniteSet(S), NEW T, NEW f \in [S -> T],
         \A x, y \in S : f[x] = f[y] => x = y,
         T = {f[x] : x \in S}
  PROVE  IsFiniteSet(T) /\ Cardinality(T) = Cardinality(S)
<1>1. f \in Surjection(S, T)
  BY DEF Surjection
<1>2. f \in Injection(S, T)
  BY DEF Injection, IsInjective
<1>3. QED
  BY <1>1, <1>2, FS_Surjection

(* When the traversal runs, the loaded Projects are the composition, each  *)
(* of them but the root was loaded by one job, and all could be read.      *)
LEMMA VisitLoaded ==
  ASSUME IndInv, phase = "visit"
  PROVE  /\ loaded = Composition /\ loaded \cap unreadable = {}
         /\ files_loaded = Cardinality(Composition) - 1
<1>1. Active \in SUBSET Workers /\ Threw \in SUBSET Workers /\ queue \in SUBSET Projects
  BY DEF Active, Threw, IndInv, PoolType
<1>2. /\ IsFiniteSet(queue) /\ Cardinality(queue) \in Nat
      /\ IsFiniteSet(Active) /\ Cardinality(Active) \in Nat
      /\ IsFiniteSet(Threw) /\ Cardinality(Threw) \in Nat
  BY <1>1, Sizes
<1>3. 0 = Cardinality(queue) + Cardinality(Active) + Cardinality(Threw)
  BY DEF IndInv, JobInv, ThreadInv
<1>4. Cardinality(queue) = 0 /\ Cardinality(Active) = 0 /\ Cardinality(Threw) = 0
  BY <1>2, <1>3
<1>5. queue = {} /\ Active = {} /\ Threw = {}
  BY <1>2, <1>4, FS_EmptySet
<1>6. JobsOf(Active) = {} /\ JobsOf(Threw) = {}
  BY <1>5 DEF JobsOf
<1>7. cache = loaded
  BY <1>5, <1>6 DEF IndInv, ClosureInv, ThreadInv
<1>8. \A q \in loaded : References(config[q]) \subseteq loaded
  BY <1>6, <1>7 DEF IndInv, ClosureInv
<1>9. loaded = Composition
  <2>1. loaded \in SUBSET Projects /\ Root \in loaded
    BY DEF IndInv, PoolType, JobInv
  <2>2. Composition \subseteq loaded
    BY <1>8, <2>1, CompositionClosed DEF IndInv
  <2>3. QED
    BY <1>7, <2>2 DEF IndInv, ClosureInv
<1>10. files_loaded = Cardinality(Composition) - 1
  <2>1. Finished = Composition \ {Root}
    BY <1>5, <1>6, <1>7, <1>9 DEF Finished
  <2>2. Root \in Composition /\ IsFiniteSet(Composition)
    BY CompositionClosed, Sizes DEF IndInv
  <2>3. Cardinality(Composition \ {Root}) = Cardinality(Composition) - 1
    BY <2>2, FS_RemoveElement
  <2>4. QED
    BY <2>1, <2>3 DEF IndInv, JobInv
<1>11. QED
  BY <1>9, <1>10 DEF IndInv, ClosureInv

(* The inductive invariant implies the checked one.                        *)
LEMMA IndInvImpliesJobsExact == ASSUME IndInv PROVE JobsExact
<1> DEFINE busy == Active \cup Threw
           jobs == JobsOf(busy)
<1>1. Active \in SUBSET Workers /\ Threw \in SUBSET Workers /\ queue \in SUBSET Projects
  BY DEF Active, Threw, IndInv, PoolType
<1>2. jobs \in SUBSET Projects /\ jobs \cap queue = {}
  BY DEF IndInv, PoolType, JobInv, JobsOf
<1>3. Cardinality(jobs) = Cardinality(Active) + Cardinality(Threw)
  <2>1. IsFiniteSet(busy) /\ IsFiniteSet(Active) /\ IsFiniteSet(Threw)
        /\ Cardinality(Active) \in Nat /\ Cardinality(Threw) \in Nat
    BY <1>1, Sizes
  <2>2. Active \cap Threw = {}
    BY DEF Active, Threw
  <2>3. Cardinality(Active \cap Threw) = 0
    BY <2>2, FS_EmptySet
  <2>4. Cardinality(busy) = Cardinality(Active) + Cardinality(Threw) - Cardinality(Active \cap Threw)
    BY <2>1, FS_Union
  <2>5. Cardinality(jobs) = Cardinality(busy)
    <3> DEFINE job == [w \in busy |-> worker[w].project]
    <3> HIDE DEF busy
    <3>1. job \in [busy -> jobs] /\ jobs = {job[w] : w \in busy}
      BY DEF JobsOf
    <3>2. \A v, w \in busy : job[v] = job[w] => v = w
      BY DEF IndInv, JobInv, busy
    <3> HIDE DEF job, jobs
    <3>3. QED
      BY <2>1, <3>1, <3>2, ImageSize
  <2> HIDE DEF busy, jobs
  <2>6. QED
    BY <2>1, <2>3, <2>4, <2>5
<1>4. outstanding \in 0..NumProjects
  <2>1. Cardinality(queue \cup jobs) = Cardinality(queue) + Cardinality(jobs)
    BY <1>1, <1>2, SizeOfUnion
  <2>2. /\ Cardinality(queue \cup jobs) <= NumProjects
        /\ Cardinality(queue) \in Nat
    BY <1>1, <1>2, FiniteSets, FS_Subset, Sizes
  <2> HIDE DEF jobs
  <2>3. /\ outstanding = Cardinality(queue) + Cardinality(Active) + Cardinality(Threw)
        /\ outstanding \in Nat /\ Cardinality(Active) \in Nat /\ Cardinality(Threw) \in Nat
    BY <1>1, Sizes DEF IndInv, JobInv, PoolType
  <2>4. QED
    BY <1>3, <2>1, <2>2, <2>3, ProjectCompositionAssumption
<1>5. files_loaded \in 0..NumProjects
  <2>1. Finished \in SUBSET Projects
    BY DEF Finished, IndInv, PoolType
  <2>2. /\ Cardinality(Finished) <= NumProjects /\ files_loaded = Cardinality(Finished)
        /\ files_loaded \in Nat
    BY <2>1, FiniteSets, FS_Subset DEF IndInv, JobInv, PoolType
  <2>3. QED
    BY <2>2, ProjectCompositionAssumption
<1>6. Cardinality({stack[i].project : i \in DOMAIN stack}) = Len(stack)
  <2> DEFINE T == {stack[i].project : i \in DOMAIN stack}
             f == [i \in DOMAIN stack |-> stack[i].project]
  <2>1. DOMAIN stack = 1..Len(stack) /\ Len(stack) \in Nat
    BY LenProperties DEF IndInv, PoolType
  <2>2. IsFiniteSet(DOMAIN stack) /\ Cardinality(DOMAIN stack) = Len(stack)
    <3>1. ASSUME NEW n \in Nat PROVE IsFiniteSet(1..n) /\ Cardinality(1..n) = n
      <4>1. /\ IsFiniteSet(1..n)
            /\ Cardinality(1..n) = IF 1 > n THEN 0 ELSE n - 1 + 1
        BY FS_Interval
      <4>2. QED
        BY <4>1
    <3>2. QED
      BY <2>1, <3>1
  <2>3. f \in [DOMAIN stack -> T] /\ T = {f[i] : i \in DOMAIN stack}
    OBVIOUS
  <2>4. \A i, j \in DOMAIN stack : f[i] = f[j] => i = j
    BY DEF IndInv, StackInv
  <2> HIDE DEF f, T
  <2>5. Cardinality(T) = Cardinality(DOMAIN stack)
    BY <2>2, <2>3, <2>4, ImageSize
  <2>6. QED
    BY <2>2, <2>5 DEF T
<1>7. TypeOK
  BY <1>4, <1>5, <1>6 DEF TypeOK, IndInv, PoolType, MutexInv, StackInv
<1>8. OutstandingExact
  BY DEF OutstandingExact, IndInv, JobInv, ClosureInv, Active, Threw, JobsOf
<1>9. EachLoadedOnce
  BY VisitLoaded DEF EachLoadedOnce
<1>10. QED
  BY <1>7, <1>8, <1>9 DEF JobsExact

(* The pool of resolve_project_composition: whatever the number of         *)
(* Projects and threads, whatever fails and throws, outstanding counts     *)
(* exactly the jobs that are queued, active or lost, no Project with a     *)
(* node escapes them, and when the threads are joined without a failure    *)
(* every configuration of the composition was loaded, once.                *)
THEOREM JobsAlwaysExact == Spec => []JobsExact
<1>1. IndInv => JobsExact
  BY IndInvImpliesJobsExact
<1>2. QED
  BY <1>1, Inductive, PTL

-----------------------------------------------------------------------------
(* What OutcomeExact says of the files.                                    *)
Cyclic == ~Acyclic(Composition)
Broken == Composition \cap unreadable # {}

(* The outcome, in these words.                                            *)
LEMMA OutcomeInWords ==
  /\ OutcomeExact <=>
       /\ result = "ok" => ~Cyclic /\ ~Broken
       /\ result = "cycle" => Cyclic /\ ~Broken
       /\ result = "load_failed" => Broken
       /\ result # "composition_failed"
  /\ OutcomeExact' <=>
       /\ result' = "ok" => ~Cyclic' /\ ~Broken'
       /\ result' = "cycle" => Cyclic' /\ ~Broken'
       /\ result' = "load_failed" => Broken'
       /\ result' # "composition_failed"
BY DEF OutcomeExact, Cyclic, Broken, Acyclic

(* They depend on the inputs only.                                         *)
LEMMA WordsKept ==
  ASSUME UNCHANGED inputs
  PROVE  /\ Cyclic' = Cyclic /\ Broken' = Broken
         /\ \A projects : Acyclic(projects)' <=> Acyclic(projects)
BY InputsKept DEF Cyclic, Broken, Acyclic

(* The search before the first step.                                       *)
LEMMA InitSearch == Init => SearchInv /\ OutcomeExact
<1> SUFFICES ASSUME Init PROVE SearchInv /\ OutcomeExact
  OBVIOUS
<1>1. Done = {}
  BY DEF Init, InitPool, Done
<1>2. Acyclic(Done)
  BY <1>1 DEF Acyclic
<1>3. QED
  BY <1>1, <1>2 DEF Init, InitPool, SearchInv, OutcomeExact

(* A step of the threads, or one that starts them, is no step of it.       *)
LEMMA SearchKept ==
  ASSUME SearchInv, OutcomeExact, UNCHANGED <<inputs, stack, visit, result>>,
         phase' = "returned" <=> phase = "returned",
         phase' = "visit" => phase = "visit" /\ UNCHANGED loaded
  PROVE  SearchInv' /\ OutcomeExact'
<1>1. Done' = Done /\ config' = config
  BY DEF Done, inputs
<1>2. Acyclic(Done)' <=> Acyclic(Done)
  BY <1>1 DEF Acyclic
<1>3. SearchInv'
  BY <1>1, <1>2 DEF SearchInv
<1>4. OutcomeExact'
  BY WordsKept, OutcomeInWords
<1>5. QED
  BY <1>3, <1>4

(* A return ends it where it is.                                           *)
LEMMA SearchReturn ==
  ASSUME SearchInv, UNCHANGED <<inputs, stack, visit>>,
         phase' = "returned", result' # "none"
  PROVE  SearchInv'
<1>1. Done' = Done /\ config' = config
  BY DEF Done, inputs
<1>2. Acyclic(Done)' <=> Acyclic(Done)
  BY <1>1 DEF Acyclic
<1>3. QED
  BY <1>1, <1>2 DEF SearchInv

(* A root without references is the whole composition.                     *)
LEMMA PublishRootOnlySearch ==
  ASSUME IndInv, SearchInv, PublishRootOnly
  PROVE  SearchInv' /\ OutcomeExact'
<1>1. /\ References(config[Root]) = {} /\ result' = "ok" /\ phase' = "returned"
      /\ UNCHANGED <<inputs, stack, visit>>
  BY DEF PublishRootOnly, Return
<1>2. Composition = {Root}
  <2>1. {Root} \in SUBSET Projects
    BY FiniteSets
  <2>2. QED
    BY <1>1, <2>1, CompositionClosed DEF IndInv
<1>3. ~Cyclic /\ ~Broken
  BY <1>1, <1>2 DEF Cyclic, Acyclic, Broken, IndInv, PoolType
<1>4. OutcomeExact'
  BY <1>1, <1>3, WordsKept, OutcomeInWords
<1>5. QED
  BY <1>1, <1>4, SearchReturn

(* The join reports an unreadable Project of the composition, or begins    *)
(* the search at the root.                                                 *)
LEMMA JoinSearch ==
  ASSUME IndInv, SearchInv, OutcomeExact, Join
  PROVE  SearchInv' /\ OutcomeExact'
<1>1. phase \in {"join", "abandon"} /\ UNCHANGED <<inputs, pool>>
  BY DEF Join
<1>2. CASE phase' = "returned" /\ result' = "initialization_failed" /\ UNCHANGED <<stack, visit>>
  BY <1>1, <1>2, SearchReturn, OutcomeInWords
<1>3. CASE /\ phase' = "returned" /\ result' = "load_failed" /\ first_failure
           /\ UNCHANGED <<stack, visit>>
  <2>1. Broken
    BY <1>3 DEF Broken, IndInv, ClosureInv
  <2>2. QED
    BY <1>1, <1>3, <2>1, SearchReturn, OutcomeInWords, WordsKept
<1>4. CASE /\ phase' = "visit" /\ UNCHANGED result
           /\ stack' = <<[project |-> Root, next |-> 1]>>
           /\ visit' = [visit EXCEPT ![Root] = "visiting"]
  <2>1. /\ stack' # <<>> /\ Len(stack') = 1 /\ DOMAIN stack' = {1}
        /\ stack'[1].project = Root /\ stack'[1].next = 1
    BY <1>4
  <2>2. \A p \in Projects : visit'[p] = IF p = Root THEN "visiting" ELSE "unseen"
    BY <1>1, <1>4 DEF IndInv, StackInv, PoolType
  <2>3. Done' = {} /\ Acyclic(Done)'
    BY <2>2 DEF Done, Acyclic
  <2>4. Root \in loaded'
    BY <1>1 DEF IndInv, JobInv, pool
  <2>5. result = "none" /\ result' = "none"
    BY <1>1, <1>4 DEF SearchInv
  <2>6. SearchInv'
    BY <1>4, <2>1, <2>2, <2>3, <2>4, <2>5 DEF SearchInv
  <2>7. QED
    BY <2>5, <2>6, OutcomeInWords
<1>5. QED
  BY <1>1, <1>2, <1>3, <1>4 DEF Join, Return

-----------------------------------------------------------------------------
(* The item at hand is one of the uppermost Project.                       *)
LEMMA ItemAtHand ==
  ASSUME IndInv, NEW item, AtItem(item)
  PROVE  /\ stack[Top].next \in Nat \ {0}
         /\ stack[Top].project \in Projects
         /\ item = config[stack[Top].project][stack[Top].next]
         /\ item \in Projects => item \in References(config[stack[Top].project])
<1>1. Top \in DOMAIN stack
  BY AdvancedFacts
<1>2. stack[Top].next \in Nat \ {0} /\ stack[Top].project \in Projects
  BY <1>1, FramesTyped
<1>3. /\ item = config[stack[Top].project][stack[Top].next]
      /\ stack[Top].next \in DOMAIN config[stack[Top].project]
  BY DEF AtItem, ItemsOfFrame, Frame
<1>4. item \in Projects => item # Source
  BY DEF Projects, Source
<1>5. QED
  BY <1>2, <1>3, <1>4 DEF References

(* What the search knows of the items behind it, one item later.           *)
LEMMA ItemsBehind ==
  ASSUME IndInv, SearchInv, NEW item, AtItem(item),
         NEW i \in DOMAIN stack, NEW k \in 1..(Advanced[i].next - 1)
  PROVE  \/ i = Top /\ k = stack[Top].next /\ config[stack[i].project][k] = item
         \/ config[stack[i].project][k] = Source
         \/ config[stack[i].project][k] \in Done
         \/ i < Len(stack) /\ config[stack[i].project][k] = stack[i + 1].project
<1>1. Advanced[i].next = IF i = Top THEN stack[i].next + 1 ELSE stack[i].next
  BY AdvancedFacts
<1>2. stack[i].next \in Nat \ {0}
  BY FramesTyped
<1>3. CASE i = Top /\ k = stack[Top].next
  BY <1>3, ItemAtHand
<1>4. CASE k \in 1..(stack[i].next - 1)
  BY <1>4 DEF SearchInv, AtItem
<1>5. QED
  BY <1>1, <1>2, <1>3, <1>4

(* The search passes a Source item or a Project that is done.              *)
LEMMA AdvanceSearch ==
  ASSUME IndInv, SearchInv, OutcomeExact, NEW item, AtItem(item),
         item = Source \/ item \in Done,
         stack' = Advanced, UNCHANGED <<inputs, pool, phase, visit, result>>
  PROVE  SearchInv' /\ OutcomeExact'
<1>1. phase = "visit" /\ phase' = "visit" /\ config' = config /\ loaded' = loaded
  BY DEF AtItem, inputs, pool
<1>2. Done' = Done /\ (Acyclic(Done)' <=> Acyclic(Done))
  BY <1>1 DEF Done, Acyclic
<1>3. /\ Top \in DOMAIN stack /\ DOMAIN stack = 1..Len(stack) /\ Len(stack) \in Nat
      /\ DOMAIN stack' = DOMAIN stack /\ Len(stack') = Len(stack)
      /\ \A i \in DOMAIN stack : stack'[i].project = stack[i].project
  BY AdvancedFacts
<1>4. stack' # <<>> /\ 1 \in DOMAIN stack
  BY <1>3, EmptySeq
<1>5. \A i \in DOMAIN stack' : \A k \in 1..(stack'[i].next - 1) :
        \/ config'[stack'[i].project][k] = Source
        \/ config'[stack'[i].project][k] \in Done'
        \/ i < Len(stack') /\ config'[stack'[i].project][k] = stack'[i + 1].project
  <2> SUFFICES ASSUME NEW i \in DOMAIN stack, NEW k \in 1..(Advanced[i].next - 1)
               PROVE  \/ config[stack[i].project][k] = Source
                      \/ config[stack[i].project][k] \in Done
                      \/ i < Len(stack) /\ config[stack[i].project][k] = stack[i + 1].project
    BY <1>1, <1>2, <1>3
  <2>1. QED
    BY ItemsBehind
<1>6. \A i \in DOMAIN stack' : i < Len(stack') =>
        stack'[i + 1].project \in References(config'[stack'[i].project])
  BY <1>1, <1>3 DEF SearchInv
<1>7. SearchInv'
  BY <1>1, <1>2, <1>3, <1>4, <1>5, <1>6 DEF SearchInv
<1>8. OutcomeExact'
  BY WordsKept, OutcomeInWords
<1>9. QED
  BY <1>7, <1>8

(* The search enters a Project it has not seen.                            *)
LEMMA EnterSearch ==
  ASSUME IndInv, SearchInv, OutcomeExact, NEW p \in Projects, AtItem(p),
         Enters(p), p \in loaded,
         stack' = Append(Advanced, [project |-> p, next |-> 1]),
         visit' = [visit EXCEPT ![p] = "visiting"],
         UNCHANGED <<phase, result>>,
         UNCHANGED <<inputs, pool, internal_failure, mutex, worker>>
  PROVE  SearchInv' /\ OutcomeExact'
<1> DEFINE n == Len(stack)
<1>1. phase = "visit" /\ phase' = "visit" /\ config' = config /\ loaded' = loaded
  BY DEF AtItem, inputs, pool
<1>2. /\ visit[p] = "unseen" /\ visit'[p] = "visiting"
      /\ \A q \in Projects : q # p => visit'[q] = visit[q]
  BY DEF IndInv, PoolType, Enters
<1>3. Done' = Done /\ (Acyclic(Done)' <=> Acyclic(Done))
  <2>1. Done' = Done
    BY <1>2 DEF Done
  <2>2. QED
    BY <1>1, <2>1 DEF Acyclic
<1>4. /\ Top = n /\ n \in DOMAIN stack /\ DOMAIN stack = 1..n /\ n \in Nat
      /\ \A i \in DOMAIN stack : Advanced[i].project = stack[i].project
  BY AdvancedFacts DEF Top
<1>5. /\ stack' \in Seq(FrameType) /\ Len(stack') = n + 1
      /\ stack'[n + 1].project = p /\ stack'[n + 1].next = 1
      /\ \A i \in DOMAIN stack : stack'[i] = Advanced[i]
  <2>1. /\ IndInv' /\ Len(stack') = n + 1
        /\ stack'[n + 1] = [project |-> p, next |-> 1]
        /\ \A i \in DOMAIN stack : stack'[i] = Advanced[i]
    BY EnterIndInv
  <2>2. stack' \in Seq(FrameType)
    BY <2>1 DEF IndInv, PoolType
  <2>3. QED
    BY <2>1, <2>2
<1> HIDE DEF n
<1>6. /\ DOMAIN stack' = 1..(n + 1)
      /\ \A i \in DOMAIN stack' : i \in DOMAIN stack \/ i = n + 1
      /\ \A i \in DOMAIN stack : i \in DOMAIN stack' /\ stack'[i].project = stack[i].project
  BY <1>4, <1>5, LenProperties
<1>7. stack' # <<>> /\ stack'[1].project = Root
  BY <1>1, <1>4, <1>5, <1>6, EmptySeq DEF SearchInv
<1>8. \A i \in DOMAIN stack' : stack'[i].project \in loaded'
  BY <1>1, <1>5, <1>6 DEF SearchInv
<1>9. \A q \in Projects : visit'[q] = "visiting" =>
        \E i \in DOMAIN stack' : stack'[i].project = q
  <2> SUFFICES ASSUME NEW q \in Projects, visit'[q] = "visiting"
               PROVE  \E i \in DOMAIN stack' : stack'[i].project = q
    OBVIOUS
  <2>1. CASE q = p
    <3>1. n + 1 \in DOMAIN stack'
      BY <1>4, <1>6
    <3>2. QED
      BY <1>5, <2>1, <3>1
  <2>2. CASE q # p
    BY <1>1, <1>2, <1>6, <2>2 DEF SearchInv
  <2>3. QED
    BY <2>1, <2>2
<1>10. \A i \in DOMAIN stack' : i < Len(stack') =>
         stack'[i + 1].project \in References(config'[stack'[i].project])
  <2> SUFFICES ASSUME NEW i \in DOMAIN stack', i < n + 1
               PROVE  stack'[i + 1].project \in References(config[stack'[i].project])
    BY <1>1, <1>5
  <2>1. i \in DOMAIN stack
    BY <1>4, <1>6
  <2>2. CASE i = n
    <3>1. p \in References(config[stack[n].project])
      BY <1>4, ItemAtHand
    <3>2. QED
      BY <1>5, <1>6, <2>1, <2>2, <3>1
  <2>3. CASE i # n
    <3>1. i + 1 \in DOMAIN stack /\ i < n
      BY <1>4, <2>1, <2>3
    <3>2. stack[i + 1].project \in References(config[stack[i].project])
      BY <1>1, <2>1, <3>1 DEF SearchInv, n
    <3>3. QED
      BY <1>6, <2>1, <3>1, <3>2
  <2>4. QED
    BY <2>2, <2>3
<1>11. \A i \in DOMAIN stack' : \A k \in 1..(stack'[i].next - 1) :
         \/ config'[stack'[i].project][k] = Source
         \/ config'[stack'[i].project][k] \in Done'
         \/ i < Len(stack') /\ config'[stack'[i].project][k] = stack'[i + 1].project
  <2> SUFFICES ASSUME NEW i \in DOMAIN stack', NEW k \in 1..(stack'[i].next - 1)
               PROVE  \/ config[stack'[i].project][k] = Source
                      \/ config[stack'[i].project][k] \in Done
                      \/ i < n + 1 /\ config[stack'[i].project][k] = stack'[i + 1].project
    BY <1>1, <1>3, <1>5
  <2>1. i # n + 1
    BY <1>5
  <2>2. i \in DOMAIN stack /\ stack'[i] = Advanced[i] /\ stack'[i].project = stack[i].project
    BY <1>5, <1>6, <2>1
  <2>3. \/ i = Top /\ config[stack[i].project][k] = p
        \/ config[stack[i].project][k] = Source
        \/ config[stack[i].project][k] \in Done
        \/ i < Len(stack) /\ config[stack[i].project][k] = stack[i + 1].project
    BY <2>2, ItemsBehind
  <2>4. CASE i = Top /\ config[stack[i].project][k] = p
    BY <1>4, <1>5, <2>2, <2>4
  <2>5. CASE i < Len(stack) /\ config[stack[i].project][k] = stack[i + 1].project
    <3>1. i + 1 \in DOMAIN stack /\ i < n + 1
      BY <1>4, <2>2, <2>5 DEF n
    <3>2. QED
      BY <1>6, <2>2, <2>5, <3>1
  <2>6. QED
    BY <2>2, <2>3, <2>4, <2>5
<1>12. SearchInv'
  BY <1>1, <1>3, <1>7, <1>8, <1>9, <1>10, <1>11 DEF SearchInv
<1>13. OutcomeExact'
  BY WordsKept, OutcomeInWords
<1>14. QED
  BY <1>12, <1>13

(* A Project is done: what it refers to is, so it closes no cycle; with    *)
(* the root the whole composition is done.                                 *)
LEMMA FinishSearch ==
  ASSUME IndInv, SearchInv, OutcomeExact, FinishFrame
  PROVE  SearchInv' /\ OutcomeExact'
<1> DEFINE n == Len(stack)
           p == stack[n].project
<1>1. /\ phase = "visit" /\ config' = config /\ unreadable' = unreadable
      /\ loaded' = loaded /\ UNCHANGED inputs
      /\ visit' = [visit EXCEPT ![p] = "done"]
      /\ stack[n].next = Len(config[p]) + 1
      /\ IF n = 1 THEN phase' = "returned" /\ result' = "ok" ELSE UNCHANGED <<phase, result>>
  BY DEF FinishFrame, Return, inputs, pool, Top, Frame, ItemsOfFrame
<1>2. /\ n \in DOMAIN stack /\ DOMAIN stack = 1..n /\ n \in Nat /\ p \in Projects
      /\ Len(stack') = n - 1 /\ DOMAIN stack' = 1..(n - 1)
      /\ \A i \in DOMAIN stack' : stack'[i] = stack[i] /\ i \in DOMAIN stack /\ i < n
  <2>1. /\ Top \in DOMAIN stack /\ DOMAIN stack = 1..n /\ n \in Nat
        /\ Frame.project \in Projects
        /\ Len(stack') = n - 1 /\ DOMAIN stack' = 1..(n - 1)
        /\ \A i \in DOMAIN stack' : stack'[i] = stack[i]
    BY FinishFrameIndInv
  <2>2. \A i \in 1..(n - 1) : i \in 1..n /\ i < n
    BY <2>1
  <2>3. n \in DOMAIN stack /\ p \in Projects
    BY <2>1 DEF Top, Frame
  <2>4. QED
    BY <2>1, <2>2, <2>3
<1>3. visit[p] = "visiting" /\ p \notin Done
  BY <1>2 DEF IndInv, StackInv, Done
<1>4. Done' = Done \cup {p}
  BY <1>1, <1>2 DEF Done, IndInv, PoolType
<1>5. References(config[p]) \subseteq Done
  <2> SUFFICES ASSUME NEW k \in DOMAIN config[p], config[p][k] # Source
               PROVE  config[p][k] \in Done
    BY DEF References
  <2>1. config[p] \in Seq(0..NumProjects)
    BY <1>2 DEF IndInv, PoolType
  <2>2. k \in 1..(stack[n].next - 1)
    BY <1>1, <2>1, LenProperties
  <2>3. \/ config[p][k] = Source \/ config[p][k] \in Done
        \/ n < Len(stack) /\ config[p][k] = stack[n + 1].project
    BY <1>1, <1>2, <2>2 DEF SearchInv
  <2>4. QED
    BY <1>2, <2>3
<1>6. \A q \in Done' : References(config[q]) \subseteq Done
  BY <1>4, <1>5 DEF SearchInv
<1>7. Acyclic(Done')
  <2> SUFFICES ASSUME NEW some \in SUBSET (Done \cup {p}), some # {}
               PROVE  \E q \in some : References(config[q]) \cap some = {}
    BY <1>4 DEF Acyclic
  <2>1. CASE some \ {p} = {}
    BY <1>3, <1>5, <2>1
  <2>2. CASE some \ {p} # {}
    <3>1. PICK q \in some \ {p} : References(config[q]) \cap (some \ {p}) = {}
      BY <2>2 DEF SearchInv, Acyclic
    <3>2. References(config[q]) \subseteq Done
      BY <1>4, <1>6, <3>1
    <3>3. QED
      BY <1>3, <3>1, <3>2
  <2>3. QED
    BY <2>1, <2>2
<1>8. Acyclic(Done)'
  BY <1>1, <1>7 DEF Acyclic
<1>9. SearchInv'
  <2>1. /\ \A q \in Done' : References(config'[q]) \subseteq Done'
        /\ result' = "none" <=> phase' # "returned"
    BY <1>1, <1>4, <1>6 DEF SearchInv
  <2>2. ASSUME phase' = "visit"
        PROVE  /\ stack' # <<>> /\ stack'[1].project = Root
               /\ \A i \in DOMAIN stack' : stack'[i].project \in loaded'
               /\ \A q \in Projects : visit'[q] = "visiting" =>
                    \E i \in DOMAIN stack' : stack'[i].project = q
               /\ \A i \in DOMAIN stack' : i < Len(stack') =>
                    stack'[i + 1].project \in References(config'[stack'[i].project])
               /\ \A i \in DOMAIN stack' : \A k \in 1..(stack'[i].next - 1) :
                    \/ config'[stack'[i].project][k] = Source
                    \/ config'[stack'[i].project][k] \in Done'
                    \/ /\ i < Len(stack')
                       /\ config'[stack'[i].project][k] = stack'[i + 1].project
    <3>1. n # 1 /\ 1 \in DOMAIN stack'
      BY <1>1, <1>2, <2>2
    <3>2. stack' # <<>> /\ stack'[1].project = Root
      BY <1>1, <1>2, <3>1, EmptySeq DEF SearchInv
    <3>3. \A i \in DOMAIN stack' : stack'[i].project \in loaded'
      BY <1>1, <1>2 DEF SearchInv
    <3>4. ASSUME NEW q \in Projects, visit'[q] = "visiting"
          PROVE  \E i \in DOMAIN stack' : stack'[i].project = q
      <4>1. q # p /\ visit[q] = "visiting"
        BY <1>1, <1>2, <3>4 DEF IndInv, PoolType
      <4>2. PICK i \in DOMAIN stack : stack[i].project = q
        BY <1>1, <4>1 DEF SearchInv
      <4>3. i # n
        BY <4>1, <4>2
      <4>4. i \in DOMAIN stack'
        BY <1>2, <4>3
      <4>5. QED
        BY <1>2, <4>2, <4>4
    <3>5. ASSUME NEW i \in DOMAIN stack', i < Len(stack')
          PROVE  stack'[i + 1].project \in References(config'[stack'[i].project])
      <4>1. i + 1 \in DOMAIN stack' /\ i < Len(stack)
        BY <1>2, <3>5
      <4>2. QED
        BY <1>1, <1>2, <4>1 DEF SearchInv
    <3>6. ASSUME NEW i \in DOMAIN stack', NEW k \in 1..(stack'[i].next - 1)
          PROVE  \/ config'[stack'[i].project][k] = Source
                 \/ config'[stack'[i].project][k] \in Done'
                 \/ /\ i < Len(stack')
                    /\ config'[stack'[i].project][k] = stack'[i + 1].project
      <4>1. stack'[i] = stack[i] /\ i \in DOMAIN stack /\ i < n
        BY <1>2
      <4>2. \/ config[stack[i].project][k] = Source
            \/ config[stack[i].project][k] \in Done
            \/ config[stack[i].project][k] = stack[i + 1].project
        BY <1>1, <4>1 DEF SearchInv
      <4>3. CASE i + 1 = n
        BY <1>1, <1>4, <4>1, <4>2, <4>3
      <4>4. CASE i + 1 # n
        <5>1. i + 1 \in DOMAIN stack' /\ i < Len(stack')
          BY <1>2, <4>1, <4>4
        <5>2. stack'[i + 1] = stack[i + 1]
          BY <1>2, <5>1
        <5>3. QED
          BY <1>1, <1>4, <4>1, <4>2, <5>1, <5>2
      <4>5. QED
        BY <4>3, <4>4
    <3>7. QED
      BY <3>2, <3>3, <3>4, <3>5, <3>6
  <2>3. QED
    BY <1>8, <2>1, <2>2 DEF SearchInv
<1>10. OutcomeExact'
  <2>1. CASE n = 1
    <3>1. p = Root
      BY <1>1, <2>1 DEF SearchInv
    <3>2. Composition \subseteq Done'
      <4>1. Done' \in SUBSET Projects /\ Root \in Done'
        BY <1>2, <1>4, <3>1 DEF Done
      <4>2. \A q \in Done' \ unreadable : References(config[q]) \subseteq Done'
        BY <1>4, <1>6
      <4>3. QED
        BY <4>1, <4>2, CompositionClosed DEF IndInv
    <3>3. ~Cyclic
      BY <1>7, <3>2 DEF Cyclic, Acyclic
    <3>4. ~Broken
      BY <1>1, VisitLoaded DEF Broken
    <3>5. QED
      BY <1>1, <2>1, <3>3, <3>4, WordsKept, OutcomeInWords
  <2>2. CASE n # 1
    BY <1>1, <2>2, WordsKept, OutcomeInWords
  <2>3. QED
    BY <2>1, <2>2
<1>11. QED
  BY <1>9, <1>10

(* A reference to a Project on the stack: from there on the stack is a     *)
(* cycle of references.                                                    *)
LEMMA CycleFound ==
  ASSUME IndInv, SearchInv, NEW p \in Projects, AtItem(p), Cycle(p)
  PROVE  Cyclic /\ ~Broken
<1>1. phase = "visit"
  BY DEF AtItem
<1>2. PICK j \in DOMAIN stack : stack[j].project = p
  BY <1>1 DEF Cycle, SearchInv
<1>3. /\ Top \in DOMAIN stack /\ DOMAIN stack = 1..Len(stack) /\ Len(stack) \in Nat
      /\ Top = Len(stack)
  BY AdvancedFacts DEF Top
<1> DEFINE part == {i \in DOMAIN stack : i >= j}
           cycle == {stack[i].project : i \in part}
<1>4. p \in cycle /\ cycle \subseteq Composition
  BY <1>1, <1>2, <1>3, VisitLoaded DEF SearchInv
<1>5. ASSUME NEW i \in part PROVE References(config[stack[i].project]) \cap cycle # {}
  <2>1. CASE i = Top
    BY <1>4, <2>1, ItemAtHand
  <2>2. CASE i # Top
    <3>1. i + 1 \in part /\ i < Len(stack)
      BY <1>2, <1>3, <2>2
    <3>2. stack[i + 1].project \in References(config[stack[i].project])
      BY <1>1, <3>1 DEF SearchInv
    <3>3. QED
      BY <3>1, <3>2
  <2>3. QED
    BY <2>1, <2>2
<1>6. \A q \in cycle : References(config[q]) \cap cycle # {}
  BY <1>5
<1> HIDE DEF cycle
<1>7. Cyclic
  BY <1>4, <1>6 DEF Cyclic, Acyclic
<1>8. ~Broken
  BY <1>1, VisitLoaded DEF Broken
<1>9. QED
  BY <1>7, <1>8

(* A reference is followed: no Project of the composition is not loaded.   *)
LEMMA VisitProjectSearch ==
  ASSUME IndInv, SearchInv, OutcomeExact, NEW p \in Projects, VisitProject(p)
  PROVE  SearchInv' /\ OutcomeExact'
<1>1. /\ AtItem(p) /\ phase = "visit"
      /\ UNCHANGED <<inputs, pool, internal_failure, mutex, worker>>
  BY DEF VisitProject, AtItem
<1>2. p \in loaded
  <2>1. /\ p \in References(config[stack[Top].project]) /\ Top \in DOMAIN stack
    BY <1>1, ItemAtHand, AdvancedFacts
  <2>2. stack[Top].project \in Composition \ unreadable
    BY <1>1, <2>1, VisitLoaded DEF SearchInv
  <2>3. QED
    BY <1>1, <2>1, <2>2, CompositionClosed, VisitLoaded DEF IndInv
<1>3. CASE Cycle(p) /\ phase' = "returned" /\ result' = "cycle" /\ UNCHANGED <<stack, visit>>
  BY <1>1, <1>3, CycleFound, SearchReturn, WordsKept, OutcomeInWords
<1>4. CASE /\ Enters(p) /\ visit' = [visit EXCEPT ![p] = "visiting"]
           /\ stack' = Append(Advanced, [project |-> p, next |-> 1])
           /\ UNCHANGED <<phase, result>>
  BY <1>1, <1>2, <1>4, EnterSearch
<1>5. CASE /\ ~Cycle(p) /\ ~Enters(p) /\ stack' = Advanced
           /\ UNCHANGED <<visit, phase, result>>
  <2>1. p \in Done
    BY <1>5 DEF IndInv, PoolType, Cycle, Enters, Done
  <2>2. QED
    BY <1>1, <1>5, <2>1, AdvanceSearch
<1>6. QED
  BY <1>2, <1>3, <1>4, <1>5 DEF VisitProject, Return

-----------------------------------------------------------------------------
(* Every step preserves the invariant of the search and the outcome.       *)
LEMMA NextSearch ==
  IndInv /\ SearchInv /\ OutcomeExact /\ [Next]_vars => SearchInv' /\ OutcomeExact'
<1> SUFFICES ASSUME IndInv, SearchInv, OutcomeExact, [Next]_vars
             PROVE  SearchInv' /\ OutcomeExact'
  OBVIOUS
<1>1. CASE PublishRootOnly
  BY <1>1, PublishRootOnlySearch
<1>2. CASE ScheduleRoot \/ StartWorkers
  <2>1. /\ phase \notin {"visit", "returned"} /\ phase' \notin {"visit", "returned"}
        /\ UNCHANGED <<inputs, stack, visit, result>>
    BY <1>2 DEF ScheduleRoot, StartWorkers, traversal
  <2>2. QED
    BY <2>1, SearchKept
<1>3. CASE Join
  BY <1>3, JoinSearch
<1>4. CASE CoordinatorThrows \/ RootRefused
  <2>1. /\ phase' = "returned" /\ result' \in {"initialization_failed", "refused"}
        /\ UNCHANGED <<inputs, stack, visit>>
    BY <1>4 DEF CoordinatorThrows, RootRefused, Return, traversal
  <2>2. QED
    BY <2>1, SearchReturn, OutcomeInWords
<1>5. CASE FinishFrame
  BY <1>5, FinishSearch
<1>6. CASE AddRoot
  BY <1>6, AdvanceSearch DEF AddRoot
<1>7. ASSUME NEW p \in Projects, VisitProject(p) PROVE SearchInv' /\ OutcomeExact'
  BY <1>7, VisitProjectSearch
<1>8. ASSUME NEW w \in Workers, Worker(w) PROVE SearchInv' /\ OutcomeExact'
  <2>1. worker[w].pc \notin {"off", "exited", "threw"}
    BY <1>8 DEF Worker, Look, Block, Complete, ThrowScheduling, StoreFailure
  <2>2. phase \in {"join", "abandon"}
    BY <2>1, WorkersRun
  <2>3. UNCHANGED <<inputs, phase, stack, visit, result>>
    BY <1>8 DEF Worker, Look, Block, Complete, ThrowScheduling, StoreFailure, traversal
  <2>4. QED
    BY <2>2, <2>3, SearchKept
<1>9. CASE UNCHANGED vars
  BY <1>9, SearchKept DEF vars, pool, traversal
<1>10. QED
  BY <1>1, <1>2, <1>3, <1>4, <1>5, <1>6, <1>7, <1>8, <1>9 DEF Next, Coordinator

(* The status resolve_project_composition returns: it succeeds only on a   *)
(* composition without a cycle in which every file can be read, reports a  *)
(* cycle only where there is one, reports a load failure only when a file  *)
(* of the composition cannot be read, and never meets a reference that no  *)
(* worker loaded.                                                          *)
THEOREM OutcomeAlwaysExact == Spec => []OutcomeExact
<1>1. QED
  BY Inductive, InitSearch, NextSearch, PTL DEF Spec
=============================================================================
