------------------------- MODULE ProjectComposition -------------------------
(***************************************************************************)
(* Composition of nested Projects: resolve_project_composition             *)
(* (project_composition_resolver.cpp).                                     *)
(*                                                                         *)
(* A pool of worker threads loads the configuration of every Project that  *)
(* the root Project refers to, directly or not, each one once.  When they  *)
(* are joined the coordinator walks the references depth first, refuses a  *)
(* cycle and publishes the Source items it meets.                          *)
(*                                                                         *)
(* The mutex is explicit where it matters: a worker that found the wait    *)
(* predicate false holds it until it sleeps, and the handler of an         *)
(* exception stores its flag and notifies without it.                      *)
(***************************************************************************)
EXTENDS Naturals, Sequences, FiniteSets

CONSTANTS
  NumProjects,   \* configurations are 1..NumProjects, 1 is the root
  Bodies,        \* the item lists a configuration may have
  WorkerLimit,   \* measured.worker_limit
  MayFail        \* may configurations be unreadable or roots be refused?

ASSUME ProjectCompositionAssumption ==
  /\ NumProjects \in Nat \ {0}
  /\ Bodies \subseteq Seq(0..NumProjects)
  /\ WorkerLimit \in Nat \ {0}
  /\ MayFail \in BOOLEAN

Projects == 1..NumProjects
Root == 1
Workers == 1..WorkerLimit

(* An item is a reference to a Project, or Source: an item of its own.     *)
Source == 0

VARIABLES
  config,            \* the items of every configuration file
  unreadable,        \* configuration files that cannot be loaded
  scarce,            \* may memory or threads be exhausted?
  phase,             \* where the coordinator is
  cache,             \* Projects with a node
  loaded,            \* those whose configuration is in the node
  queue,             \* paths still to be loaded
  outstanding,       \* queued and active jobs
  stop,              \* no job will come any more
  first_failure,     \* a configuration could not be loaded
  internal_failure,  \* a worker left with an exception
  files_loaded,      \* statistics: configuration_files_loaded
  mutex,             \* who holds it between two steps, or 0
  worker,            \* the threads
  stack,             \* the frames of the traversal
  visit,             \* visit_state of every Project
  roots,             \* what was added to the sink: the Project of each item
  result             \* the status returned, with its diagnostic

inputs == <<config, unreadable, scarce>>
pool == <<cache, loaded, queue, outstanding, stop, first_failure, files_loaded>>
traversal == <<stack, visit, roots>>
vars == <<inputs, phase, pool, internal_failure, mutex, worker, traversal, result>>

Idle == [pc |-> "off", project |-> 0]

References(items) == {items[i] : i \in DOMAIN items} \ {Source}

(* The resolution begins with the root Project in the cache.               *)
InitPool ==
  /\ phase = "begin"
  /\ cache = {Root} /\ loaded = {Root}
  /\ queue = {} /\ outstanding = 0 /\ stop = FALSE
  /\ first_failure = FALSE /\ internal_failure = FALSE /\ files_loaded = 0
  /\ mutex = 0
  /\ worker = [w \in Workers |-> Idle]
  /\ stack = <<>> /\ visit = [p \in Projects |-> "unseen"] /\ roots = <<>>
  /\ result = "none"

Init ==
  /\ config \in [Projects -> Bodies]
  /\ unreadable \in IF MayFail THEN SUBSET (Projects \ {Root}) ELSE {{}}
  /\ scarce \in BOOLEAN
  /\ InitPool

Return(status) == phase' = "returned" /\ result' = status

-----------------------------------------------------------------------------
(* A root Project without references: its items, and no thread.            *)
PublishRootOnly ==
  /\ phase = "begin"
  /\ References(config[Root]) = {}
  /\ roots' = [i \in DOMAIN config[Root] |-> Root]
  /\ Return("ok")
  /\ UNCHANGED <<inputs, pool, internal_failure, mutex, worker, stack, visit>>

(* schedule_locked: the references nobody has scheduled yet.               *)
Fresh(items) == References(items) \ cache

(* Mutant: cache hits are counted as jobs.                                 *)
Scheduled_HitsCounted(items) == Cardinality(References(items))

(* What schedule_locked adds to outstanding.                               *)
Scheduled(items) == Cardinality(Fresh(items))

(* The root's references are scheduled.                                    *)
ScheduleRoot ==
  /\ phase = "begin"
  /\ References(config[Root]) # {}
  /\ cache' = cache \cup Fresh(config[Root])
  /\ queue' = Fresh(config[Root])
  /\ outstanding' = Scheduled(config[Root])
  /\ stop' = (outstanding' = 0)
  /\ phase' = "start"
  /\ UNCHANGED <<inputs, loaded, first_failure, files_loaded, internal_failure,
                 mutex, worker, traversal, result>>

(* The threads are created, if there is work.  When one cannot be created  *)
(* the others are joined all the same, and the resolution fails.           *)
StartWorkers ==
  \E created \in IF scarce THEN 0..WorkerLimit ELSE {WorkerLimit} :
    LET count == IF outstanding = 0 THEN 0 ELSE created IN
    /\ phase = "start"
    /\ phase' = IF outstanding # 0 /\ created < WorkerLimit
                THEN "abandon" ELSE "join"
    /\ worker' = [w \in Workers |->
                    IF w <= count THEN [Idle EXCEPT !.pc = "looking"] ELSE Idle]
    /\ UNCHANGED <<inputs, pool, internal_failure, mutex, traversal, result>>

-----------------------------------------------------------------------------
Dequeued(p) == queue \ {p}

(* Mutant: a worker looks for work only.                                   *)
MustWait_StopIgnored == ~internal_failure /\ queue = {}

(* The predicate of ready.wait is false.                                   *)
MustWait == ~internal_failure /\ ~stop /\ queue = {}

(* A worker has the lock and evaluates the wait predicate: it leaves,      *)
(* takes a path, or is about to sleep with the lock in hand.               *)
Look(w) ==
  /\ worker[w].pc = "looking"
  /\ mutex = 0
  /\ \/ /\ internal_failure \/ (stop /\ queue = {})
        /\ worker' = [worker EXCEPT ![w].pc = "exited"]
        /\ UNCHANGED <<queue, mutex>>
     \/ /\ ~internal_failure
        /\ \E p \in queue :
             /\ queue' = Dequeued(p)
             /\ worker' = [worker EXCEPT ![w] = [pc |-> "loading", project |-> p]]
        /\ UNCHANGED mutex
     \/ /\ MustWait
        /\ mutex' = w
        /\ worker' = [worker EXCEPT ![w].pc = "blocking"]
        /\ UNCHANGED queue
  /\ UNCHANGED <<inputs, phase, cache, loaded, outstanding, stop, first_failure,
                 files_loaded, internal_failure, traversal, result>>

(* It sleeps, and the lock is released.                                    *)
Block(w) ==
  /\ worker[w].pc = "blocking"
  /\ mutex' = 0
  /\ worker' = [worker EXCEPT ![w].pc = "waiting"]
  /\ UNCHANGED <<inputs, phase, pool, internal_failure, traversal, result>>

(* ready.notify_all()                                                      *)
Notified(ws) ==
  [v \in Workers |-> IF ws[v].pc = "waiting"
                     THEN [ws[v] EXCEPT !.pc = "looking"] ELSE ws[v]]

(* The configuration was loaded or not: again under the lock, the job is   *)
(* completed and what the Project refers to is scheduled.                  *)
Complete(w) ==
  LET p == worker[w].project
      items == config[p]
      ok == p \notin unreadable
      added == IF ok THEN Scheduled(items) ELSE 0
  IN
  /\ worker[w].pc = "loading"
  /\ mutex = 0
  /\ files_loaded' = files_loaded + 1
  /\ first_failure' = (first_failure \/ ~ok)
  /\ loaded' = IF ok THEN loaded \cup {p} ELSE loaded
  /\ cache' = IF ok THEN cache \cup Fresh(items) ELSE cache
  /\ queue' = IF ok THEN queue \cup Fresh(items) ELSE queue
  /\ outstanding' = outstanding + added - 1
  /\ stop' = (stop \/ outstanding' = 0)
  /\ worker' = Notified([worker EXCEPT ![w] = [Idle EXCEPT !.pc = "looking"]])
  /\ UNCHANGED <<inputs, phase, internal_failure, mutex, traversal, result>>

(* Memory runs out while a reference is scheduled: those before it are,    *)
(* the job is not completed, and unwinding releases the lock.              *)
ThrowScheduling(w) ==
  LET p == worker[w].project IN
  /\ scarce
  /\ worker[w].pc = "loading"
  /\ mutex = 0
  /\ p \notin unreadable
  /\ \E some \in SUBSET Fresh(config[p]) :
       /\ some # Fresh(config[p])
       /\ cache' = cache \cup some
       /\ queue' = queue \cup some
       /\ outstanding' = outstanding + Cardinality(some)
  /\ files_loaded' = files_loaded + 1
  /\ loaded' = loaded \cup {p}
  /\ worker' = [worker EXCEPT ![w].pc = "throwing"]
  /\ UNCHANGED <<inputs, phase, stop, first_failure, internal_failure, mutex,
                 traversal, result>>

(* The handler at the worker's entry point: it does not take the mutex.    *)
StoreFailure(w) ==
  /\ worker[w].pc = "throwing"
  /\ internal_failure' = TRUE
  /\ worker' = Notified([worker EXCEPT ![w].pc = "threw"])
  /\ UNCHANGED <<inputs, phase, pool, mutex, traversal, result>>

Joined == \A w \in Workers : worker[w].pc \in {"off", "exited", "threw"}

(* All threads are joined.                                                 *)
Join ==
  /\ phase \in {"join", "abandon"}
  /\ Joined
  /\ CASE phase = "abandon" \/ internal_failure ->
            Return("initialization_failed") /\ UNCHANGED <<stack, visit>>
       [] phase = "join" /\ ~internal_failure /\ first_failure ->
            Return("load_failed") /\ UNCHANGED <<stack, visit>>
       [] OTHER ->
            /\ phase' = "visit"
            /\ stack' = <<[project |-> Root, next |-> 1]>>
            /\ visit' = [visit EXCEPT ![Root] = "visiting"]
            /\ UNCHANGED result
  /\ UNCHANGED <<inputs, pool, internal_failure, mutex, worker, roots>>

-----------------------------------------------------------------------------
(* The traversal, one item of the uppermost frame at a time.               *)
Top == Len(stack)
Frame == stack[Top]
ItemsOfFrame == config[Frame.project]

Advanced == [stack EXCEPT ![Top].next = @ + 1]

AtItem(item) ==
  /\ phase = "visit"
  /\ stack # <<>>
  /\ Frame.next \in DOMAIN ItemsOfFrame
  /\ item = ItemsOfFrame[Frame.next]

(* All items of a Project are done; with the root's the resolution is.     *)
FinishFrame ==
  /\ phase = "visit"
  /\ stack # <<>>
  /\ Frame.next = Len(ItemsOfFrame) + 1
  /\ visit' = [visit EXCEPT ![Frame.project] = "done"]
  /\ stack' = SubSeq(stack, 1, Top - 1)
  /\ IF Top = 1 THEN Return("ok") ELSE UNCHANGED <<phase, result>>
  /\ UNCHANGED <<inputs, pool, internal_failure, mutex, worker, roots>>

(* roots.add of a Source item.                                             *)
AddRoot ==
  /\ AtItem(Source)
  /\ stack' = Advanced
  /\ roots' = Append(roots, Frame.project)
  /\ UNCHANGED <<inputs, phase, pool, internal_failure, mutex, worker, visit, result>>

(* roots.add refuses the item, in either traversal.                        *)
RootRefused ==
  /\ MayFail
  /\ \/ AtItem(Source)
     \/ /\ phase = "begin" /\ References(config[Root]) = {}
        /\ config[Root] # <<>>
  /\ Return("refused")
  /\ UNCHANGED <<inputs, pool, internal_failure, mutex, worker, traversal>>

(* Mutant: a Project that is being visited is taken for one that is done.  *)
Cycle_Skipped(p) == FALSE

(* A reference back to a Project on the stack.                             *)
Cycle(p) == visit[p] = "visiting"

Enters(p) == visit[p] = "unseen"

(* A reference to another Project: a cycle, done already, or entered.      *)
VisitProject(p) ==
  /\ AtItem(p)
  /\ CASE Cycle(p) ->
            Return("cycle") /\ UNCHANGED <<stack, visit>>
       [] Enters(p) /\ p \in loaded ->
            /\ visit' = [visit EXCEPT ![p] = "visiting"]
            /\ stack' = Append(Advanced, [project |-> p, next |-> 1])
            /\ UNCHANGED <<phase, result>>
       [] Enters(p) /\ p \notin loaded ->
            Return("composition_failed") /\ UNCHANGED <<stack, visit>>
       [] OTHER ->
            /\ stack' = Advanced
            /\ UNCHANGED <<visit, phase, result>>
  /\ UNCHANGED <<inputs, pool, internal_failure, mutex, worker, roots>>

(* Memory runs out in the coordinator while it has no threads.             *)
CoordinatorThrows ==
  /\ scarce
  /\ phase \in {"begin", "visit"}
  /\ Return("initialization_failed")
  /\ UNCHANGED <<inputs, pool, internal_failure, mutex, worker, traversal>>

-----------------------------------------------------------------------------
Coordinator ==
  \/ PublishRootOnly \/ ScheduleRoot \/ StartWorkers \/ Join
  \/ CoordinatorThrows
  \/ FinishFrame \/ AddRoot \/ RootRefused
  \/ \E p \in Projects : VisitProject(p)

Worker(w) ==
  Look(w) \/ Block(w) \/ Complete(w) \/ ThrowScheduling(w) \/ StoreFailure(w)

Next == Coordinator \/ \E w \in Workers : Worker(w)

Fairness == WF_vars(Coordinator) /\ \A w \in Workers : WF_vars(Worker(w))

Spec == Init /\ [][Next]_vars
FairSpec == Spec /\ Fairness

-----------------------------------------------------------------------------
(* Types, and what the mutex and the stack have to do with the threads and *)
(* the visit states.                                                       *)
TypeOK ==
  /\ cache \subseteq Projects /\ loaded \subseteq cache /\ queue \subseteq cache
  /\ outstanding \in 0..NumProjects
  /\ files_loaded \in 0..NumProjects
  /\ \A w \in Workers : worker[w].pc = "blocking" <=> mutex = w
  /\ \A i \in DOMAIN stack :
       visit[stack[i].project] = "visiting"
         /\ stack[i].next \in 1..(Len(config[stack[i].project]) + 1)
  /\ Cardinality({stack[i].project : i \in DOMAIN stack}) = Len(stack)

(* What the comment at schedule_locked claims: every Project with a node   *)
(* is queued, active, loaded or failed, and outstanding counts exactly the *)
(* queued and the active jobs; a job that threw stays counted.             *)
OutstandingExact ==
  LET active == {w \in Workers : worker[w].pc = "loading"}
      threw == {w \in Workers : worker[w].pc \in {"throwing", "threw"}}
  IN
  /\ outstanding = Cardinality(queue) + Cardinality(active) + Cardinality(threw)
  /\ stop /\ phase # "begin" => outstanding = 0
  /\ ~first_failure =>
       cache = loaded \cup queue \cup {worker[w].project : w \in active}

(* The Projects the root refers to, through those that can be read.        *)
Composition ==
  {p \in Projects :
     \A closed \in SUBSET Projects :
       /\ Root \in closed
       /\ \A q \in closed \ unreadable : References(config[q]) \subseteq closed
       => p \in closed}

(* Every configuration of the composition is loaded once, whatever number  *)
(* of references and threads meet at it.                                   *)
EachLoadedOnce ==
  phase = "visit" =>
    /\ loaded = Composition
    /\ files_loaded = Cardinality(Composition) - 1

(* The pool's jobs: well formed, counted exactly, and each done once.      *)
JobsExact == TypeOK /\ OutstandingExact /\ EachLoadedOnce

(* The status says what is wrong with the files: a cycle is reported when  *)
(* and only when there is one, a load failure when a file of the           *)
(* composition is unreadable, and no reference is left unloaded.           *)
OutcomeExact ==
  LET cyclic == \E cycle \in SUBSET Composition :
                  /\ cycle # {}
                  /\ \A p \in cycle : References(config[p]) \cap cycle # {}
      broken == Composition \cap unreadable # {}
  IN
  /\ result = "ok" => ~cyclic /\ ~broken
  /\ result = "cycle" => cyclic /\ ~broken
  /\ result = "load_failed" => broken
  /\ result # "composition_failed"

(* resolve_project_composition returns, whatever can be exhausted: no      *)
(* worker sleeps for ever.                                                 *)
ResolveReturns == <>(phase = "returned")
=============================================================================
