---------------------------- MODULE SourceManager ----------------------------
(***************************************************************************)
(* The Source Manager (source/source_manager.cpp) and the stable read of a *)
(* file (core/filesystem/file_snapshot.cpp).                               *)
(*                                                                         *)
(* Committed state: Source records with dense ids, the path index, roots,  *)
(* physical state and bytes, include edges and their reverse.  One update  *)
(* at a time (the single-writer contract of graph_manager.hpp) collects    *)
(* added Sources, acquisitions and include lists over it, and publishes    *)
(* them or is cancelled.  Acquisitions run on worker threads, in parallel  *)
(* with each other and with whoever edits the files; the coordinator only  *)
(* acts between them.                                                      *)
(*                                                                         *)
(* Assumed of the file system: a write changes what observe() returns.     *)
(* A failure latches in the update, which can then only be cancelled.      *)
(***************************************************************************)
EXTENDS Naturals, Sequences, FiniteSets

CONSTANTS
  Paths,          \* normalized Source paths
  RootPaths,      \* the paths the Project configuration names
  Contents,       \* what one half of a file can hold
  Instances,      \* what one behaviour uses: paths, contents, includes (the
                  \* include lists, as sets of ids, a Source may have), and
                  \* the bounds writes (edits) and jobs (acquisitions in parallel)
  MaxWrites,      \* the largest of the bounds on writes
  MaxGeneration   \* bound: publications

Ids == 1..Cardinality(Paths)

ASSUME SourceManagerAssumption ==
  /\ IsFiniteSet(Paths) /\ RootPaths \subseteq Paths
  /\ \A i \in Instances :
       /\ i.paths \subseteq Paths /\ i.contents \subseteq Contents
       /\ i.includes \subseteq SUBSET Ids /\ i.writes \in 0..MaxWrites
  /\ MaxWrites \in Nat /\ MaxGeneration \in Nat

VARIABLES
  instance,   \* one of Instances
  disk,       \* [Paths -> file or Absent]
  writes,     \* edits so far: the observation of the next write
  committed,  \* what source_manager owns
  update,     \* the source_manager_update
  jobs        \* [Ids -> job or Idle]: acquisitions under way

vars == <<instance, disk, writes, committed, update, jobs>>

Absent == [absent |-> TRUE]
Linked == [linked |-> TRUE]

(* A file is read in two halves; content is what both hold after a write.  *)
Files == [content : Contents, observation : 0..MaxWrites]

(* hash_source_content: SHA-256, taken to be free of collisions.           *)
Hash(bytes) == [sha256 |-> bytes]

NoHash == [sha256 |-> <<>>]

(* source_physical_state and source_physical_storage                       *)
Missing == [presence |-> "missing", observation |-> 0, hash |-> NoHash]
Unknown == [presence |-> "unknown", observation |-> 0, hash |-> NoHash]
Present(o, bytes) ==
  [presence |-> "present", observation |-> o, hash |-> Hash(bytes)]

NoStorage == [state |-> Unknown, content |-> <<>>]
MissingStorage == [state |-> Missing, content |-> <<>>]

NoChange == "none"
Unchanged == [kind |-> "unchanged"]
MissingFile == [kind |-> "missing"]

-----------------------------------------------------------------------------
(* get_physical_state and get_view of the committed Source Manager.        *)
CommittedStorage(id) ==
  IF id \in DOMAIN committed.physical THEN committed.physical[id] ELSE NoStorage

(* source_manager_update::get_physical_state and get_view: the delta, over *)
(* the committed storage.                                                  *)
CandidateState(id) ==
  IF id \in DOMAIN update.delta THEN update.delta[id].state
  ELSE CommittedStorage(id).state

CandidateView(id) ==
  IF id \in DOMAIN update.delta /\ ~update.delta[id].observation_only
  THEN update.delta[id].replacement.content
  ELSE CommittedStorage(id).content

CandidateSources == committed.sources \o update.added

(* contains_for_validation                                                 *)
HasSource(id) == id \in DOMAIN CandidateSources

(* candidate_includes                                                      *)
CandidateIncludes(id) ==
  CASE id \in DOMAIN update.include_delta -> update.include_delta[id]
    [] id \in DOMAIN committed.includes \ DOMAIN update.include_delta ->
         committed.includes[id]
    [] OTHER -> {}

(* Whoever is reached from a Source in one or more steps: the smallest set *)
(* that has its neighbours and is closed.  The code searches with a stack  *)
(* and a visited set.                                                      *)
Reached(nodes, next, from) ==
  {s \in nodes :
     \A closed \in SUBSET nodes :
       next[from] \subseteq closed
         /\ (\A u \in closed : next[u] \subseteq closed)
       => s \in closed}

(* source_manager::collect_dependents                                      *)
CollectDependents(id) ==
  Reached(DOMAIN committed.sources, committed.dependents, id) \ {id}

-----------------------------------------------------------------------------
EmptyUpdate ==
  [status |-> "closed", base |-> 0, added |-> <<>>, added_by_path |-> <<>>,
   roots |-> {}, roots_changed |-> FALSE, delta |-> <<>>,
   include_delta |-> <<>>, changes |-> [i \in Ids |-> NoChange],
   validated |-> FALSE, g0 |-> FALSE, dependents |-> <<>>]

Idle == [phase |-> "idle"]

Init ==
  /\ instance \in Instances
  /\ disk \in [Paths -> [content : instance.contents, observation : {0}] \cup {Absent}]
  /\ \A p \in Paths \ instance.paths : disk[p] = Absent
  /\ writes = 0
  /\ committed = [sources |-> <<>>, by_path |-> <<>>, roots |-> {},
                  physical |-> <<>>, includes |-> <<>>, dependents |-> <<>>,
                  generation |-> 0]
  /\ update = EmptyUpdate
  /\ jobs = [i \in Ids |-> Idle]

Open == update.status = "open"
Quiet == \A i \in Ids : jobs[i] = Idle

(* A latched failure: all the update still does is to be cancelled.        *)
Failed == [EmptyUpdate EXCEPT !.status = "failed", !.added = update.added]

(* source_manager::begin_update                                            *)
BeginUpdate ==
  /\ update.status = "closed"
  /\ committed.generation < MaxGeneration
  /\ update' = [EmptyUpdate EXCEPT !.status = "open",
                                   !.base = committed.generation]
  /\ UNCHANGED <<disk, writes, committed, jobs>>

(* source_manager_update::resolve: the id a path already has, in this      *)
(* update or committed, or the next one.                                   *)
IdOf(p) ==
  CASE p \in DOMAIN update.added_by_path -> update.added_by_path[p]
    [] p \in DOMAIN committed.by_path \ DOMAIN update.added_by_path ->
         committed.by_path[p]
    [] OTHER -> Len(committed.sources) + Len(update.added) + 1

(* Mutant: the committed path index is not looked at.                      *)
Known_NotCommitted(p) == p \in DOMAIN update.added_by_path

Known(p) ==
  p \in DOMAIN update.added_by_path \/ p \in DOMAIN committed.by_path

Extend(f, k, v) ==
  [x \in DOMAIN f \cup {k} |-> IF x = k THEN v ELSE f[x]]

Resolve(p) ==
  IF Known(p) THEN update
  ELSE [update EXCEPT !.added = Append(@, p),
                      !.added_by_path = Extend(@, p, IdOf(p))]

(* source_manager_update::add of a source or type root                     *)
Add(p) ==
  /\ Open /\ Quiet
  /\ update' = [Resolve(p) EXCEPT !.roots = @ \cup {IdOf(p)},
                                  !.roots_changed = TRUE]
  /\ UNCHANGED <<disk, writes, committed, jobs>>

(* source_manager_update::resolve_include: no root, but the file must be   *)
(* there now.                                                              *)
ResolveInclude(p) ==
  /\ Open /\ Quiet
  /\ update' = IF disk[p] = Absent THEN Failed ELSE Resolve(p)
  /\ UNCHANGED <<disk, writes, committed, jobs>>

(* source_manager_update::set_includes                                     *)
SetIncludes(id, included) ==
  /\ Open /\ Quiet
  /\ HasSource(id)
  /\ update' = IF \A i \in included : HasSource(i)
               THEN [update EXCEPT
                       !.include_delta = Extend(@, id, included),
                       !.validated = FALSE]
               ELSE Failed
  /\ UNCHANGED <<disk, writes, committed, jobs>>

-----------------------------------------------------------------------------
(* prepare_acquire: the job remembers the committed state and the baseline *)
(* of the fast path.  The frontend reads a Source before it looks for its  *)
(* includes.                                                               *)
PrepareAcquire(id) ==
  /\ Open
  /\ HasSource(id)
  /\ id \notin DOMAIN update.include_delta
  /\ jobs[id] = Idle
  /\ Cardinality({i \in Ids : jobs[i] # Idle}) < instance.jobs
  /\ jobs' = [jobs EXCEPT ![id] =
                [phase |-> "opening",
                 committed |-> CommittedStorage(id).state,
                 baseline |-> CandidateState(id)]]
  /\ UNCHANGED <<disk, writes, committed, update>>

PathOf(id) == CandidateSources[id]

(* The file behind the open handle: the one on disk, or the one that was   *)
(* there when it was removed.                                              *)
Handle(id) ==
  IF jobs[id].file = Linked THEN disk[PathOf(id)] ELSE jobs[id].file

SetJob(id, phase, file, observation, bytes) ==
  jobs' = [jobs EXCEPT ![id] =
             [phase |-> phase, committed |-> jobs[id].committed,
              baseline |-> jobs[id].baseline, file |-> file,
              observation |-> observation, bytes |-> bytes]]

Finish(id, result) ==
  jobs' = [jobs EXCEPT ![id] =
             [phase |-> "done", committed |-> jobs[id].committed,
              baseline |-> jobs[id].baseline, result |-> result]]

(* acquire_file_snapshot: open and observe.  Equal metadata of a present   *)
(* baseline is the fast path.                                              *)
OpenFile(id) ==
  LET file == disk[PathOf(id)] IN
  /\ jobs[id].phase = "opening"
  /\ CASE file = Absent -> Finish(id, MissingFile)
       [] /\ file # Absent
          /\ jobs[id].baseline.presence = "present"
          /\ jobs[id].baseline.observation = file.observation ->
            Finish(id, Unchanged)
       [] OTHER -> SetJob(id, "reading", Linked, file.observation, <<>>)
  /\ UNCHANGED <<disk, writes, committed, update>>

(* read_source_file: one half at a time, so that a write can come between. *)
ReadHalf(id) ==
  /\ jobs[id].phase = "reading"
  /\ Len(jobs[id].bytes) < 2
  /\ SetJob(id, "reading", jobs[id].file, jobs[id].observation,
            Append(jobs[id].bytes, Handle(id).content))
  /\ UNCHANGED <<disk, writes, committed, update>>

(* Mutant: no second observation after the read.                           *)
Recheck_Dropped(id) ==
  /\ jobs[id].phase = "reading"
  /\ Len(jobs[id].bytes) = 2
  /\ Finish(id, [kind |-> "present", bytes |-> jobs[id].bytes,
                 observation |-> jobs[id].observation])
  /\ UNCHANGED <<disk, writes, committed, update>>

(* The observation after the read: another one means that the bytes are    *)
(* not one stable image, and the acquisition fails.                        *)
Recheck(id) ==
  /\ jobs[id].phase = "reading"
  /\ Len(jobs[id].bytes) = 2
  /\ IF Handle(id).observation = jobs[id].observation
     THEN Finish(id, [kind |-> "present", bytes |-> jobs[id].bytes,
                      observation |-> jobs[id].observation])
     ELSE Finish(id, [kind |-> "failed"])
  /\ UNCHANGED <<disk, writes, committed, update>>

(* The file cannot be opened, observed or read.                            *)
ReadFails(id) ==
  /\ jobs[id].phase \in {"opening", "reading"}
  /\ Finish(id, [kind |-> "failed"])
  /\ UNCHANGED <<disk, writes, committed, update>>

(* classify_change                                                         *)
Classify(was, is) ==
  CASE was.presence # "present" /\ is.presence = "present" -> "added"
    [] was.presence = "present" /\ is.presence = "missing" -> "removed"
    [] was.presence = "present" /\ is.presence = "present"
         /\ was.hash # is.hash -> "modified"
    [] OTHER -> NoChange

Replacement(storage) ==
  [state |-> storage.state, replacement |-> storage, observation_only |-> FALSE]

ObservationOnly(state, o) ==
  [state |-> [state EXCEPT !.observation = o],
   replacement |-> NoStorage, observation_only |-> TRUE]

(* The delta apply_acquire stores for a file read as result.bytes.         *)
DeltaOf(id, job, result) ==
  LET hash == Hash(result.bytes) IN
  CASE job.committed.presence = "present" /\ job.committed.hash = hash ->
         ObservationOnly(job.committed, result.observation)
    [] /\ ~(job.committed.presence = "present" /\ job.committed.hash = hash)
       /\ job.baseline.presence = "present" /\ job.baseline.hash = hash ->
         IF id \in DOMAIN update.delta /\ ~update.delta[id].observation_only
         THEN [update.delta[id] EXCEPT
                 !.state.observation = result.observation,
                 !.replacement.state.observation = result.observation]
         ELSE ObservationOnly(job.baseline, result.observation)
    [] OTHER ->
         Replacement([state |-> Present(result.observation, result.bytes),
                      content |-> result.bytes])

(* set_net_change: one record per Source, none for a Source that is again  *)
(* what it was.                                                            *)
SetNetChange(u, id, kind) == [u EXCEPT !.changes[id] = kind]

Store(id, job, delta) ==
  SetNetChange([update EXCEPT !.delta = Extend(@, id, delta)], id,
               Classify(job.committed, delta.state))

(* apply_acquire; a Source that was never read cannot be missing.          *)
ApplyAcquire(id) ==
  LET job == jobs[id]
      result == job.result
  IN
  /\ job.phase = "done"
  /\ update' =
       CASE update.status = "failed" \/ result.kind = "unchanged" -> update
         [] update.status # "failed" /\ result.kind = "failed" -> Failed
         [] update.status # "failed" /\ result.kind = "missing" ->
              CASE job.committed.presence = "unknown" -> Failed
                [] /\ job.committed.presence # "unknown"
                   /\ job.baseline.presence = "missing" -> update
                [] OTHER -> Store(id, job, Replacement(MissingStorage))
         [] OTHER -> Store(id, job, DeltaOf(id, job, result))
  /\ jobs' = [jobs EXCEPT ![id] = Idle]
  /\ UNCHANGED <<disk, writes, committed>>

-----------------------------------------------------------------------------
(* validate_source_graph.  The first build searches the whole graph; later *)
(* ones only for a way from a replaced include back to its Source.         *)
CycleFound ==
  LET nodes == DOMAIN CandidateSources
      parents == IF committed.sources = <<>> THEN nodes
                 ELSE DOMAIN update.include_delta
      includes == [id \in nodes |-> CandidateIncludes(id)]
  IN \E parent \in parents :
       \E child \in includes[parent] :
         child = parent \/ parent \in Reached(nodes, includes, child)

ValidateSourceGraph ==
  /\ Open /\ Quiet
  /\ update' = IF CycleFound THEN Failed
               ELSE [update EXCEPT !.validated = TRUE]
  /\ UNCHANGED <<disk, writes, committed, jobs>>

(* The reverse edges of the first build.                                   *)
ReversedIncludes ==
  [child \in DOMAIN update.added |->
     {parent \in DOMAIN update.added : child \in CandidateIncludes(parent)}]

(* Mutant: lost include edges stay in the reverse index.                   *)
CorrectedDependents_OnlyWon ==
  LET old(parent) == IF parent \in DOMAIN committed.includes
                     THEN committed.includes[parent] ELSE {}
      won(child) == {p \in DOMAIN update.include_delta :
                       child \in update.include_delta[p] \ old(p)}
      was(child) == IF child \in DOMAIN committed.dependents
                    THEN committed.dependents[child] ELSE {}
  IN [child \in {c \in DOMAIN CandidateSources : won(c) # {}} |->
        was(child) \cup won(child)]

(* prepared_dependents: the children some replaced include list lost or    *)
(* won, each with its committed dependents corrected.                      *)
CorrectedDependents ==
  LET old(parent) == IF parent \in DOMAIN committed.includes
                     THEN committed.includes[parent] ELSE {}
      new(parent) == update.include_delta[parent]
      replaced == DOMAIN update.include_delta
      lost(child) == {p \in replaced : child \in old(p) \ new(p)}
      won(child) == {p \in replaced : child \in new(p) \ old(p)}
      was(child) == IF child \in DOMAIN committed.dependents
                    THEN committed.dependents[child] ELSE {}
  IN [child \in {c \in DOMAIN CandidateSources : lost(c) \cup won(c) # {}} |->
        (was(child) \ lost(child)) \cup won(child)]

(* The first build has a replacement for every Source.                     *)
CompleteG0 ==
  /\ DOMAIN update.delta = DOMAIN update.added
  /\ \A id \in DOMAIN update.delta : ~update.delta[id].observation_only

(* prepare_publish                                                         *)
PreparePublish ==
  /\ Open /\ Quiet
  /\ update' =
       CASE \/ update.base # committed.generation
            \/ ~update.validated
            \/ committed.sources = <<>> /\ ~CompleteG0 -> Failed
         [] /\ update.base = committed.generation /\ update.validated
            /\ committed.sources = <<>> /\ CompleteG0 ->
              [update EXCEPT !.status = "prepared", !.g0 = TRUE,
                             !.dependents = ReversedIncludes]
         [] OTHER ->
              [update EXCEPT !.status = "prepared",
                             !.dependents = CorrectedDependents]
  /\ UNCHANGED <<disk, writes, committed, jobs>>

(* The committed table resized, with the delta written over it.            *)
Overlay(f, size, default, g) ==
  [i \in 1..size |-> IF i \in DOMAIN g THEN g[i]
                     ELSE IF i \in DOMAIN f THEN f[i] ELSE default]

(* publish_prepared on one Source's storage.                               *)
PublishedStorage(id) ==
  LET delta == update.delta[id] IN
  CASE delta.observation_only /\ CommittedStorage(id) # NoStorage ->
         [CommittedStorage(id) EXCEPT
            !.state.observation = delta.state.observation]
    [] delta.observation_only /\ CommittedStorage(id) = NoStorage -> NoStorage
    [] OTHER -> delta.replacement

(* publish_prepared                                                        *)
PublishPrepared ==
  LET size == Len(CandidateSources)
      stored == [id \in DOMAIN update.delta |-> PublishedStorage(id)]
      paths == DOMAIN committed.by_path \cup DOMAIN update.added_by_path
  IN
  /\ update.status = "prepared"
  /\ committed' =
       IF update.g0
       THEN [sources |-> update.added, by_path |-> update.added_by_path,
             roots |-> update.roots, physical |-> Overlay(<<>>, size, NoStorage, stored),
             includes |-> Overlay(<<>>, size, {}, update.include_delta),
             dependents |-> update.dependents,
             generation |-> committed.generation + 1]
       ELSE [sources |-> CandidateSources,
             by_path |-> [p \in paths |-> IF p \in DOMAIN committed.by_path
                                          THEN committed.by_path[p]
                                          ELSE update.added_by_path[p]],
             roots |-> IF update.roots_changed THEN update.roots
                       ELSE committed.roots,
             physical |-> Overlay(committed.physical, size, NoStorage, stored),
             includes |-> Overlay(committed.includes, size, {},
                                  update.include_delta),
             dependents |-> Overlay(committed.dependents, size, {},
                                    update.dependents),
             generation |-> committed.generation + 1]
  /\ update' = EmptyUpdate
  /\ UNCHANGED <<disk, writes, jobs>>

(* cancel, and the end of the update's life                                *)
Cancel ==
  /\ update.status \in {"open", "failed", "prepared"}
  /\ Quiet
  /\ update' = EmptyUpdate
  /\ UNCHANGED <<disk, writes, committed, jobs>>

-----------------------------------------------------------------------------
(* Somebody edits a file in place, or creates it.                          *)
WriteFile(p, c) ==
  /\ writes < instance.writes
  /\ writes' = writes + 1
  /\ disk' = [disk EXCEPT ![p] = [content |-> c, observation |-> writes + 1]]
  /\ UNCHANGED <<committed, update, jobs>>

(* Somebody removes a file: a handle that is open on it keeps it.          *)
RemoveFile(p) ==
  /\ writes < instance.writes
  /\ disk[p] # Absent
  /\ writes' = writes + 1
  /\ disk' = [disk EXCEPT ![p] = Absent]
  /\ jobs' = [i \in Ids |->
                IF /\ jobs[i].phase = "reading"
                   /\ jobs[i].file = Linked
                   /\ PathOf(i) = p
                THEN [jobs[i] EXCEPT !.file = disk[p]]
                ELSE jobs[i]]
  /\ UNCHANGED <<committed, update>>

-----------------------------------------------------------------------------
Step ==
  \/ BeginUpdate
  \/ (\E p \in RootPaths : Add(p)) \/ (\E p \in instance.paths : ResolveInclude(p))
  \/ \E id \in Ids, included \in instance.includes : SetIncludes(id, included)
  \/ \E id \in Ids :
       \/ PrepareAcquire(id) \/ OpenFile(id) \/ ReadHalf(id)
       \/ Recheck(id) \/ ReadFails(id) \/ ApplyAcquire(id)
  \/ ValidateSourceGraph
  \/ PreparePublish
  \/ PublishPrepared
  \/ Cancel
  \/ \E p \in instance.paths : RemoveFile(p) \/ \E c \in instance.contents : WriteFile(p, c)

Next == Step /\ UNCHANGED instance

Spec == Init /\ [][Next]_vars

-----------------------------------------------------------------------------
Bytes == UNION {[1..n -> Contents] : n \in 0..2}
States ==
  {Unknown, Missing} \cup
  [presence : {"present"}, observation : 0..MaxWrites,
   hash : {Hash(b) : b \in Bytes}]
Storages == [state : States, content : Bytes]
Partial(f, S) == DOMAIN f \subseteq Ids /\ \A i \in DOMAIN f : f[i] \in S

(* The variables have their types; the committed tables have one entry per *)
(* Source.                                                                 *)
TypeOK ==
  /\ instance \in Instances
  /\ disk \in [Paths -> Files \cup {Absent}]
  /\ writes \in 0..MaxWrites
  /\ committed.generation \in 0..MaxGeneration
  /\ committed.sources \in Seq(Paths)
  /\ LET n == Len(committed.sources) IN
     /\ n <= Cardinality(Paths)
     /\ committed.physical \in [1..n -> Storages]
     /\ committed.includes \in [1..n -> SUBSET (1..n)]
     /\ committed.dependents \in [1..n -> SUBSET (1..n)]
     /\ committed.roots \subseteq 1..n
  /\ update.status \in {"closed", "open", "failed", "prepared"}
  /\ update.added \in Seq(Paths)
  /\ Partial(update.delta,
       [state : States, replacement : Storages, observation_only : BOOLEAN])
  /\ Partial(update.include_delta, SUBSET Ids)
  /\ update.changes \in
       [Ids -> {NoChange, "added", "removed", "modified"}]
  /\ \A i \in Ids : jobs[i].phase \in {"idle", "opening", "reading", "done"}

(* A path has one source_id and a source_id one path, across what is       *)
(* committed and what the update adds: contributions and include edges are *)
(* keyed by source_id, so a second id would count a file twice.            *)
OneIdPerPath ==
  /\ \A i, j \in DOMAIN CandidateSources :
       CandidateSources[i] = CandidateSources[j] => i = j
  /\ \A i \in DOMAIN committed.sources :
       committed.by_path[committed.sources[i]] = i
  /\ \A p \in DOMAIN committed.by_path :
       committed.sources[committed.by_path[p]] = p

(* Publication never gives a published source_id another path.             *)
IdsPersist ==
  \A i \in DOMAIN committed.sources :
    i \in DOMAIN committed'.sources /\ committed'.sources[i] = committed.sources[i]

(* A source_id and a path belong to each other, after every step and for   *)
(* ever.                                                                   *)
SourceIdsStable == [][OneIdPerPath' /\ IdsPersist]_vars

(* The committed include graph has no cycle, although an incremental build *)
(* only searches from the include lists it replaces.                       *)
CommittedAcyclic ==
  \A s \in DOMAIN committed.sources :
    s \notin Reached(DOMAIN committed.sources, committed.includes, s)

(* collect_dependents finds exactly the Sources that include a Source,     *)
(* directly or not: an incremental build that follows it parses neither    *)
(* too few Sources nor too many.                                           *)
InvalidationExact ==
  \A s, t \in DOMAIN committed.sources :
    t # s => (t \in CollectDependents(s)
           <=> s \in Reached(DOMAIN committed.sources, committed.includes, t))

(* The committed tables are well formed, and the include graph in them is  *)
(* acyclic and has exactly its reverse beside it.                          *)
IncludesExact == TypeOK /\ CommittedAcyclic /\ InvalidationExact

(* Stored bytes are one write of the file, never a mixture of two, and     *)
(* those that claim to be the file's current write are that write: older   *)
(* bytes under a newer observation would be kept by the fast path forever. *)
OneWrite(state, bytes, file) ==
  state.presence = "present" =>
    /\ bytes[1] = bytes[2]
    /\ file # Absent /\ state.observation = file.observation
         => bytes = <<file.content, file.content>>

BytesMatchObservation ==
  \A id \in DOMAIN CandidateSources :
    LET storage == CommittedStorage(id)
        file == disk[PathOf(id)]
    IN
    /\ OneWrite(storage.state, storage.content, file)
    /\ OneWrite(CandidateState(id), CandidateView(id), file)

(* What a reader is told of a Source fits the bytes it is given, also when *)
(* a candidate only replaces the observation of committed bytes.           *)
StateMatchesBytes ==
  \A id \in DOMAIN CandidateSources :
    /\ CommittedStorage(id).state.presence = "present" =>
         CommittedStorage(id).state.hash = Hash(CommittedStorage(id).content)
    /\ CandidateState(id).presence = "present" =>
         CandidateState(id).hash = Hash(CandidateView(id))

(* The change records are the net difference between candidate and         *)
(* committed, whatever sequence of acquisitions led there: a Source that   *)
(* is again what it was has none.                                          *)
NetChangesExact ==
  update.status # "failed" =>
    \A id \in DOMAIN CandidateSources :
      update.changes[id] =
        Classify(CommittedStorage(id).state, CandidateState(id))

(* Bytes, hash and observation of a Source belong to the same write, and   *)
(* the change record says what that write changed.                         *)
PhysicalExact == BytesMatchObservation /\ StateMatchesBytes /\ NetChangesExact
=============================================================================
