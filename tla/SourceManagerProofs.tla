------------------------- MODULE SourceManagerProofs -------------------------
(***************************************************************************)
(* Proofs about the Source Manager and its checkpoint, for any finite set  *)
(* of paths, any contents, include lists, edits and number of parallel     *)
(* acquisitions.                                                           *)
(*                                                                         *)
(* The invariant IndInv says of each part what the properties leave out:   *)
(*   StatusInv   what an update holds at each point of its life;           *)
(*   IdsInv      the two path indexes list the Sources there are;          *)
(*   GraphInv    the reverse index is exact, what is validated or prepared *)
(*               has no cycle, and what is prepared has its reverse ready; *)
(*   StorageInv  stored bytes and those of the delta are one write each;   *)
(*   DiskInv     observations count the edits;                             *)
(*   JobInv      what an acquisition has read so far is what its handle    *)
(*               holds, unless that was written since, and it remembers    *)
(*               the states its result will be compared with.              *)
(* Cycles are about what is reached, which the module defines as the least *)
(* closed set: the lemmas on Reached need no induction.                    *)
(*                                                                         *)
(* The checkpoint is written by functions that recur on a number.  What    *)
(* holds from 0 upwards is a set of numbers (Upwards), so that no operator *)
(* is passed to a lemma: first that such a function exists, then what it   *)
(* does in one step, then what it has done in the end.  Saved is what the  *)
(* writer is given, and follows from IndInv.                               *)
(***************************************************************************)
EXTENDS SourceCheckpoint, FiniteSetTheorems, SequenceTheorems, WellFoundedInduction, TLAPS

(* The ids there are: of committed Sources and of those the update adds.   *)
Everywhere == DOMAIN CandidateSources
Size == Len(committed.sources) + Len(update.added)

DeltaType == [state : States, replacement : Storages, observation_only : BOOLEAN]
UpdateFields ==
  {"status", "base", "added", "added_by_path", "roots", "roots_changed", "delta",
   "include_delta", "changes", "validated", "g0", "dependents"}

CommittedTyped ==
  /\ committed.generation \in 0..MaxGeneration
  /\ committed.sources \in Seq(Paths)
  /\ LET n == Len(committed.sources) IN
     /\ committed.physical \in [1..n -> Storages]
     /\ committed.includes \in [1..n -> SUBSET (1..n)]
     /\ committed.dependents \in [1..n -> SUBSET (1..n)]
     /\ committed.roots \subseteq 1..n

UpdateTyped ==
  /\ DOMAIN update = UpdateFields
  /\ update.status \in {"closed", "open", "failed", "prepared"}
  /\ update.added \in Seq(Paths)
  /\ Partial(update.delta, DeltaType)
  /\ Partial(update.include_delta, SUBSET Ids)
  /\ update.changes \in [Ids -> {NoChange, "added", "removed", "modified"}]
  /\ update.validated \in BOOLEAN /\ update.g0 \in BOOLEAN

(* A file that is read: what has been read of it so far.                   *)
ResultType ==
  {Unchanged, MissingFile, [kind |-> "failed"]} \cup
  [kind : {"present"}, bytes : Bytes, observation : 0..MaxWrites]
JobType ==
  {Idle} \cup
  [phase : {"opening"}, committed : States, baseline : States] \cup
  [phase : {"reading"}, committed : States, baseline : States,
   file : Files \cup {Linked}, observation : 0..MaxWrites, bytes : Bytes] \cup
  [phase : {"done"}, committed : States, baseline : States, result : ResultType]

(* An update that is over is empty; one that is prepared or over is not    *)
(* read for, and one whose Sources are read keeps their ids.               *)
StatusInv ==
  /\ update.status = "closed" => update = EmptyUpdate
  /\ update.status # "closed" => committed.generation < MaxGeneration
  /\ update.status \in {"closed", "prepared"} => Quiet
  /\ update.g0 => update.status = "prepared" /\ committed.sources = <<>>
  /\ update.roots \subseteq Everywhere
  /\ DOMAIN update.delta \subseteq Everywhere
  /\ DOMAIN update.include_delta \subseteq Everywhere
  /\ \A i \in DOMAIN update.include_delta : update.include_delta[i] \subseteq Everywhere
  /\ \A i \in Ids : jobs[i] # Idle => i \in Everywhere

IdsInv ==
  /\ \A i, j \in Everywhere : CandidateSources[i] = CandidateSources[j] => i = j
  /\ \A i \in DOMAIN committed.sources :
       /\ committed.sources[i] \in DOMAIN committed.by_path
       /\ committed.by_path[committed.sources[i]] = i
  /\ \A p \in DOMAIN committed.by_path : \E i \in DOMAIN committed.sources : committed.sources[i] = p
  /\ update.status # "failed" =>
       /\ \A k \in DOMAIN update.added :
            /\ update.added[k] \in DOMAIN update.added_by_path
            /\ update.added_by_path[update.added[k]] = Len(committed.sources) + k
       /\ \A p \in DOMAIN update.added_by_path :
            \E k \in DOMAIN update.added : update.added[k] = p

Acyclic(nodes, next) == \A s \in nodes : s \notin Reached(nodes, next, s)

GraphInv ==
  /\ \A a, b \in DOMAIN committed.sources :
       b \in committed.dependents[a] <=> a \in committed.includes[b]
  /\ CommittedAcyclic
  /\ update.validated \/ update.status = "prepared" =>
       Acyclic(Everywhere, [i \in Everywhere |-> CandidateIncludes(i)])
  /\ update.status = "prepared" =>
       update.dependents = IF update.g0 THEN ReversedIncludes ELSE CorrectedDependents
  /\ update.status = "prepared" /\ ~update.g0 => committed.sources # <<>>

(* Bytes that are one write, and the current one if they claim to be: of a *)
(* file that is f now, after w edits.                                      *)
Sound(bytes, o, f, w) ==
  /\ bytes \in [1..2 -> Contents]
  /\ bytes[1] = bytes[2]
  /\ o \in 0..w
  /\ f # Absent /\ f.observation = o => bytes[1] = f.content

SoundStorage(storage, f, w) ==
  storage.state.presence = "present" =>
    /\ Sound(storage.content, storage.state.observation, f, w)
    /\ storage.state.hash = Hash(storage.content)

(* A delta over the storage it is published over.                          *)
SoundDelta(delta, was, f, w) ==
  /\ delta.observation_only =>
       /\ was.state.presence = "present"
       /\ delta.state = [was.state EXCEPT !.observation = delta.state.observation]
       /\ Sound(was.content, delta.state.observation, f, w)
  /\ ~delta.observation_only =>
       /\ delta.replacement.state = delta.state
       /\ SoundStorage(delta.replacement, f, w)

StorageInv ==
  /\ \A i \in Everywhere : SoundStorage(CommittedStorage(i), disk[PathOf(i)], writes)
  /\ \A i \in DOMAIN update.delta :
       SoundDelta(update.delta[i], CommittedStorage(i), disk[PathOf(i)], writes)
  /\ update.status # "failed" =>
       \A i \in Ids : update.changes[i] = Classify(CommittedStorage(i).state, CandidateState(i))

DiskInv ==
  \A p \in Paths : disk[p] # Absent => disk[p].observation \in 0..writes

(* What a job has read so far is what its handle holds, if that was not    *)
(* written since; what it found is sound.                                  *)
SoundJob(job, f, w) ==
  LET handle == IF job.file = Linked THEN f ELSE job.file IN
  /\ job.phase = "reading" =>
       /\ job.observation <= w
       /\ job.file = Linked => f # Absent
       /\ job.file # Linked /\ f # Absent => job.observation < f.observation
       /\ handle.observation = job.observation =>
            \A k \in DOMAIN job.bytes : job.bytes[k] = handle.content
  /\ job.phase = "done" /\ job.result.kind = "present" =>
       Sound(job.result.bytes, job.result.observation, f, w)

(* A job remembers the states its result is compared with.                 *)
JobInv ==
  \A i \in Ids :
    jobs[i] # Idle =>
      /\ SoundJob(jobs[i], disk[PathOf(i)], writes)
      /\ jobs[i].committed = CommittedStorage(i).state
      /\ update.status = "open" => jobs[i].baseline = CandidateState(i)

IndInv ==
  /\ instance \in Instances
  /\ disk \in [Paths -> Files \cup {Absent}] /\ writes \in 0..MaxWrites
  /\ CommittedTyped /\ UpdateTyped /\ jobs \in [Ids -> JobType]
  /\ StatusInv /\ IdsInv /\ GraphInv /\ DiskInv /\ StorageInv /\ JobInv

-----------------------------------------------------------------------------
(* The paths of two sequences one after the other.                         *)
LEMMA ConcatFacts ==
  ASSUME NEW a \in Seq(Paths), NEW b \in Seq(Paths)
  PROVE  /\ a \o b \in Seq(Paths) /\ Len(a \o b) = Len(a) + Len(b)
         /\ DOMAIN (a \o b) = 1..(Len(a) + Len(b))
         /\ \A i \in 1..Len(a) : (a \o b)[i] = a[i]
         /\ \A k \in 1..Len(b) : (a \o b)[Len(a) + k] = b[k]
         /\ \A i \in 1..(Len(a) + Len(b)) :
              i \notin 1..Len(a) => i - Len(a) \in 1..Len(b) /\ (a \o b)[i] = b[i - Len(a)]
OBVIOUS

(* No more ids than paths.                                                 *)
LEMMA SizeBound ==
  ASSUME NEW s \in Seq(Paths), \A i, j \in DOMAIN s : s[i] = s[j] => i = j
  PROVE  Len(s) <= Cardinality(Paths) /\ DOMAIN s \subseteq Ids
<1> DEFINE n == Len(s)
<1>1. s \in [1..n -> Paths] /\ DOMAIN s = 1..n /\ n \in Nat
  OBVIOUS
<1> HIDE DEF n
<1>2. s \in Injection(1..n, Paths)
  BY <1>1 DEF Injection, IsInjective
<1>3. Cardinality(1..n) <= Cardinality(Paths)
  BY <1>2, FS_Injection, SourceManagerAssumption
<1>4. Cardinality(1..n) = IF 1 > n THEN 0 ELSE n - 1 + 1
  BY <1>1, FS_Interval
<1>5. Cardinality(Paths) \in Nat
  BY FS_CardinalityType, SourceManagerAssumption
<1>6. QED
  BY <1>1, <1>3, <1>4, <1>5 DEF Ids, n

(* The halves of a file.                                                   *)
LEMMA BytesFacts ==
  /\ <<>> \in Bytes
  /\ \A b \in Bytes : b \in Seq(Contents) /\ Len(b) \in 0..2
  /\ \A b \in Bytes, c \in Contents : Len(b) < 2 => Append(b, c) \in Bytes
  /\ \A b \in Bytes : Len(b) = 2 => b \in [1..2 -> Contents]
  /\ [1..2 -> Contents] \subseteq Bytes
<1>1. \A b : b \in Bytes <=> \E n \in 0..2 : b \in [1..n -> Contents]
  BY DEF Bytes
<1>2. \A n \in 0..2 : \A b \in [1..n -> Contents] : b \in Seq(Contents) /\ Len(b) = n
  OBVIOUS
<1>3. <<>> \in [1..0 -> Contents]
  OBVIOUS
<1>4. ASSUME NEW n \in 0..1, NEW b \in [1..n -> Contents], NEW c \in Contents
      PROVE  Append(b, c) \in [1..(n + 1) -> Contents]
  <2>1. b \in Seq(Contents) /\ Len(b) = n
    BY <1>2
  <2>2. Append(b, c) \in Seq(Contents) /\ Len(Append(b, c)) = n + 1
    BY <2>1, AppendProperties
  <2>3. \A s \in Seq(Contents) : s \in [1..Len(s) -> Contents]
    OBVIOUS
  <2>4. Append(b, c) \in [1..Len(Append(b, c)) -> Contents]
    BY <2>2, <2>3
  <2>5. QED
    BY <2>2, <2>4
<1>5. \A b \in Bytes, c \in Contents : Len(b) < 2 => Append(b, c) \in Bytes
  <2> SUFFICES ASSUME NEW b \in Bytes, NEW c \in Contents, Len(b) < 2
               PROVE  Append(b, c) \in Bytes
    OBVIOUS
  <2>1. PICK n \in 0..2 : b \in [1..n -> Contents]
    BY <1>1
  <2>2. n \in 0..1
    BY <1>2, <2>1
  <2>3. Append(b, c) \in [1..(n + 1) -> Contents] /\ n + 1 \in 0..2
    <3>1. n \in 0..1 /\ b \in [1..n -> Contents]
      BY <2>1, <2>2
    <3>2. Append(b, c) \in [1..(n + 1) -> Contents]
      BY <1>4, <3>1, Zenon
    <3>3. QED
      BY <2>2, <3>2
  <2>4. QED
    BY <1>1, <2>3, Zenon
<1>6. <<>> \in Bytes
  <2>1. 0 \in 0..2
    OBVIOUS
  <2>2. QED
    BY <1>1, <1>3, <2>1, Zenon
<1>7. \A b \in Bytes : b \in Seq(Contents) /\ Len(b) \in 0..2
  BY <1>1, <1>2
<1>8. \A b \in Bytes : Len(b) = 2 => b \in [1..2 -> Contents]
  BY <1>1, <1>2
<1>9. [1..2 -> Contents] \subseteq Bytes
  BY <1>1
<1>10. QED
  BY <1>5, <1>6, <1>7, <1>8, <1>9

(* The kinds of jobs.                                                      *)
LEMMA JobKinds ==
  /\ Idle \in JobType /\ Idle.phase = "idle"
  /\ \A j \in JobType :
       /\ j.phase \in {"idle", "opening", "reading", "done"}
       /\ j.phase = "idle" <=> j = Idle
       /\ j # Idle => j.committed \in States /\ j.baseline \in States
       /\ j.phase = "reading" =>
            /\ j.file \in Files \cup {Linked} /\ j.observation \in 0..MaxWrites
            /\ j.bytes \in Bytes
       /\ j.phase = "done" => j.result \in ResultType
BY DEF JobType, Idle

(* A result is one of four.                                                *)
LEMMA ResultKinds ==
  \A r \in ResultType :
    /\ r.kind \in {"unchanged", "missing", "failed", "present"}
    /\ r.kind = "present" => r.bytes \in Bytes /\ r.observation \in 0..MaxWrites
BY DEF ResultType, Unchanged, MissingFile

(* A file is neither absent nor the mark for the one on disk.              *)
LEMMA FileKinds == \A f \in Files : f # Linked /\ f # Absent
<1>1. \A f \in Files : DOMAIN f = {"content", "observation"}
  BY DEF Files
<1>2. DOMAIN Linked = {"linked"} /\ DOMAIN Absent = {"absent"}
  BY DEF Linked, Absent
<1>3. QED
  BY <1>1, <1>2

(* What stands for no storage.                                             *)
LEMMA StorageKinds ==
  /\ Unknown \in States /\ Missing \in States
  /\ NoStorage \in Storages /\ MissingStorage \in Storages
  /\ Unknown.presence = "unknown" /\ Missing.presence = "missing"
  /\ NoStorage.state = Unknown /\ MissingStorage.state = Missing
  /\ \A s \in States : /\ s.presence \in {"unknown", "missing", "present"}
                       /\ s.presence = "present" =>
                            s \in [presence : {"present"}, observation : 0..MaxWrites,
                                   hash : {Hash(b) : b \in Bytes}]
BY BytesFacts DEF States, Storages, NoStorage, MissingStorage, Unknown, Missing

-----------------------------------------------------------------------------
(* What is reached is closed and has the first step.                       *)
LEMMA ReachedFacts ==
  ASSUME NEW nodes, NEW next, NEW x \in nodes, \A u \in nodes : next[u] \subseteq nodes
  PROVE  /\ Reached(nodes, next, x) \subseteq nodes
         /\ next[x] \subseteq Reached(nodes, next, x)
         /\ \A u \in Reached(nodes, next, x) : next[u] \subseteq Reached(nodes, next, x)
BY DEF Reached

(* It is within every closed set that has the first step.                  *)
LEMMA ReachedLeast ==
  ASSUME NEW nodes, NEW next, NEW x, NEW closed \in SUBSET nodes,
         next[x] \subseteq closed, \A u \in closed : next[u] \subseteq closed
  PROVE  Reached(nodes, next, x) \subseteq closed
BY DEF Reached

(* What is reached from something reached is reached.                      *)
LEMMA ReachedOnward ==
  ASSUME NEW nodes, NEW next, NEW x \in nodes, \A u \in nodes : next[u] \subseteq nodes,
         NEW y \in Reached(nodes, next, x)
  PROVE  Reached(nodes, next, y) \subseteq Reached(nodes, next, x)
<1> DEFINE R == Reached(nodes, next, x)
<1>1. R \in SUBSET nodes /\ \A u \in R : next[u] \subseteq R
  BY ReachedFacts
<1>2. next[y] \subseteq R
  BY <1>1
<1> HIDE DEF R
<1>3. QED
  BY <1>1, <1>2, ReachedLeast DEF R

(* What is reached in two steps or more is reached from a child.           *)
LEMMA ReachedByChild ==
  ASSUME NEW nodes, NEW next, NEW x \in nodes, \A u \in nodes : next[u] \subseteq nodes,
         NEW y \in Reached(nodes, next, x), y \notin next[x]
  PROVE  \E c \in next[x] : y \in Reached(nodes, next, c)
<1> DEFINE C == next[x] \cup UNION {Reached(nodes, next, c) : c \in next[x]}
<1>1. C \in SUBSET nodes
  BY ReachedFacts
<1>2. ASSUME NEW u \in C PROVE next[u] \subseteq C
  <2>1. CASE u \in next[x]
    BY <2>1, ReachedFacts
  <2>2. ASSUME NEW c \in next[x], u \in Reached(nodes, next, c) PROVE next[u] \subseteq C
    <3>1. c \in nodes
      OBVIOUS
    <3>2. next[u] \subseteq Reached(nodes, next, c)
      BY <2>2, <3>1, ReachedFacts
    <3>3. QED
      BY <3>2
  <2>3. QED
    BY <2>1, <2>2
<1>3. next[x] \subseteq C
  OBVIOUS
<1>4. Reached(nodes, next, x) \subseteq C
  <2> HIDE DEF C
  <2>1. QED
    BY <1>1, <1>2, <1>3, ReachedLeast
<1>5. QED
  BY <1>4

(* With the edges turned around, the other end reaches back.               *)
LEMMA ReachedReversed ==
  ASSUME NEW nodes, NEW next, NEW back, NEW x \in nodes, NEW y \in nodes,
         \A u \in nodes : next[u] \subseteq nodes,
         \A u \in nodes : back[u] \subseteq nodes,
         \A u, v \in nodes : v \in back[u] <=> u \in next[v],
         y \in Reached(nodes, next, x)
  PROVE  x \in Reached(nodes, back, y)
<1> DEFINE D == Reached(nodes, back, y)
           C == nodes \ (D \cup {y})
<1>1. /\ D \subseteq nodes /\ back[y] \subseteq D
      /\ \A u \in D : back[u] \subseteq D
  BY ReachedFacts
<1>2. ASSUME NEW u \in nodes, u \notin D PROVE next[u] \subseteq C
  <2> HIDE DEF D
  <2>1. ASSUME NEW c \in next[u], c \in D \cup {y} PROVE FALSE
    BY <1>1, <1>2, <2>1
  <2>2. QED
    BY <2>1
<1> HIDE DEF D
<1>3. SUFFICES ASSUME x \notin D PROVE FALSE
  BY DEF D
<1>4. next[x] \subseteq C /\ (\A u \in C : next[u] \subseteq C) /\ C \in SUBSET nodes
  BY <1>2, <1>3
<1> HIDE DEF C
<1>5. Reached(nodes, next, x) \subseteq C
  BY <1>4, ReachedLeast
<1>6. QED
  BY <1>5 DEF C

(* A node without edges, which no edge leads to, closes no cycle.          *)
LEMMA AcyclicGrown ==
  ASSUME NEW M, NEW N, M \subseteq N, NEW old, NEW new,
         \A u \in M : old[u] \subseteq M /\ new[u] = old[u],
         \A u \in N \ M : new[u] = {},
         Acyclic(M, old)
  PROVE  Acyclic(N, new)
<1>1. ASSUME NEW s \in M, s \in Reached(N, new, s) PROVE FALSE
  <2> DEFINE R == Reached(M, old, s)
  <2>1. R \in SUBSET M /\ old[s] \subseteq R /\ \A u \in R : old[u] \subseteq R
    BY ReachedFacts
  <2>2. s \notin R
    BY DEF Acyclic
  <2> HIDE DEF R
  <2>3. R \in SUBSET N /\ new[s] \subseteq R /\ \A u \in R : new[u] \subseteq R
    BY <2>1
  <2>4. Reached(N, new, s) \subseteq R
    BY <2>3, ReachedLeast
  <2>5. QED
    BY <1>1, <2>2, <2>4
<1>2. ASSUME NEW s \in N \ M, s \in Reached(N, new, s) PROVE FALSE
  <2>1. Reached(N, new, s) \subseteq {}
    BY ReachedLeast
  <2>2. QED
    BY <1>2, <2>1
<1>3. QED
  BY <1>1, <1>2 DEF Acyclic

(* A graph without a cycle, of which the edges of some nodes are replaced: *)
(* if none of these is on a cycle, there is none.  An incremental build    *)
(* only searches from the include lists it replaces.                       *)
LEMMA AcyclicReplaced ==
  ASSUME NEW M, NEW N, M \subseteq N, NEW D, D \subseteq N, NEW old, NEW new,
         \A u \in M : old[u] \subseteq M,
         \A u \in N : new[u] \subseteq N,
         \A u \in N \ D : new[u] = IF u \in M THEN old[u] ELSE {},
         Acyclic(M, old),
         \A d \in D : d \notin Reached(N, new, d)
  PROVE  Acyclic(N, new)
<1> SUFFICES ASSUME NEW s \in N, s \in Reached(N, new, s) PROVE FALSE
  BY DEF Acyclic
<1> DEFINE R == Reached(N, new, s)
           T == {x \in N : s \in Reached(N, new, x)}
<1>1. R \in SUBSET N /\ new[s] \subseteq R /\ \A u \in R : new[u] \subseteq R
  BY ReachedFacts
<1>2. ASSUME NEW p \in D, p \in R, p \in T PROVE FALSE
  <2>1. p \in N /\ s \in Reached(N, new, p)
    BY <1>2
  <2>2. R \subseteq Reached(N, new, p)
    BY <2>1, ReachedOnward
  <2>3. QED
    BY <1>2, <2>2
<1>3. s \in R /\ s \in T
  OBVIOUS
<1>4. ASSUME NEW u \in R, u \notin T PROVE new[u] \cap T = {} /\ s \notin new[u]
  <2>1. u \in N
    BY <1>1
  <2>2. s \notin Reached(N, new, u)
    BY <1>4, <2>1
  <2>3. new[u] \subseteq Reached(N, new, u)
    BY <2>1, ReachedFacts
  <2>4. ASSUME NEW c \in new[u], c \in T PROVE FALSE
    <3>1. c \in Reached(N, new, u)
      BY <2>3
    <3>2. Reached(N, new, c) \subseteq Reached(N, new, u)
      BY <2>1, <3>1, ReachedOnward
    <3>3. QED
      BY <2>2, <2>4, <3>2
  <2>5. QED
    BY <2>2, <2>3, <2>4
<1>5. s \in M /\ new[s] = old[s]
  <2>1. s \in N \ D
    BY <1>2, <1>3
  <2>2. CASE s \notin M
    <3>1. new[s] = {}
      BY <2>1, <2>2
    <3>2. Reached(N, new, s) \subseteq {}
      BY <3>1, ReachedLeast
    <3>3. QED
      BY <3>2
  <2>3. QED
    BY <2>1, <2>2
<1> DEFINE O == Reached(M, old, s)
<1>6. O \in SUBSET M /\ old[s] \subseteq O /\ \A u \in O : old[u] \subseteq O
  BY <1>5, ReachedFacts
<1>7. s \notin O
  BY <1>5 DEF Acyclic
<1> DEFINE C == (O \cap R) \cup (R \ T)
<1> HIDE DEF R, T, O
<1>8. C \in SUBSET N
  BY <1>1
<1>9. new[s] \subseteq C
  BY <1>1, <1>5, <1>6
<1>10. ASSUME NEW u \in C PROVE new[u] \subseteq C
  <2>1. CASE u \notin T
    BY <1>1, <1>4, <2>1
  <2>2. CASE u \in T
    <3>1. u \in R /\ u \notin D /\ u \in O /\ u \in N
      BY <1>1, <1>2, <2>2
    <3>2. new[u] = old[u]
      BY <1>6, <3>1
    <3>3. QED
      BY <1>1, <1>6, <3>1, <3>2
  <2>3. QED
    BY <2>1, <2>2
<1>11. R \subseteq C
  <2> HIDE DEF C
  <2>1. QED
    BY <1>8, <1>9, <1>10, ReachedLeast DEF R
<1>12. QED
  BY <1>3, <1>7, <1>11

-----------------------------------------------------------------------------
(* The ids that are committed and those that are added.                    *)
LEMMA CandidateFacts ==
  ASSUME CommittedTyped, UpdateTyped
  PROVE  /\ CandidateSources \in Seq(Paths)
         /\ Len(committed.sources) \in Nat /\ Len(update.added) \in Nat /\ Size \in Nat
         /\ Len(CandidateSources) = Size
         /\ Everywhere = 1..Size
         /\ DOMAIN committed.sources = 1..Len(committed.sources)
         /\ DOMAIN committed.sources \subseteq Everywhere
         /\ \A i \in DOMAIN committed.sources : CandidateSources[i] = committed.sources[i]
         /\ \A k \in 1..Len(update.added) :
              /\ Len(committed.sources) + k \in Everywhere
              /\ CandidateSources[Len(committed.sources) + k] = update.added[k]
         /\ \A i \in Everywhere : PathOf(i) \in Paths
         /\ \A i \in Everywhere :
              i \notin DOMAIN committed.sources =>
                /\ i - Len(committed.sources) \in 1..Len(update.added)
                /\ CandidateSources[i] = update.added[i - Len(committed.sources)]
<1>1. committed.sources \in Seq(Paths) /\ update.added \in Seq(Paths)
  BY DEF CommittedTyped, UpdateTyped
<1> DEFINE a == committed.sources
           b == update.added
<1>2. CandidateSources = a \o b /\ Size = Len(a) + Len(b)
  BY DEF CandidateSources, Size
<1> HIDE DEF a, b
<1>3. a \in Seq(Paths) /\ b \in Seq(Paths)
  BY <1>1 DEF a, b
<1>4. /\ a \o b \in Seq(Paths) /\ Len(a \o b) = Len(a) + Len(b)
      /\ DOMAIN (a \o b) = 1..(Len(a) + Len(b))
      /\ \A i \in 1..Len(a) : (a \o b)[i] = a[i]
      /\ \A k \in 1..Len(b) : (a \o b)[Len(a) + k] = b[k]
      /\ \A i \in 1..(Len(a) + Len(b)) :
           i \notin 1..Len(a) => i - Len(a) \in 1..Len(b) /\ (a \o b)[i] = b[i - Len(a)]
  BY <1>3, ConcatFacts
<1>5. Len(a) \in Nat /\ Len(b) \in Nat /\ Size \in Nat /\ DOMAIN a = 1..Len(a)
  BY <1>2, <1>3
<1>6. \A i \in Everywhere : PathOf(i) \in Paths
  BY <1>2, <1>4 DEF Everywhere, PathOf
<1>7. /\ Everywhere = 1..Size /\ CandidateSources \in Seq(Paths)
      /\ Len(CandidateSources) = Size
      /\ \A i \in 1..Len(a) : CandidateSources[i] = a[i]
      /\ \A k \in 1..Len(b) : CandidateSources[Len(a) + k] = b[k]
      /\ \A i \in Everywhere :
           i \notin 1..Len(a) =>
             i - Len(a) \in 1..Len(b) /\ CandidateSources[i] = b[i - Len(a)]
  BY <1>2, <1>4 DEF Everywhere
<1>8. DOMAIN a \subseteq Everywhere /\ \A k \in 1..Len(b) : Len(a) + k \in Everywhere
  BY <1>2, <1>5, <1>7
<1>9. QED
  BY <1>5, <1>6, <1>7, <1>8 DEF a, b

(* No id is beyond the number of paths.                                    *)
LEMMA EverywhereBound == ASSUME IndInv PROVE Everywhere \subseteq Ids
<1>1. CandidateSources \in Seq(Paths)
  BY CandidateFacts DEF IndInv
<1>2. \A i, j \in DOMAIN CandidateSources : CandidateSources[i] = CandidateSources[j] => i = j
  BY DEF IndInv, IdsInv, Everywhere
<1>3. QED
  BY <1>1, <1>2, SizeBound DEF Everywhere

(* The storage and the state of any id are typed.                          *)
LEMMA StorageTyped ==
  ASSUME CommittedTyped, UpdateTyped, NEW i
  PROVE  /\ CommittedStorage(i) \in Storages
         /\ CommittedStorage(i).state \in States
         /\ CandidateState(i) \in States
<1>1. CommittedStorage(i) \in Storages
  BY StorageKinds DEF CommittedTyped, CommittedStorage
<1>2. \A s \in Storages : s.state \in States
  BY DEF Storages
<1>3. i \in DOMAIN update.delta => update.delta[i].state \in States
  BY DEF UpdateTyped, Partial, DeltaType
<1>4. QED
  BY <1>1, <1>2, <1>3 DEF CandidateState

(* A Source includes Sources there are.                                    *)
LEMMA IncludesTyped ==
  ASSUME IndInv
  PROVE  /\ \A i \in DOMAIN committed.sources :
              committed.includes[i] \subseteq DOMAIN committed.sources
         /\ \A i : CandidateIncludes(i) \subseteq Everywhere
         /\ DOMAIN committed.includes = DOMAIN committed.sources
<1>1. CommittedTyped /\ UpdateTyped
  BY DEF IndInv
<1>2. DOMAIN committed.sources = 1..Len(committed.sources)
      /\ DOMAIN committed.sources \subseteq Everywhere
  BY <1>1, CandidateFacts
<1>3. committed.includes \in [DOMAIN committed.sources -> SUBSET DOMAIN committed.sources]
  BY <1>1, <1>2 DEF CommittedTyped
<1>4. \A i \in DOMAIN update.include_delta : update.include_delta[i] \subseteq Everywhere
  BY DEF IndInv, StatusInv
<1>5. QED
  BY <1>2, <1>3, <1>4 DEF CandidateIncludes

(* What stayed as it was has not changed.                                  *)
LEMMA ClassifySame == \A s : Classify(s, s) = NoChange
BY DEF Classify

(* The empty update and the failed one.                                    *)
LEMMA EmptyFacts ==
  /\ DOMAIN EmptyUpdate = UpdateFields
  /\ EmptyUpdate.status = "closed" /\ EmptyUpdate.added = <<>>
  /\ EmptyUpdate.added_by_path = <<>> /\ EmptyUpdate.roots = {}
  /\ EmptyUpdate.delta = <<>> /\ EmptyUpdate.include_delta = <<>>
  /\ EmptyUpdate.changes = [i \in Ids |-> NoChange]
  /\ ~EmptyUpdate.validated /\ ~EmptyUpdate.g0
  /\ EmptyUpdate.validated \in BOOLEAN /\ EmptyUpdate.g0 \in BOOLEAN
BY DEF EmptyUpdate, UpdateFields

(* The failed update has nothing but the Sources it added.                 *)
LEMMA FailedFacts ==
  /\ DOMAIN Failed = UpdateFields
  /\ Failed.status = "failed" /\ Failed.added = update.added
  /\ Failed.roots = {}
  /\ Failed.delta = <<>> /\ Failed.include_delta = <<>>
  /\ Failed.changes = [i \in Ids |-> NoChange]
  /\ ~Failed.validated /\ ~Failed.g0
  /\ Failed.validated \in BOOLEAN /\ Failed.g0 \in BOOLEAN
BY EmptyFacts DEF Failed, UpdateFields

(* The empty function.                                                     *)
LEMMA NoEntries == DOMAIN <<>> = {}
OBVIOUS

(* Jobs go on or end where nothing changes beneath them.                   *)
LEMMA JobsKept ==
  ASSUME IndInv, UNCHANGED <<disk, writes, committed>>,
         \A i \in Ids : jobs'[i] = jobs[i] \/ jobs'[i] = Idle,
         \A i \in Everywhere : CandidateSources'[i] = CandidateSources[i],
         update'.status = "open" =>
           update.status = "open" /\
           \A i \in Ids : jobs'[i] # Idle => CandidateState(i)' = CandidateState(i)
  PROVE  JobInv'
<1> SUFFICES ASSUME NEW i \in Ids, jobs'[i] = jobs[i], jobs[i] # Idle
             PROVE  (/\ SoundJob(jobs[i], disk[PathOf(i)], writes)
                     /\ jobs[i].committed = CommittedStorage(i).state
                     /\ update.status = "open" => jobs[i].baseline = CandidateState(i))'
  BY DEF JobInv
<1>1. i \in Everywhere
  BY DEF IndInv, StatusInv
<1>2. PathOf(i)' = PathOf(i)
  BY <1>1 DEF PathOf
<1>3. CommittedStorage(i)' = CommittedStorage(i)
  BY DEF CommittedStorage
<1>4. /\ SoundJob(jobs[i], disk[PathOf(i)], writes)
      /\ jobs[i].committed = CommittedStorage(i).state
      /\ update.status = "open" => jobs[i].baseline = CandidateState(i)
  BY DEF IndInv, JobInv
<1>5. SoundJob(jobs[i], disk[PathOf(i)], writes)'
  BY <1>2, <1>4 DEF SoundJob, Sound
<1>6. QED
  BY <1>3, <1>4, <1>5

-----------------------------------------------------------------------------
(* An update that begins, or that is over, is empty.                       *)
LEMMA EmptyInv ==
  ASSUME IndInv, Quiet, UNCHANGED <<instance, disk, writes, committed, jobs>>,
         update' = EmptyUpdate
           \/ /\ update' = [EmptyUpdate EXCEPT !.status = "open",
                                               !.base = committed.generation]
              /\ committed.generation < MaxGeneration
  PROVE  IndInv'
<1>1. /\ DOMAIN update' = UpdateFields
      /\ update'.status \in {"closed", "open"} /\ update'.added = <<>>
      /\ update'.added_by_path = <<>> /\ update'.roots = {}
      /\ update'.delta = <<>> /\ update'.include_delta = <<>>
      /\ update'.changes = [i \in Ids |-> NoChange]
      /\ ~update'.validated /\ ~update'.g0
      /\ update'.validated \in BOOLEAN /\ update'.g0 \in BOOLEAN
      /\ update'.status = "closed" => update' = EmptyUpdate
      /\ update'.status # "closed" => committed.generation < MaxGeneration
  BY EmptyFacts, ZenonT(60) DEF UpdateFields
<1>2. committed.sources \in Seq(Paths)
  BY DEF IndInv, CommittedTyped
<1>3. CandidateSources' = committed.sources /\ Everywhere' = DOMAIN committed.sources
  BY <1>1, <1>2 DEF CandidateSources, Everywhere
<1>4. /\ DOMAIN committed.sources \subseteq Everywhere
      /\ \A i \in DOMAIN committed.sources : CandidateSources[i] = committed.sources[i]
  BY CandidateFacts DEF IndInv
<1>5. \A i \in Everywhere' : PathOf(i)' = PathOf(i)
  BY <1>3, <1>4 DEF PathOf
<1>6. CommittedTyped'
  BY DEF IndInv, CommittedTyped
<1>7. UpdateTyped'
  BY <1>1, NoEntries DEF UpdateTyped, Partial
<1>8. StatusInv'
  BY <1>1, <1>3, NoEntries DEF IndInv, StatusInv, Quiet
<1>9. IdsInv'
  <2>1. \A i, j \in Everywhere' : CandidateSources'[i] = CandidateSources'[j] => i = j
    BY <1>3, <1>4 DEF IndInv, IdsInv
  <2>2. QED
    BY <1>1, <2>1, NoEntries DEF IndInv, IdsInv
<1>10. GraphInv'
  BY <1>1 DEF IndInv, GraphInv, CommittedAcyclic
<1>11. /\ \A i : CommittedStorage(i)' = CommittedStorage(i)
       /\ \A i : CandidateState(i)' = CommittedStorage(i).state
  BY <1>1, NoEntries DEF CommittedStorage, CandidateState
<1>12. StorageInv'
  <2>1. \A i \in Everywhere' : SoundStorage(CommittedStorage(i), disk[PathOf(i)], writes)'
    BY <1>3, <1>4, <1>5, <1>11 DEF IndInv, StorageInv, SoundStorage, Sound
  <2>2. \A i \in Ids : update'.changes[i] = Classify(CommittedStorage(i)'.state, CandidateState(i)')
    BY <1>1, <1>11, ClassifySame
  <2>3. QED
    BY <1>1, <2>1, <2>2, NoEntries DEF StorageInv
<1>13. DiskInv' /\ JobInv'
  BY DEF IndInv, DiskInv, JobInv, Quiet
<1>14. QED
  BY <1>6, <1>7, <1>8, <1>9, <1>10, <1>12, <1>13 DEF IndInv

(* A failed update keeps its Sources and the jobs that are under way.      *)
LEMMA FailedInv ==
  ASSUME IndInv, update' = Failed, UNCHANGED <<instance, disk, writes, committed>>,
         update.status \in {"open", "failed"},
         jobs' \in [Ids -> JobType],
         \A i \in Ids : jobs'[i] = jobs[i] \/ jobs'[i] = Idle
  PROVE  IndInv'
<1>1. CandidateSources' = CandidateSources /\ Everywhere' = Everywhere
  BY FailedFacts DEF CandidateSources, Everywhere
<1>2. \A i : PathOf(i)' = PathOf(i)
  BY <1>1 DEF PathOf
<1>3. CommittedTyped'
  BY DEF IndInv, CommittedTyped
<1>4. UpdateTyped'
  <2>1. Partial(update'.delta, DeltaType) /\ Partial(update'.include_delta, SUBSET Ids)
    BY FailedFacts, NoEntries DEF Partial
  <2>2. update'.added \in Seq(Paths)
    BY FailedFacts DEF IndInv, UpdateTyped
  <2>3. QED
    BY <2>1, <2>2, FailedFacts DEF UpdateTyped
<1>5. StatusInv'
  <2>1. \A i \in Ids : jobs'[i] # Idle => i \in Everywhere'
    BY <1>1 DEF IndInv, StatusInv
  <2>2. committed.generation < MaxGeneration
    BY DEF IndInv, StatusInv
  <2>3. QED
    BY <2>1, <2>2, FailedFacts, NoEntries DEF StatusInv
<1>6. IdsInv'
  BY <1>1, FailedFacts DEF IndInv, IdsInv
<1>7. GraphInv'
  BY FailedFacts DEF IndInv, GraphInv, CommittedAcyclic
<1>8. \A i : CommittedStorage(i)' = CommittedStorage(i)
  BY DEF CommittedStorage
<1>9. StorageInv'
  <2>1. \A i \in Everywhere' : SoundStorage(CommittedStorage(i), disk[PathOf(i)], writes)'
    BY <1>1, <1>2, <1>8 DEF IndInv, StorageInv, SoundStorage, Sound
  <2>2. QED
    BY <2>1, FailedFacts, NoEntries DEF StorageInv
<1>10. DiskInv'
  BY DEF IndInv, DiskInv
<1>11. JobInv'
  BY <1>1, FailedFacts, JobsKept
<1>12. QED
  BY <1>3, <1>4, <1>5, <1>6, <1>7, <1>9, <1>10, <1>11 DEF IndInv

-----------------------------------------------------------------------------
(* One more Source at the end.                                             *)
LEMMA AppendedFacts ==
  ASSUME NEW a \in Seq(Paths), NEW b \in Seq(Paths), NEW p \in Paths
  PROVE  /\ Append(b, p) \in Seq(Paths)
         /\ DOMAIN Append(b, p) = 1..(Len(b) + 1)
         /\ \A k \in 1..Len(b) : Append(b, p)[k] = b[k]
         /\ Append(b, p)[Len(b) + 1] = p
         /\ DOMAIN (a \o Append(b, p)) = DOMAIN (a \o b) \cup {Len(a) + Len(b) + 1}
         /\ \A i \in DOMAIN (a \o b) : (a \o Append(b, p))[i] = (a \o b)[i]
         /\ (a \o Append(b, p))[Len(a) + Len(b) + 1] = p
<1> DEFINE c == Append(b, p)
<1>1. /\ c \in Seq(Paths) /\ Len(c) = Len(b) + 1 /\ DOMAIN c = 1..(Len(b) + 1)
      /\ \A k \in 1..Len(b) : c[k] = b[k]
      /\ c[Len(b) + 1] = p
  BY AppendProperties
<1> HIDE DEF c
<1>2. Len(a) \in Nat /\ Len(b) \in Nat
  OBVIOUS
<1>3. /\ DOMAIN (a \o b) = 1..(Len(a) + Len(b))
      /\ DOMAIN (a \o c) = 1..(Len(a) + Len(b) + 1)
      /\ \A i \in 1..Len(a) : (a \o b)[i] = a[i] /\ (a \o c)[i] = a[i]
      /\ \A k \in 1..Len(b) : (a \o b)[Len(a) + k] = b[k]
      /\ \A k \in 1..(Len(b) + 1) : (a \o c)[Len(a) + k] = c[k]
      /\ \A i \in 1..(Len(a) + Len(b)) :
           i \notin 1..Len(a) => i - Len(a) \in 1..Len(b)
  <2>1. Len(c) = Len(b) + 1
    BY <1>1
  <2>2. Len(a) + Len(c) = Len(a) + Len(b) + 1
    BY <1>2, <2>1
  <2>3. /\ DOMAIN (a \o b) = 1..(Len(a) + Len(b))
        /\ \A i \in 1..Len(a) : (a \o b)[i] = a[i]
        /\ \A k \in 1..Len(b) : (a \o b)[Len(a) + k] = b[k]
        /\ \A i \in 1..(Len(a) + Len(b)) :
             i \notin 1..Len(a) => i - Len(a) \in 1..Len(b)
    BY ConcatFacts
  <2>4. /\ DOMAIN (a \o c) = 1..(Len(a) + Len(c))
        /\ \A i \in 1..Len(a) : (a \o c)[i] = a[i]
        /\ \A k \in 1..Len(c) : (a \o c)[Len(a) + k] = c[k]
    BY <1>1, ConcatFacts
  <2>5. QED
    BY <2>1, <2>2, <2>3, <2>4
<1>4. ASSUME NEW i \in DOMAIN (a \o b) PROVE (a \o c)[i] = (a \o b)[i]
  <2>1. CASE i \in 1..Len(a)
    BY <1>3, <2>1
  <2>2. CASE i \notin 1..Len(a)
    <3> DEFINE k == i - Len(a)
    <3>1. k \in 1..Len(b) /\ i = Len(a) + k
      BY <1>2, <1>3, <2>2
    <3> HIDE DEF k
    <3>2. k \in 1..(Len(b) + 1)
      BY <1>2, <3>1
    <3>3. QED
      BY <1>1, <1>3, <3>1, <3>2
  <2>3. QED
    BY <2>1, <2>2
<1>5. DOMAIN (a \o c) = DOMAIN (a \o b) \cup {Len(a) + Len(b) + 1}
  <2> DEFINE n == Len(a) + Len(b)
  <2>1. n \in Nat
    BY <1>2
  <2>2. DOMAIN (a \o b) = 1..n /\ DOMAIN (a \o c) = 1..(n + 1)
    BY <1>3
  <2> HIDE DEF n
  <2>3. 1..(n + 1) = (1..n) \cup {n + 1}
    BY <2>1
  <2>4. QED
    BY <2>2, <2>3 DEF n
<1>6. (a \o c)[Len(a) + Len(b) + 1] = p
  <2>1. Len(b) + 1 \in 1..(Len(b) + 1) /\ Len(a) + (Len(b) + 1) = Len(a) + Len(b) + 1
    BY <1>2
  <2>2. QED
    BY <1>1, <1>3, <2>1
<1>7. QED
  BY <1>1, <1>4, <1>5, <1>6 DEF c

(* The same for the Sources of an update.                                  *)
LEMMA GrownFacts ==
  ASSUME CommittedTyped, UpdateTyped, NEW p \in Paths,
         committed' = committed, update'.added = Append(update.added, p)
  PROVE  /\ update'.added \in Seq(Paths)
         /\ DOMAIN update'.added = 1..(Len(update.added) + 1)
         /\ \A k \in 1..Len(update.added) : update'.added[k] = update.added[k]
         /\ update'.added[Len(update.added) + 1] = p
         /\ Everywhere' = Everywhere \cup {Size + 1}
         /\ \A i \in Everywhere : CandidateSources'[i] = CandidateSources[i]
         /\ CandidateSources'[Size + 1] = p
         /\ Len(committed.sources) + (Len(update.added) + 1) = Size + 1
<1> DEFINE a == committed.sources
           b == update.added
<1>1. a \in Seq(Paths) /\ b \in Seq(Paths)
  BY DEF CommittedTyped, UpdateTyped
<1>2. /\ CandidateSources = a \o b /\ CandidateSources' = a \o Append(b, p)
      /\ Size = Len(a) + Len(b) /\ update'.added = Append(b, p)
  BY DEF CandidateSources, Size
<1> HIDE DEF a, b
<1>3. Len(a) + (Len(b) + 1) = Size + 1
  BY <1>1, <1>2
<1>4. /\ Append(b, p) \in Seq(Paths)
      /\ DOMAIN Append(b, p) = 1..(Len(b) + 1)
      /\ \A k \in 1..Len(b) : Append(b, p)[k] = b[k]
      /\ Append(b, p)[Len(b) + 1] = p
      /\ DOMAIN (a \o Append(b, p)) = DOMAIN (a \o b) \cup {Len(a) + Len(b) + 1}
      /\ \A i \in DOMAIN (a \o b) : (a \o Append(b, p))[i] = (a \o b)[i]
      /\ (a \o Append(b, p))[Len(a) + Len(b) + 1] = p
  BY <1>1, AppendedFacts
<1>5. QED
  BY <1>2, <1>3, <1>4 DEF Everywhere, a, b

(* A path that has an id has one of those there are.                       *)
LEMMA KnownId ==
  ASSUME IndInv, Open, NEW p, Known(p)
  PROVE  IdOf(p) \in Everywhere
<1>1. CommittedTyped /\ UpdateTyped
  BY DEF IndInv
<1>2. /\ DOMAIN committed.sources \subseteq Everywhere
      /\ \A k \in 1..Len(update.added) : Len(committed.sources) + k \in Everywhere
  BY <1>1, CandidateFacts
<1>3. ASSUME p \in DOMAIN committed.by_path
      PROVE  committed.by_path[p] \in Everywhere
  <2>1. PICK i \in DOMAIN committed.sources : committed.sources[i] = p
    BY <1>3 DEF IndInv, IdsInv
  <2>2. committed.by_path[p] = i
    BY <2>1 DEF IndInv, IdsInv
  <2>3. QED
    BY <1>2, <2>1, <2>2
<1>4. ASSUME p \in DOMAIN update.added_by_path
      PROVE  update.added_by_path[p] \in Everywhere
  <2>1. PICK k \in DOMAIN update.added : update.added[k] = p
    BY <1>4 DEF IndInv, IdsInv, Open
  <2>2. update.added_by_path[p] = Len(committed.sources) + k
    BY <2>1 DEF IndInv, IdsInv, Open
  <2>3. update.added \in Seq(Paths)
    BY <1>1 DEF UpdateTyped
  <2>4. k \in 1..Len(update.added)
    BY <2>1, <2>3
  <2>5. QED
    BY <1>2, <2>2, <2>4
<1>5. QED
  BY <1>3, <1>4 DEF IdOf, Known

(* The update is told of a path, as a root or not.                         *)
Resolved(p) ==
  \/ update' = Resolve(p)
  \/ update' = [Resolve(p) EXCEPT !.roots = @ \cup {IdOf(p)}, !.roots_changed = TRUE]

(* The update with one more Source, or another root.                       *)
LEMMA ResolveFacts ==
  ASSUME IndInv, Open, NEW p \in Paths,
         Resolved(p)
  PROVE  /\ DOMAIN update' = UpdateFields /\ update'.status = "open"
         /\ update'.roots \subseteq update.roots \cup {IdOf(p)}
         /\ update'.delta = update.delta /\ update'.include_delta = update.include_delta
         /\ update'.changes = update.changes
         /\ update'.validated = update.validated /\ update'.g0 = update.g0
         /\ Known(p) => /\ update'.added = update.added
                        /\ update'.added_by_path = update.added_by_path
         /\ ~Known(p) => /\ update'.added = Append(update.added, p)
                         /\ update'.added_by_path =
                              Extend(update.added_by_path, p, IdOf(p))
<1>1. DOMAIN update = UpdateFields /\ update.status = "open"
  BY DEF IndInv, UpdateTyped, Open
<1> DEFINE r == Resolve(p)
<1>2. /\ DOMAIN r = UpdateFields /\ r.status = "open" /\ r.roots = update.roots
      /\ r.delta = update.delta /\ r.include_delta = update.include_delta
      /\ r.changes = update.changes
      /\ r.validated = update.validated /\ r.g0 = update.g0
      /\ Known(p) => r.added = update.added /\ r.added_by_path = update.added_by_path
      /\ ~Known(p) => /\ r.added = Append(update.added, p)
                      /\ r.added_by_path = Extend(update.added_by_path, p, IdOf(p))
  BY <1>1 DEF Resolve, UpdateFields
<1> HIDE DEF r
<1>3. update' = r \/ update' = [r EXCEPT !.roots = @ \cup {IdOf(p)},
                                         !.roots_changed = TRUE]
  BY DEF r, Resolved
<1>4. QED
  BY <1>2, <1>3, ZenonT(60) DEF UpdateFields

(* A path that is added gets the next id, and its Source has neither bytes *)
(* nor includes.                                                           *)
LEMMA AddedInv ==
  ASSUME IndInv, Open, Quiet, NEW p \in Paths,
         UNCHANGED <<instance, disk, writes, committed, jobs>>,
         Resolved(p)
  PROVE  IndInv'
<1> DEFINE grown == IF Known(p) THEN {} ELSE {Size + 1}
<1>1. /\ DOMAIN update' = UpdateFields /\ update'.status = "open"
      /\ update'.roots \subseteq update.roots \cup {IdOf(p)}
      /\ update'.delta = update.delta /\ update'.include_delta = update.include_delta
      /\ update'.changes = update.changes
      /\ update'.validated = update.validated /\ update'.g0 = update.g0
      /\ Known(p) => /\ update'.added = update.added
                     /\ update'.added_by_path = update.added_by_path
      /\ ~Known(p) => /\ update'.added = Append(update.added, p)
                      /\ update'.added_by_path =
                           Extend(update.added_by_path, p, IdOf(p))
  BY ResolveFacts
<1>2. /\ committed.sources \in Seq(Paths) /\ update.added \in Seq(Paths)
      /\ CommittedTyped /\ UpdateTyped
  BY DEF IndInv, CommittedTyped, UpdateTyped
<1>3. /\ Everywhere = 1..Size /\ Size \in Nat
      /\ DOMAIN committed.sources \subseteq Everywhere
      /\ DOMAIN committed.sources = 1..Len(committed.sources)
      /\ Len(committed.sources) \in Nat /\ Len(update.added) \in Nat
      /\ DOMAIN update.added = 1..Len(update.added)
  <2>1. DOMAIN update.added = 1..Len(update.added)
    BY <1>2
  <2>2. QED
    BY <1>2, <2>1, CandidateFacts
<1>4. Size + 1 \notin Everywhere /\ Size + 1 \notin DOMAIN committed.sources
  <2>1. Size + 1 \notin Everywhere
    BY <1>3
  <2>2. QED
    BY <1>3, <2>1
<1>5. /\ update'.added \in Seq(Paths)
      /\ Everywhere' = Everywhere \cup grown
      /\ \A i \in Everywhere : CandidateSources'[i] = CandidateSources[i]
      /\ ~Known(p) => CandidateSources'[Size + 1] = p
  <2>1. CASE Known(p)
    BY <1>1, <1>2, <2>1 DEF Everywhere, CandidateSources
  <2>2. CASE ~Known(p)
    <3>1. /\ update'.added \in Seq(Paths)
          /\ Everywhere' = Everywhere \cup {Size + 1}
          /\ \A i \in Everywhere : CandidateSources'[i] = CandidateSources[i]
          /\ CandidateSources'[Size + 1] = p
      BY <1>1, <1>2, <2>2, GrownFacts
    <3>2. QED
      BY <2>2, <3>1
  <2>3. QED
    BY <2>1, <2>2
<1>6. \A i \in Everywhere : PathOf(i)' = PathOf(i)
  BY <1>5 DEF PathOf
<1>7. CommittedTyped'
  BY <1>2 DEF CommittedTyped
<1>8. UpdateTyped'
  BY <1>1, <1>2, <1>5 DEF UpdateTyped, Partial
<1>9. IdOf(p) \in Everywhere'
  <2>1. CASE Known(p)
    BY <1>5, <2>1, KnownId
  <2>2. CASE ~Known(p)
    BY <1>5, <2>2 DEF IdOf, Known, Size
  <2>3. QED
    BY <2>1, <2>2
<1>10. StatusInv'
  <2>1. update'.roots \subseteq Everywhere'
    BY <1>1, <1>5, <1>9 DEF IndInv, StatusInv
  <2>2. QED
    BY <1>1, <1>5, <2>1 DEF IndInv, StatusInv, Quiet, Open
<1>11. \A i : CommittedStorage(i)' = CommittedStorage(i)
              /\ CandidateState(i)' = CandidateState(i)
              /\ CandidateIncludes(i)' = CandidateIncludes(i)
  BY <1>1 DEF CommittedStorage, CandidateState, CandidateIncludes
<1>12. CommittedStorage(Size + 1) = NoStorage /\ CandidateIncludes(Size + 1) = {}
  <2>1. /\ DOMAIN committed.physical = DOMAIN committed.sources
        /\ DOMAIN committed.includes = DOMAIN committed.sources
    BY <1>2, <1>3 DEF CommittedTyped
  <2>2. Size + 1 \notin DOMAIN update.include_delta
    BY <1>4 DEF IndInv, StatusInv
  <2>3. QED
    BY <1>4, <2>1, <2>2 DEF CommittedStorage, CandidateIncludes
<1>13. StorageInv'
  <2>1. ASSUME NEW i \in Everywhere'
        PROVE  SoundStorage(CommittedStorage(i), disk[PathOf(i)], writes)'
    <3>1. CASE i \in Everywhere
      BY <1>6, <1>11, <3>1 DEF IndInv, StorageInv, SoundStorage, Sound
    <3>2. CASE i = Size + 1
      <4>1. CommittedStorage(i)'.state.presence = "unknown"
        BY <1>11, <1>12, <3>2, StorageKinds
      <4>2. QED
        BY <4>1 DEF SoundStorage
    <3>3. QED
      BY <1>5, <3>1, <3>2
  <2>2. ASSUME NEW i \in DOMAIN update'.delta
        PROVE  SoundDelta(update.delta[i], CommittedStorage(i), disk[PathOf(i)], writes)'
    <3>1. i \in DOMAIN update.delta /\ i \in Everywhere
      BY <1>1 DEF IndInv, StatusInv
    <3>2. SoundDelta(update.delta[i], CommittedStorage(i), disk[PathOf(i)], writes)
      BY <3>1 DEF IndInv, StorageInv
    <3>3. PathOf(i)' = PathOf(i) /\ CommittedStorage(i)' = CommittedStorage(i)
          /\ update'.delta[i] = update.delta[i]
      BY <1>1, <1>6, <1>11, <3>1
    <3>4. QED
      BY <3>2, <3>3 DEF SoundDelta, SoundStorage, Sound
  <2>3. QED
    BY <1>1, <1>11, <2>1, <2>2 DEF IndInv, StorageInv, Open
<1>14. DiskInv' /\ JobInv'
  BY DEF IndInv, DiskInv, JobInv, Quiet
<1>15. ~Known(p) => /\ p \notin DOMAIN update.added_by_path
                    /\ p \notin DOMAIN committed.by_path
                    /\ IdOf(p) = Size + 1
                    /\ \A i \in Everywhere : CandidateSources[i] # p
  <2> SUFFICES ASSUME ~Known(p)
               PROVE  /\ p \notin DOMAIN update.added_by_path
                      /\ p \notin DOMAIN committed.by_path
                      /\ IdOf(p) = Size + 1
                      /\ \A i \in Everywhere : CandidateSources[i] # p
    OBVIOUS
  <2>1. p \notin DOMAIN update.added_by_path /\ p \notin DOMAIN committed.by_path
    BY DEF Known
  <2>2. ASSUME NEW i \in Everywhere PROVE CandidateSources[i] # p
    <3>1. CASE i \in DOMAIN committed.sources
      <4>1. CandidateSources[i] = committed.sources[i]
        BY <1>2, <3>1, CandidateFacts
      <4>2. committed.sources[i] \in DOMAIN committed.by_path
        BY <3>1 DEF IndInv, IdsInv
      <4>3. QED
        BY <2>1, <4>1, <4>2
    <3>2. CASE i \notin DOMAIN committed.sources
      <4>1. i - Len(committed.sources) \in 1..Len(update.added)
            /\ CandidateSources[i] = update.added[i - Len(committed.sources)]
        BY <1>2, <3>2, CandidateFacts
      <4>2. QED
        BY <1>3, <2>1, <4>1, SMTT(40) DEF IndInv, IdsInv, Open
    <3>3. QED
      BY <3>1, <3>2
  <2>3. QED
    BY <2>1, <2>2 DEF IdOf, Size
<1>16. IdsInv'
  <2>1. ASSUME NEW i \in Everywhere', NEW j \in Everywhere',
               CandidateSources'[i] = CandidateSources'[j]
        PROVE  i = j
    BY <1>5, <1>15, <2>1 DEF IndInv, IdsInv
  <2>2. CASE Known(p)
    BY <1>1, <2>1, <2>2 DEF IndInv, IdsInv, Open
  <2>3. CASE ~Known(p)
    <3> DEFINE m == Len(update.added) + 1
               known == update'.added_by_path
    <3>1. /\ DOMAIN update'.added = 1..m
          /\ \A k \in 1..Len(update.added) : update'.added[k] = update.added[k]
          /\ update'.added[m] = p /\ Len(committed.sources) + m = Size + 1
      BY <1>1, <1>2, <2>3, GrownFacts
    <3>2. /\ DOMAIN known = DOMAIN update.added_by_path \cup {p}
          /\ \A q \in DOMAIN update.added_by_path : known[q] = update.added_by_path[q]
          /\ known[p] = Len(committed.sources) + m
      <4>1. known = Extend(update.added_by_path, p, Size + 1)
        <5>1. known = Extend(update.added_by_path, p, IdOf(p)) /\ IdOf(p) = Size + 1
          BY <1>1, <1>15, <2>3
        <5>2. QED
          BY <5>1
      <4>2. Size + 1 = Len(committed.sources) + m
        BY <3>1
      <4>3. QED
        BY <1>15, <2>3, <4>1, <4>2 DEF Extend
    <3>3. \A k \in 1..m : k \in 1..Len(update.added) \/ k = m
      BY <1>3
    <3>4. 1..Len(update.added) \subseteq 1..m /\ m \in 1..m
      BY <1>3
    <3> HIDE DEF m, known
    <3>5. ASSUME NEW k \in DOMAIN update'.added
          PROVE  /\ update'.added[k] \in DOMAIN known
                 /\ known[update'.added[k]] = Len(committed.sources) + k
      <4>1. CASE k \in 1..Len(update.added)
        BY <1>3, <3>1, <3>2, <4>1, ZenonT(60) DEF IndInv, IdsInv, Open
      <4>2. CASE k = m
        BY <3>1, <3>2, <4>2
      <4>3. QED
        BY <3>1, <3>3, <4>1, <4>2
    <3>6. ASSUME NEW q \in DOMAIN known
          PROVE  \E k \in DOMAIN update'.added : update'.added[k] = q
      <4>1. CASE q = p
        BY <3>1, <3>4, <4>1
      <4>2. CASE q \in DOMAIN update.added_by_path
        <5>1. PICK k \in DOMAIN update.added : update.added[k] = q
          BY <4>2 DEF IndInv, IdsInv, Open
        <5>2. QED
          BY <1>3, <3>1, <3>4, <5>1
      <4>3. QED
        BY <3>2, <4>1, <4>2
    <3>7. QED
      BY <2>1, <3>5, <3>6 DEF IndInv, IdsInv, known
  <2>4. QED
    BY <2>2, <2>3
<1>17. GraphInv'
  <2>1. ASSUME update.validated
        PROVE  Acyclic(Everywhere, [i \in Everywhere |-> CandidateIncludes(i)])'
    <3> DEFINE old == [i \in Everywhere |-> CandidateIncludes(i)]
               new == [i \in Everywhere' |-> CandidateIncludes(i)']
    <3>1. Acyclic(Everywhere, old)
      BY <2>1 DEF IndInv, GraphInv
    <3>2. \A u \in Everywhere : old[u] \subseteq Everywhere /\ new[u] = old[u]
      BY <1>5, <1>11, IncludesTyped
    <3>3. \A u \in Everywhere' \ Everywhere : new[u] = {}
      BY <1>5, <1>11, <1>12
    <3>4. Everywhere \subseteq Everywhere'
      BY <1>5
    <3> HIDE DEF old, new
    <3>5. Acyclic(Everywhere', new)
      BY <3>1, <3>2, <3>3, <3>4, AcyclicGrown
    <3>6. QED
      BY <3>5 DEF new, Acyclic
  <2>2. QED
    BY <1>1, <2>1 DEF IndInv, GraphInv, CommittedAcyclic
<1>18. QED
  BY <1>1, <1>7, <1>8, <1>10, <1>13, <1>14, <1>16, <1>17 DEF IndInv

-----------------------------------------------------------------------------
(* Steps that keep the Sources of the update and what is stored of them.   *)
LEMMA StorageKept ==
  ASSUME IndInv, Open, Quiet, UNCHANGED <<instance, disk, writes, committed, jobs>>,
         update'.added = update.added, update'.added_by_path = update.added_by_path,
         update'.delta = update.delta, update'.changes = update.changes
  PROVE  /\ CommittedTyped' /\ IdsInv' /\ StorageInv' /\ DiskInv' /\ JobInv'
         /\ Everywhere' = Everywhere
<1>1. CandidateSources' = CandidateSources /\ Everywhere' = Everywhere
  BY DEF CandidateSources, Everywhere
<1>2. \A i : PathOf(i)' = PathOf(i)
  BY <1>1 DEF PathOf
<1>3. \A i : CommittedStorage(i)' = CommittedStorage(i)
             /\ CandidateState(i)' = CandidateState(i)
  BY DEF CommittedStorage, CandidateState
<1>4. CommittedTyped' /\ DiskInv'
  BY DEF IndInv, CommittedTyped, DiskInv
<1>5. IdsInv'
  BY <1>1 DEF IndInv, IdsInv, Open
<1>6. StorageInv'
  <2>1. ASSUME NEW i \in Everywhere'
        PROVE  SoundStorage(CommittedStorage(i), disk[PathOf(i)], writes)'
    BY <1>1, <1>2, <1>3 DEF IndInv, StorageInv, SoundStorage, Sound
  <2>2. ASSUME NEW i \in DOMAIN update'.delta
        PROVE  SoundDelta(update.delta[i], CommittedStorage(i), disk[PathOf(i)], writes)'
    <3>1. SoundDelta(update.delta[i], CommittedStorage(i), disk[PathOf(i)], writes)
      BY DEF IndInv, StorageInv
    <3>2. QED
      BY <1>2, <1>3, <3>1 DEF SoundDelta, SoundStorage, Sound
  <2>3. QED
    BY <1>3, <2>1, <2>2 DEF IndInv, StorageInv, Open
<1>7. JobInv'
  BY DEF JobInv, Quiet
<1>8. QED
  BY <1>1, <1>4, <1>5, <1>6, <1>7

(* A replaced include list is valid only after the next search.            *)
LEMMA SetIncludesInv ==
  ASSUME IndInv, Open, Quiet, NEW id \in Everywhere, NEW included \in SUBSET Everywhere,
         UNCHANGED <<instance, disk, writes, committed, jobs>>,
         update' = [update EXCEPT !.include_delta = Extend(@, id, included),
                                  !.validated = FALSE]
  PROVE  IndInv'
<1>1. /\ DOMAIN update = UpdateFields /\ update.status = "open"
      /\ CommittedTyped /\ UpdateTyped
  BY DEF IndInv, UpdateTyped, Open
<1>2. /\ DOMAIN update' = UpdateFields /\ update'.status = "open"
      /\ update'.roots = update.roots
      /\ update'.added = update.added /\ update'.added_by_path = update.added_by_path
      /\ update'.delta = update.delta /\ update'.changes = update.changes
      /\ update'.include_delta = Extend(update.include_delta, id, included)
      /\ ~update'.validated /\ update'.validated \in BOOLEAN
      /\ update'.g0 = update.g0
  BY <1>1 DEF UpdateFields
<1>3. /\ CommittedTyped' /\ IdsInv' /\ StorageInv' /\ DiskInv' /\ JobInv'
      /\ Everywhere' = Everywhere
  BY <1>2, StorageKept
<1>4. Everywhere \subseteq Ids
  BY EverywhereBound
<1>5. /\ DOMAIN update'.include_delta = DOMAIN update.include_delta \cup {id}
      /\ \A i \in DOMAIN update'.include_delta :
           \/ update'.include_delta[i] = included
           \/ /\ i \in DOMAIN update.include_delta
              /\ update'.include_delta[i] = update.include_delta[i]
  BY <1>2 DEF Extend
<1>6. UpdateTyped'
  <2>1. Partial(update'.include_delta, SUBSET Ids)
    BY <1>1, <1>4, <1>5 DEF UpdateTyped, Partial
  <2>2. QED
    BY <1>1, <1>2, <2>1 DEF UpdateTyped
<1>7. StatusInv'
  <2>1. /\ DOMAIN update'.include_delta \subseteq Everywhere'
        /\ \A i \in DOMAIN update'.include_delta :
             update'.include_delta[i] \subseteq Everywhere'
    BY <1>3, <1>5 DEF IndInv, StatusInv
  <2>2. QED
    BY <1>1, <1>2, <1>3, <2>1 DEF IndInv, StatusInv, Quiet
<1>8. GraphInv'
  BY <1>2 DEF IndInv, GraphInv, CommittedAcyclic
<1>9. QED
  BY <1>3, <1>6, <1>7, <1>8 DEF IndInv

(* The search finds every cycle, although an incremental build only looks  *)
(* from the include lists it replaces.                                     *)
LEMMA SearchComplete ==
  ASSUME IndInv, ~CycleFound
  PROVE  Acyclic(Everywhere, [i \in Everywhere |-> CandidateIncludes(i)])
<1> DEFINE new == [i \in Everywhere |-> CandidateIncludes(i)]
           D == IF committed.sources = <<>> THEN Everywhere
                ELSE DOMAIN update.include_delta
<1>1. D \subseteq Everywhere
  BY DEF IndInv, StatusInv
<1>2. \A u \in Everywhere : new[u] \subseteq Everywhere /\ new[u] = CandidateIncludes(u)
  BY IncludesTyped
<1>3. \A d \in D : \A c \in new[d] : c # d /\ d \notin Reached(Everywhere, new, c)
  BY DEF CycleFound, Everywhere
<1>4. /\ \A u \in DOMAIN committed.sources :
           committed.includes[u] \subseteq DOMAIN committed.sources
      /\ DOMAIN committed.includes = DOMAIN committed.sources
      /\ DOMAIN committed.sources \subseteq Everywhere
      /\ Acyclic(DOMAIN committed.sources, committed.includes)
  <2>1. CommittedTyped /\ UpdateTyped /\ CommittedAcyclic
    BY DEF IndInv, GraphInv
  <2>2. QED
    BY <2>1, IncludesTyped, CandidateFacts DEF Acyclic, CommittedAcyclic
<1>5. committed.sources # <<>> =>
        \A u \in Everywhere \ D : new[u] = IF u \in DOMAIN committed.sources
                                           THEN committed.includes[u] ELSE {}
  BY <1>2, <1>4 DEF CandidateIncludes
<1> HIDE DEF new
<1>6. ASSUME NEW d \in D PROVE d \notin Reached(Everywhere, new, d)
  <2> HIDE DEF D
  <2>1. SUFFICES ASSUME d \in Reached(Everywhere, new, d) PROVE FALSE
    OBVIOUS
  <2>2. d \in Everywhere /\ d \notin new[d]
    BY <1>1, <1>3
  <2>3. PICK c \in new[d] : d \in Reached(Everywhere, new, c)
    BY <1>2, <2>1, <2>2, ReachedByChild
  <2>4. QED
    BY <1>3, <2>3
<1>7. CASE committed.sources = <<>>
  BY <1>6, <1>7 DEF Acyclic, new
<1>8. CASE committed.sources # <<>>
  <2> DEFINE M == DOMAIN committed.sources
             old == committed.includes
  <2>1. /\ M \subseteq Everywhere /\ (\A u \in M : old[u] \subseteq M) /\ Acyclic(M, old)
        /\ \A u \in Everywhere \ D : new[u] = IF u \in M THEN old[u] ELSE {}
    BY <1>4, <1>5, <1>8
  <2>2. \A u \in Everywhere : new[u] \subseteq Everywhere
    BY <1>2
  <2> HIDE DEF M, old, D
  <2>3. Acyclic(Everywhere, new)
    BY <1>1, <1>6, <2>1, <2>2, AcyclicReplaced
  <2>4. QED
    BY <2>3 DEF new
<1>9. QED
  BY <1>7, <1>8

(* A candidate that was searched has no cycle.                             *)
LEMMA ValidatedInv ==
  ASSUME IndInv, Open, Quiet, ~CycleFound,
         UNCHANGED <<instance, disk, writes, committed, jobs>>,
         update' = [update EXCEPT !.validated = TRUE]
  PROVE  IndInv'
<1>1. /\ DOMAIN update = UpdateFields /\ update.status = "open" /\ UpdateTyped
  BY DEF IndInv, UpdateTyped, Open
<1>2. /\ DOMAIN update' = UpdateFields /\ update'.status = "open"
      /\ update'.roots = update.roots
      /\ update'.added = update.added /\ update'.added_by_path = update.added_by_path
      /\ update'.delta = update.delta /\ update'.changes = update.changes
      /\ update'.include_delta = update.include_delta
      /\ update'.validated \in BOOLEAN /\ update'.g0 = update.g0
  BY <1>1 DEF UpdateFields
<1>3. /\ CommittedTyped' /\ IdsInv' /\ StorageInv' /\ DiskInv' /\ JobInv'
      /\ Everywhere' = Everywhere
  BY <1>2, StorageKept
<1>4. UpdateTyped'
  BY <1>1, <1>2 DEF UpdateTyped
<1>5. StatusInv'
  BY <1>1, <1>2, <1>3 DEF IndInv, StatusInv, Quiet
<1>6. \A i : CandidateIncludes(i)' = CandidateIncludes(i)
  BY <1>2 DEF CandidateIncludes
<1>7. Acyclic(Everywhere, [i \in Everywhere |-> CandidateIncludes(i)])'
  <2>1. [i \in Everywhere |-> CandidateIncludes(i)]' = [i \in Everywhere |-> CandidateIncludes(i)]
    BY <1>3, <1>6
  <2>2. QED
    BY <1>3, <2>1, SearchComplete DEF Acyclic
<1>8. GraphInv'
  BY <1>2, <1>7 DEF IndInv, GraphInv, CommittedAcyclic
<1>9. QED
  BY <1>3, <1>4, <1>5, <1>8 DEF IndInv

(* What is prepared was searched, and has its reverse edges ready.         *)
LEMMA PreparedInv ==
  ASSUME IndInv, Open, Quiet, update.validated,
         UNCHANGED <<instance, disk, writes, committed, jobs>>,
         \/ /\ committed.sources = <<>>
            /\ update' = [update EXCEPT !.status = "prepared", !.g0 = TRUE,
                                        !.dependents = ReversedIncludes]
         \/ /\ committed.sources # <<>>
            /\ update' = [update EXCEPT !.status = "prepared",
                                        !.dependents = CorrectedDependents]
  PROVE  IndInv'
<1>1. /\ DOMAIN update = UpdateFields /\ update.status = "open" /\ UpdateTyped
      /\ ~update.g0
  BY DEF IndInv, UpdateTyped, StatusInv, Open
<1>2. /\ DOMAIN update' = UpdateFields /\ update'.status = "prepared"
      /\ update'.roots = update.roots
      /\ update'.added = update.added /\ update'.added_by_path = update.added_by_path
      /\ update'.delta = update.delta /\ update'.changes = update.changes
      /\ update'.include_delta = update.include_delta
      /\ update'.validated = update.validated /\ update'.g0 \in BOOLEAN
      /\ update'.g0 <=> committed.sources = <<>>
      /\ update'.dependents = IF update'.g0 THEN ReversedIncludes ELSE CorrectedDependents
  <2>1. CASE /\ committed.sources = <<>>
             /\ update' = [update EXCEPT !.status = "prepared", !.g0 = TRUE,
                                         !.dependents = ReversedIncludes]
    <3>1. update'.g0 = TRUE /\ update'.dependents = ReversedIncludes
      BY <1>1, <2>1 DEF UpdateFields
    <3>2. QED
      BY <1>1, <2>1, <3>1 DEF UpdateFields
  <2>2. CASE /\ committed.sources # <<>>
             /\ update' = [update EXCEPT !.status = "prepared",
                                         !.dependents = CorrectedDependents]
    <3>1. update'.g0 = update.g0 /\ update'.dependents = CorrectedDependents
      BY <1>1, <2>2 DEF UpdateFields
    <3>2. ~update'.g0 /\ update'.g0 \in BOOLEAN
      BY <1>1, <3>1 DEF UpdateTyped
    <3>3. /\ DOMAIN update' = UpdateFields /\ update'.status = "prepared"
          /\ update'.roots = update.roots
          /\ update'.added = update.added /\ update'.added_by_path = update.added_by_path
          /\ update'.delta = update.delta /\ update'.changes = update.changes
          /\ update'.include_delta = update.include_delta
          /\ update'.validated = update.validated
      BY <1>1, <2>2 DEF UpdateFields
    <3>4. QED
      BY <2>2, <3>1, <3>2, <3>3
  <2>3. QED
    BY <2>1, <2>2
<1>3. /\ CommittedTyped' /\ IdsInv' /\ StorageInv' /\ DiskInv' /\ JobInv'
      /\ Everywhere' = Everywhere
  BY <1>2, StorageKept
<1>4. UpdateTyped'
  BY <1>1, <1>2 DEF UpdateTyped
<1>5. StatusInv'
  BY <1>1, <1>2, <1>3 DEF IndInv, StatusInv, Quiet
<1>6. \A i : CandidateIncludes(i)' = CandidateIncludes(i)
  BY <1>2 DEF CandidateIncludes
<1>7. Acyclic(Everywhere, [i \in Everywhere |-> CandidateIncludes(i)])'
  <2>1. [i \in Everywhere |-> CandidateIncludes(i)]' = [i \in Everywhere |-> CandidateIncludes(i)]
    BY <1>3, <1>6
  <2>2. QED
    BY <1>3, <2>1 DEF IndInv, GraphInv, Acyclic
<1>8. ReversedIncludes' = ReversedIncludes /\ CorrectedDependents' = CorrectedDependents
  <2>1. ReversedIncludes' = ReversedIncludes
    BY <1>2, <1>6 DEF ReversedIncludes
  <2>2. CorrectedDependents' = CorrectedDependents
    BY <1>2 DEF CorrectedDependents, CandidateSources
  <2>3. QED
    BY <2>1, <2>2
<1>9. GraphInv'
  BY <1>2, <1>7, <1>8 DEF IndInv, GraphInv, CommittedAcyclic
<1>10. QED
  BY <1>3, <1>4, <1>5, <1>9 DEF IndInv

-----------------------------------------------------------------------------
(* The reverse edges of a first build.                                     *)
LEMMA ReversedFacts ==
  ASSUME IndInv, committed.sources = <<>>
  PROVE  /\ Everywhere = DOMAIN update.added /\ CandidateSources = update.added
         /\ DOMAIN ReversedIncludes = Everywhere
         /\ \A c \in Everywhere :
              ReversedIncludes[c] = {p \in Everywhere : c \in CandidateIncludes(p)}
<1>1. update.added \in Seq(Paths)
  BY DEF IndInv, UpdateTyped
<1>2. CandidateSources = update.added
  BY <1>1 DEF CandidateSources
<1>3. QED
  BY <1>2 DEF ReversedIncludes, Everywhere

(* The reverse edges of an incremental build: the committed ones, without  *)
(* those that were lost and with those that were won.                      *)
LEMMA CorrectedFacts ==
  ASSUME IndInv, NEW c \in Everywhere
  PROVE  /\ DOMAIN CorrectedDependents \subseteq Everywhere
         /\ Overlay(committed.dependents, Size, {}, CorrectedDependents)[c]
              = {p \in Everywhere : c \in CandidateIncludes(p)}
<1> DEFINE old(p) == IF p \in DOMAIN committed.includes THEN committed.includes[p] ELSE {}
           new(p) == update.include_delta[p]
           D == DOMAIN update.include_delta
           lost(b) == {p \in D : b \in old(p) \ new(p)}
           won(b) == {p \in D : b \in new(p) \ old(p)}
           was(b) == IF b \in DOMAIN committed.dependents THEN committed.dependents[b] ELSE {}
<1>1. CorrectedDependents =
        [b \in {b \in Everywhere : lost(b) \cup won(b) # {}} |-> (was(b) \ lost(b)) \cup won(b)]
  BY DEF CorrectedDependents, Everywhere
<1>2. CommittedTyped /\ UpdateTyped /\ D \subseteq Everywhere
  BY DEF IndInv, StatusInv
<1>3. /\ DOMAIN committed.sources \subseteq Everywhere /\ Everywhere = 1..Size
      /\ DOMAIN committed.sources = 1..Len(committed.sources)
  BY <1>2, CandidateFacts
<1>4. /\ committed.includes \in [DOMAIN committed.sources -> SUBSET DOMAIN committed.sources]
      /\ committed.dependents \in [DOMAIN committed.sources -> SUBSET DOMAIN committed.sources]
  BY <1>2, <1>3 DEF CommittedTyped
<1>5. \A p \in Everywhere : p \in was(c) <=> c \in old(p)
  BY <1>4 DEF IndInv, GraphInv
<1>6. was(c) \subseteq Everywhere /\ won(c) \subseteq Everywhere
  BY <1>2, <1>3, <1>4
<1>7. \A p \in Everywhere : c \in CandidateIncludes(p) <=>
        IF p \in D THEN c \in new(p) ELSE c \in old(p)
  BY DEF CandidateIncludes
<1> DEFINE now == Overlay(committed.dependents, Size, {}, CorrectedDependents)[c]
<1>8. now = IF lost(c) \cup won(c) # {} THEN (was(c) \ lost(c)) \cup won(c) ELSE was(c)
  BY <1>1, <1>3 DEF Overlay
<1>9. ASSUME NEW p \in Everywhere
      PROVE  p \in (was(c) \ lost(c)) \cup won(c) <=> c \in CandidateIncludes(p)
  BY <1>5, <1>7
<1>10. now = (was(c) \ lost(c)) \cup won(c)
  <2> HIDE DEF lost, won, was, now
  <2>1. CASE lost(c) \cup won(c) = {}
    <3>1. lost(c) = {} /\ won(c) = {}
      BY <2>1
    <3>2. QED
      BY <1>8, <2>1, <3>1
  <2>2. CASE lost(c) \cup won(c) # {}
    BY <1>8, <2>2
  <2>3. QED
    BY <2>1, <2>2
<1>11. DOMAIN CorrectedDependents \subseteq Everywhere
  BY <1>1
<1>12. now = {p \in Everywhere : c \in CandidateIncludes(p)}
  <2> HIDE DEF lost, won, was, now
  <2>1. QED
    BY <1>6, <1>9, <1>10
<1>13. QED
  BY <1>11, <1>12

(* What is published, table by table.                                      *)
LEMMA PublishedFacts ==
  ASSUME IndInv, PublishPrepared
  PROVE  /\ committed'.sources = CandidateSources
         /\ committed'.generation = committed.generation + 1
         /\ committed'.roots \subseteq Everywhere
         /\ DOMAIN committed'.by_path =
              DOMAIN committed.by_path \cup DOMAIN update.added_by_path
         /\ \A p \in DOMAIN committed'.by_path :
              committed'.by_path[p] = IF p \in DOMAIN committed.by_path
                                      THEN committed.by_path[p]
                                      ELSE update.added_by_path[p]
         /\ committed'.includes = [i \in Everywhere |-> CandidateIncludes(i)]
         /\ committed'.physical = [i \in Everywhere |->
              IF i \in DOMAIN update.delta THEN PublishedStorage(i) ELSE CommittedStorage(i)]
         /\ committed'.dependents = [c \in Everywhere |->
              {p \in Everywhere : c \in CandidateIncludes(p)}]
<1>1. CommittedTyped /\ UpdateTyped /\ update.status = "prepared"
  BY DEF IndInv, PublishPrepared
<1>2. /\ Everywhere = 1..Size /\ Len(CandidateSources) = Size
      /\ DOMAIN committed.sources = 1..Len(committed.sources)
      /\ DOMAIN committed.sources \subseteq Everywhere
  BY <1>1, CandidateFacts
<1>3. /\ DOMAIN committed.physical = DOMAIN committed.sources
      /\ DOMAIN committed.includes = DOMAIN committed.sources
      /\ DOMAIN committed.dependents = DOMAIN committed.sources
      /\ committed.roots \subseteq Everywhere
  BY <1>1, <1>2 DEF CommittedTyped
<1> DEFINE stored == [id \in DOMAIN update.delta |-> PublishedStorage(id)]
<1>4. CASE update.g0
  <2>1. committed.sources = <<>>
    BY <1>4 DEF IndInv, StatusInv
  <2>2. committed' =
          [sources |-> update.added, by_path |-> update.added_by_path,
           roots |-> update.roots, physical |-> Overlay(<<>>, Size, NoStorage, stored),
           includes |-> Overlay(<<>>, Size, {}, update.include_delta),
           dependents |-> update.dependents,
           generation |-> committed.generation + 1]
    BY <1>2, <1>4, Zenon DEF PublishPrepared
  <2>3. update.dependents = ReversedIncludes
    BY <1>1, <1>4 DEF IndInv, GraphInv
  <2> HIDE DEF stored
  <2>4. /\ committed'.sources = update.added
        /\ committed'.by_path = update.added_by_path
        /\ committed'.roots = update.roots
        /\ committed'.physical = Overlay(<<>>, Size, NoStorage, stored)
        /\ committed'.includes = Overlay(<<>>, Size, {}, update.include_delta)
        /\ committed'.dependents = ReversedIncludes
        /\ committed'.generation = committed.generation + 1
    BY <2>2, <2>3
  <2>5. DOMAIN committed.sources = {}
    BY <2>1, NoEntries
  <2>6. DOMAIN committed.by_path = {}
    BY <2>5 DEF IndInv, IdsInv
  <2>7. /\ DOMAIN committed'.by_path =
             DOMAIN committed.by_path \cup DOMAIN update.added_by_path
        /\ \A p \in DOMAIN committed'.by_path :
             committed'.by_path[p] = IF p \in DOMAIN committed.by_path
                                     THEN committed.by_path[p]
                                     ELSE update.added_by_path[p]
    BY <2>4, <2>6
  <2>8. committed'.includes = [i \in Everywhere |-> CandidateIncludes(i)]
    BY <1>2, <1>3, <2>4, <2>5, NoEntries DEF Overlay, CandidateIncludes
  <2>9. committed'.physical = [i \in Everywhere |->
          IF i \in DOMAIN update.delta THEN PublishedStorage(i) ELSE CommittedStorage(i)]
    BY <1>2, <1>3, <2>4, <2>5, NoEntries DEF Overlay, CommittedStorage, stored
  <2>10. committed'.dependents = [c \in Everywhere |->
           {p \in Everywhere : c \in CandidateIncludes(p)}]
    BY <2>1, <2>4, ReversedFacts DEF ReversedIncludes
  <2>11. committed'.sources = CandidateSources /\ committed'.roots \subseteq Everywhere
    BY <2>1, <2>4, ReversedFacts DEF IndInv, StatusInv
  <2>12. QED
    BY <2>4, <2>7, <2>8, <2>9, <2>10, <2>11
<1>5. CASE ~update.g0
  <2>1. committed' =
          [sources |-> CandidateSources,
           by_path |-> [p \in DOMAIN committed.by_path \cup DOMAIN update.added_by_path |->
                          IF p \in DOMAIN committed.by_path THEN committed.by_path[p]
                          ELSE update.added_by_path[p]],
           roots |-> IF update.roots_changed THEN update.roots ELSE committed.roots,
           physical |-> Overlay(committed.physical, Size, NoStorage, stored),
           includes |-> Overlay(committed.includes, Size, {}, update.include_delta),
           dependents |-> Overlay(committed.dependents, Size, {}, update.dependents),
           generation |-> committed.generation + 1]
    BY <1>2, <1>5, Zenon DEF PublishPrepared
  <2>2. update.dependents = CorrectedDependents
    BY <1>1, <1>5 DEF IndInv, GraphInv
  <2>3. committed'.includes = [i \in Everywhere |-> CandidateIncludes(i)]
    BY <1>2, <2>1 DEF Overlay, CandidateIncludes
  <2>4. committed'.physical = [i \in Everywhere |->
          IF i \in DOMAIN update.delta THEN PublishedStorage(i) ELSE CommittedStorage(i)]
    BY <1>2, <2>1 DEF Overlay, CommittedStorage
  <2>5. committed'.dependents = [c \in Everywhere |->
          {p \in Everywhere : c \in CandidateIncludes(p)}]
    <3> DEFINE over == Overlay(committed.dependents, Size, {}, CorrectedDependents)
    <3>1. committed'.dependents = over
      BY <2>1, <2>2
    <3>2. over = [c \in Everywhere |-> over[c]]
      BY <1>2 DEF Overlay
    <3>3. \A c \in Everywhere : over[c] = {p \in Everywhere : c \in CandidateIncludes(p)}
      BY CorrectedFacts
    <3> HIDE DEF over
    <3>4. QED
      BY <3>1, <3>2, <3>3
  <2>6. committed'.roots \subseteq Everywhere
    BY <1>3, <2>1 DEF IndInv, StatusInv
  <2>7. QED
    BY <2>1, <2>3, <2>4, <2>5, <2>6
<1>6. QED
  BY <1>4, <1>5

(* The storage that is published for a Source is sound.                    *)
LEMMA PublishedStorageSound ==
  ASSUME IndInv, NEW i \in DOMAIN update.delta
  PROVE  PublishedStorage(i) \in Storages
         /\ SoundStorage(PublishedStorage(i), disk[PathOf(i)], writes)
<1> DEFINE was == CommittedStorage(i)
           delta == update.delta[i]
           f == disk[PathOf(i)]
<1>1. /\ delta \in DeltaType /\ SoundDelta(delta, was, f, writes) /\ SoundStorage(was, f, writes)
      /\ was \in Storages /\ i \in Everywhere
  <2>1. UpdateTyped /\ CommittedTyped /\ i \in Everywhere
    BY DEF IndInv, StatusInv
  <2>2. delta \in DeltaType
    BY <2>1 DEF UpdateTyped, Partial
  <2>3. SoundDelta(delta, was, f, writes) /\ SoundStorage(was, f, writes)
    BY <2>1 DEF IndInv, StorageInv
  <2>4. was \in Storages
    BY <2>1, StorageTyped
  <2>5. QED
    BY <2>1, <2>2, <2>3, <2>4
<1>2. CASE ~delta.observation_only
  <2>1. PublishedStorage(i) = delta.replacement
    BY <1>2 DEF PublishedStorage
  <2>2. delta.replacement \in Storages
    BY <1>1 DEF DeltaType
  <2>3. QED
    BY <1>1, <1>2, <2>1, <2>2 DEF SoundDelta
<1>3. CASE delta.observation_only
  <2>1. /\ was.state.presence = "present"
        /\ delta.state = [was.state EXCEPT !.observation = delta.state.observation]
        /\ Sound(was.content, delta.state.observation, f, writes)
        /\ was.state.hash = Hash(was.content)
    BY <1>1, <1>3 DEF SoundDelta, SoundStorage
  <2>2. was # NoStorage
    BY <2>1, StorageKinds
  <2>3. PublishedStorage(i) = [was EXCEPT !.state.observation = delta.state.observation]
    BY <1>3, <2>2 DEF PublishedStorage
  <2> DEFINE o == delta.state.observation
             s == was.state
  <2>4. s \in [presence : {"present"}, observation : 0..MaxWrites,
               hash : {Hash(b) : b \in Bytes}]
        /\ was = [state |-> s, content |-> was.content] /\ was.content \in Bytes
    <3>1. s \in States /\ was = [state |-> s, content |-> was.content] /\ was.content \in Bytes
      BY <1>1 DEF Storages
    <3>2. QED
      BY <2>1, <3>1, StorageKinds
  <2>5. o \in 0..MaxWrites
    <3>1. delta.state \in States
      BY <1>1 DEF DeltaType
    <3>2. delta.state.presence = "present"
      BY <2>1, <2>4
    <3>3. QED
      BY <3>1, <3>2, StorageKinds
  <2> HIDE DEF o
  <2>6. [s EXCEPT !.observation = o] \in States
        /\ [s EXCEPT !.observation = o].presence = "present"
        /\ [s EXCEPT !.observation = o].observation = o
        /\ [s EXCEPT !.observation = o].hash = s.hash
    BY <2>4, <2>5 DEF States
  <2>7. PublishedStorage(i) = [state |-> [s EXCEPT !.observation = o], content |-> was.content]
    BY <2>3, <2>4 DEF o
  <2> HIDE DEF s
  <2>8. PublishedStorage(i) \in Storages
    BY <2>4, <2>6, <2>7 DEF Storages
  <2>9. SoundStorage(PublishedStorage(i), f, writes)
    <3> DEFINE t == [s EXCEPT !.observation = o]
    <3>1. t.observation = o /\ t.hash = s.hash
      BY <2>6
    <3>2. PublishedStorage(i) = [state |-> t, content |-> was.content]
      BY <2>7
    <3> HIDE DEF t
    <3>3. PublishedStorage(i).content = was.content /\ PublishedStorage(i).state = t
      BY <3>2
    <3>4. Sound(was.content, o, f, writes) /\ s.hash = Hash(was.content)
      BY <2>1 DEF o, s
    <3>5. QED
      BY <3>1, <3>3, <3>4 DEF SoundStorage
  <2>10. QED
    BY <2>8, <2>9
<1>4. QED
  BY <1>1, <1>2, <1>3 DEF DeltaType

(* Publication: every table again one that fits the others.                *)
LEMMA PublishedInv ==
  ASSUME IndInv, PublishPrepared, UNCHANGED instance
  PROVE  IndInv' /\ IdsPersist
<1>1. /\ CommittedTyped /\ UpdateTyped /\ update.status = "prepared"
      /\ update' = EmptyUpdate /\ UNCHANGED <<disk, writes, jobs>> /\ Quiet
  BY DEF IndInv, StatusInv, PublishPrepared
<1>2. /\ committed'.sources = CandidateSources
      /\ committed'.generation = committed.generation + 1
      /\ committed'.roots \subseteq Everywhere
      /\ DOMAIN committed'.by_path =
           DOMAIN committed.by_path \cup DOMAIN update.added_by_path
      /\ \A p \in DOMAIN committed'.by_path :
           committed'.by_path[p] = IF p \in DOMAIN committed.by_path
                                   THEN committed.by_path[p]
                                   ELSE update.added_by_path[p]
      /\ committed'.includes = [i \in Everywhere |-> CandidateIncludes(i)]
      /\ committed'.physical = [i \in Everywhere |->
           IF i \in DOMAIN update.delta THEN PublishedStorage(i) ELSE CommittedStorage(i)]
      /\ committed'.dependents = [c \in Everywhere |->
           {p \in Everywhere : c \in CandidateIncludes(p)}]
  BY PublishedFacts
<1>3. /\ CandidateSources \in Seq(Paths) /\ Everywhere = 1..Size
      /\ Len(CandidateSources) = Size /\ Size \in Nat
      /\ DOMAIN committed.sources \subseteq Everywhere
      /\ \A i \in DOMAIN committed.sources : CandidateSources[i] = committed.sources[i]
      /\ DOMAIN committed.sources = 1..Len(committed.sources)
      /\ Len(committed.sources) \in Nat /\ Len(update.added) \in Nat
  BY <1>1, CandidateFacts
<1>4. /\ CandidateSources' = CandidateSources /\ Everywhere' = Everywhere
      /\ \A i : PathOf(i)' = PathOf(i)
  <2>1. CandidateSources' = CandidateSources
    BY <1>1, <1>2, <1>3, EmptyFacts DEF CandidateSources
  <2>2. QED
    BY <2>1 DEF Everywhere, PathOf
<1>5. IdsPersist
  BY <1>2, <1>3 DEF IdsPersist, Everywhere
<1>6. CommittedTyped'
  <2>1. committed'.generation \in 0..MaxGeneration
    BY <1>1, <1>2, SourceManagerAssumption DEF IndInv, StatusInv, CommittedTyped
  <2>2. committed'.physical \in [1..Size -> Storages]
    BY <1>1, <1>2, <1>3, PublishedStorageSound, StorageTyped
  <2>3. committed'.includes \in [1..Size -> SUBSET (1..Size)]
    BY <1>2, <1>3, IncludesTyped
  <2>4. committed'.dependents \in [1..Size -> SUBSET (1..Size)]
    BY <1>2, <1>3
  <2>5. Len(committed'.sources) = Size /\ committed'.roots \subseteq 1..Size
    BY <1>2, <1>3
  <2>6. QED
    BY <1>2, <1>3, <2>1, <2>2, <2>3, <2>4, <2>5 DEF CommittedTyped
<1>7. UpdateTyped'
  BY <1>1, EmptyFacts, NoEntries DEF UpdateTyped, Partial
<1>8. StatusInv'
  BY <1>1, EmptyFacts, NoEntries DEF StatusInv, Quiet
<1>9. IdsInv'
  <2>1. \A i, j \in Everywhere' : CandidateSources'[i] = CandidateSources'[j] => i = j
    BY <1>4 DEF IndInv, IdsInv
  <2>2. ASSUME NEW i \in Everywhere
        PROVE  /\ CandidateSources[i] \in DOMAIN committed'.by_path
               /\ committed'.by_path[CandidateSources[i]] = i
    <3>1. CASE i \in DOMAIN committed.sources
      BY <1>2, <1>3, <3>1 DEF IndInv, IdsInv
    <3>2. CASE i \notin DOMAIN committed.sources
      <4> DEFINE k == i - Len(committed.sources)
                 p == CandidateSources[i]
      <4>1. k \in 1..Len(update.added) /\ p = update.added[k]
        BY <1>1, <3>2, CandidateFacts
      <4>2. Len(committed.sources) + k = i
        BY <1>3
      <4>3. p \in DOMAIN update.added_by_path /\ update.added_by_path[p] = i
        <5>1. DOMAIN update.added = 1..Len(update.added)
          BY <1>1 DEF UpdateTyped
        <5> HIDE DEF k, p
        <5>2. QED
          BY <1>1, <4>1, <4>2, <5>1 DEF IndInv, IdsInv
      <4>4. p \notin DOMAIN committed.by_path
        <5>1. SUFFICES ASSUME p \in DOMAIN committed.by_path PROVE FALSE
          OBVIOUS
        <5>2. PICK j \in DOMAIN committed.sources : committed.sources[j] = p
          BY <5>1 DEF IndInv, IdsInv
        <5>3. j \in Everywhere /\ CandidateSources[j] = CandidateSources[i]
          BY <1>3, <5>2
        <5>4. j = i
          BY <5>3 DEF IndInv, IdsInv
        <5>5. QED
          BY <3>2, <5>4
      <4> HIDE DEF k, p
      <4>5. QED
        BY <1>2, <4>3, <4>4 DEF p
    <3>3. QED
      BY <3>1, <3>2
  <2>3. ASSUME NEW p \in DOMAIN committed'.by_path
        PROVE  \E i \in Everywhere : CandidateSources[i] = p
    <3>1. CASE p \in DOMAIN committed.by_path
      BY <1>3, <3>1 DEF IndInv, IdsInv
    <3>2. CASE p \in DOMAIN update.added_by_path
      <4>1. PICK k \in DOMAIN update.added : update.added[k] = p
        BY <1>1, <3>2 DEF IndInv, IdsInv
      <4>2. k \in 1..Len(update.added)
        BY <1>1, <4>1 DEF UpdateTyped
      <4>3. /\ Len(committed.sources) + k \in Everywhere
            /\ CandidateSources[Len(committed.sources) + k] = update.added[k]
        BY <1>1, <4>2, CandidateFacts
      <4>4. QED
        BY <4>1, <4>3
    <3>3. QED
      BY <1>2, <3>1, <3>2
  <2>4. /\ DOMAIN committed'.sources = Everywhere
        /\ \A i \in Everywhere : committed'.sources[i] = CandidateSources[i]
    BY <1>2 DEF Everywhere
  <2>5. /\ \A k \in DOMAIN update'.added : FALSE
        /\ \A p \in DOMAIN update'.added_by_path : FALSE
    BY <1>1, EmptyFacts, NoEntries
  <2>6. QED
    BY <2>1, <2>2, <2>3, <2>4, <2>5 DEF IdsInv
<1>10. GraphInv'
  <2>1. DOMAIN committed'.sources = Everywhere
    BY <1>2 DEF Everywhere
  <2>2. \A a, b \in Everywhere : b \in committed'.dependents[a] <=> a \in committed'.includes[b]
    BY <1>2
  <2>3. CommittedAcyclic'
    <3>1. Acyclic(Everywhere, [i \in Everywhere |-> CandidateIncludes(i)])
      BY <1>1 DEF IndInv, GraphInv
    <3>2. QED
      BY <1>2, <2>1, <3>1 DEF CommittedAcyclic, Acyclic
  <2>4. update'.status = "closed" /\ ~update'.validated /\ ~update'.g0
    BY <1>1, EmptyFacts
  <2>5. QED
    BY <2>1, <2>2, <2>3, <2>4 DEF GraphInv
<1>11. \A i \in Everywhere :
         CommittedStorage(i)' = IF i \in DOMAIN update.delta THEN PublishedStorage(i)
                                ELSE CommittedStorage(i)
  BY <1>2 DEF CommittedStorage
<1>12. \A i : CandidateState(i)' = CommittedStorage(i)'.state
  BY <1>1, EmptyFacts, NoEntries DEF CandidateState
<1>13. StorageInv'
  <2>1. ASSUME NEW i \in Everywhere
        PROVE  SoundStorage(CommittedStorage(i), disk[PathOf(i)], writes)'
    <3>1. SoundStorage(CommittedStorage(i)', disk[PathOf(i)], writes)
      BY <1>11, PublishedStorageSound DEF IndInv, StorageInv
    <3>2. disk' = disk /\ writes' = writes /\ PathOf(i)' = PathOf(i)
      BY <1>1, <1>4
    <3>3. QED
      BY <3>1, <3>2 DEF SoundStorage, Sound
  <2>2. \A i \in Ids : update'.changes[i] = Classify(CommittedStorage(i)'.state, CandidateState(i)')
    BY <1>1, <1>12, EmptyFacts, ClassifySame
  <2>3. QED
    BY <1>1, <1>4, <2>1, <2>2, EmptyFacts, NoEntries DEF StorageInv
<1>14. DiskInv' /\ JobInv'
  BY <1>1 DEF IndInv, DiskInv, JobInv, Quiet
<1>15. QED
  BY <1>1, <1>5, <1>6, <1>7, <1>8, <1>9, <1>10, <1>13, <1>14 DEF IndInv

-----------------------------------------------------------------------------
(* A step that changes at most the jobs, to ones that fit.                 *)
LEMMA JobsStepInv ==
  ASSUME IndInv, UNCHANGED <<instance, disk, writes, committed, update>>,
         jobs' \in [Ids -> JobType],
         \A i \in Ids :
           jobs'[i] # Idle /\ jobs'[i] # jobs[i] =>
             /\ update.status \notin {"closed", "prepared"} /\ i \in Everywhere
             /\ SoundJob(jobs'[i], disk[PathOf(i)], writes)
             /\ jobs'[i].committed = CommittedStorage(i).state
             /\ update.status = "open" => jobs'[i].baseline = CandidateState(i)
  PROVE  IndInv'
<1>1. /\ CandidateSources' = CandidateSources /\ Everywhere' = Everywhere
      /\ \A i : PathOf(i)' = PathOf(i)
      /\ \A i : CommittedStorage(i)' = CommittedStorage(i)
      /\ \A i : CandidateState(i)' = CandidateState(i)
      /\ \A i : CandidateIncludes(i)' = CandidateIncludes(i)
  BY DEF CandidateSources, Everywhere, PathOf, CommittedStorage, CandidateState,
         CandidateIncludes
<1>2. CommittedTyped' /\ UpdateTyped' /\ DiskInv'
  BY DEF IndInv, CommittedTyped, UpdateTyped, DiskInv
<1>3. StatusInv'
  <2>1. update'.status \in {"closed", "prepared"} => Quiet'
    BY DEF IndInv, StatusInv, Quiet
  <2>2. \A i \in Ids : jobs'[i] # Idle => i \in Everywhere'
    BY <1>1 DEF IndInv, StatusInv
  <2>3. QED
    BY <1>1, <2>1, <2>2 DEF IndInv, StatusInv
<1>4. IdsInv'
  BY <1>1 DEF IndInv, IdsInv
<1>5. GraphInv'
  <2>1. [i \in Everywhere |-> CandidateIncludes(i)]' = [i \in Everywhere |-> CandidateIncludes(i)]
    BY <1>1
  <2>2. ReversedIncludes' = ReversedIncludes /\ CorrectedDependents' = CorrectedDependents
    BY <1>1 DEF ReversedIncludes, CorrectedDependents
  <2>3. QED
    BY <1>1, <2>1, <2>2 DEF IndInv, GraphInv, CommittedAcyclic, Acyclic
<1>6. StorageInv'
  BY <1>1 DEF IndInv, StorageInv, SoundStorage, SoundDelta, Sound
<1>7. JobInv'
  <2> SUFFICES ASSUME NEW i \in Ids, jobs'[i] # Idle
               PROVE  (/\ SoundJob(jobs[i], disk[PathOf(i)], writes)
                       /\ jobs[i].committed = CommittedStorage(i).state
                       /\ update.status = "open" => jobs[i].baseline = CandidateState(i))'
    BY DEF JobInv
  <2>1. /\ SoundJob(jobs'[i], disk[PathOf(i)], writes)
        /\ jobs'[i].committed = CommittedStorage(i).state
        /\ update.status = "open" => jobs'[i].baseline = CandidateState(i)
    BY DEF IndInv, JobInv
  <2>2. SoundJob(jobs[i], disk[PathOf(i)], writes)'
    BY <1>1, <2>1 DEF SoundJob, Sound
  <2>3. QED
    BY <1>1, <2>1, <2>2
<1>8. QED
  BY <1>2, <1>3, <1>4, <1>5, <1>6, <1>7 DEF IndInv

(* A step of one acquisition changes nothing but its job.                  *)
LEMMA JobStepInv ==
  ASSUME IndInv, UNCHANGED <<instance, disk, writes, committed, update>>,
         NEW id \in Ids, NEW job \in JobType, jobs' = [jobs EXCEPT ![id] = job],
         job # Idle =>
           /\ update.status \notin {"closed", "prepared"} /\ id \in Everywhere
           /\ SoundJob(job, disk[PathOf(id)], writes)
           /\ job.committed = CommittedStorage(id).state
           /\ update.status = "open" => job.baseline = CandidateState(id)
  PROVE  IndInv'
<1>1. /\ jobs' \in [Ids -> JobType]
      /\ \A i \in Ids : jobs'[i] = IF i = id THEN job ELSE jobs[i]
  BY DEF IndInv
<1>2. QED
  BY <1>1, JobsStepInv

(* What an acquisition that is under way rests on.                         *)
LEMMA JobFacts ==
  ASSUME IndInv, NEW id \in Ids, jobs[id] # Idle
  PROVE  /\ jobs[id] \in JobType /\ id \in Everywhere
         /\ update.status \notin {"closed", "prepared"}
         /\ SoundJob(jobs[id], disk[PathOf(id)], writes)
         /\ jobs[id].committed = CommittedStorage(id).state
         /\ update.status = "open" => jobs[id].baseline = CandidateState(id)
         /\ jobs[id].committed \in States /\ jobs[id].baseline \in States
         /\ disk[PathOf(id)] \in Files \cup {Absent}
         /\ disk[PathOf(id)] # Absent =>
              /\ disk[PathOf(id)] \in Files /\ disk[PathOf(id)].content \in Contents
              /\ disk[PathOf(id)].observation \in 0..writes
         /\ writes \in 0..MaxWrites /\ writes \in Nat
<1>1. /\ jobs[id] \in JobType /\ id \in Everywhere
      /\ update.status \notin {"closed", "prepared"}
      /\ SoundJob(jobs[id], disk[PathOf(id)], writes)
      /\ jobs[id].committed = CommittedStorage(id).state
      /\ update.status = "open" => jobs[id].baseline = CandidateState(id)
  BY DEF IndInv, StatusInv, JobInv, Quiet
<1>2. jobs[id].committed \in States /\ jobs[id].baseline \in States
  BY <1>1, JobKinds
<1>3. PathOf(id) \in Paths
  BY <1>1, CandidateFacts DEF IndInv
<1>4. disk[PathOf(id)] \in Files \cup {Absent}
      /\ (disk[PathOf(id)] # Absent => disk[PathOf(id)].observation \in 0..writes)
  BY <1>3 DEF IndInv, DiskInv
<1>5. \A f \in Files : f.content \in Contents
  BY DEF Files
<1>6. writes \in 0..MaxWrites /\ writes \in Nat
  BY SourceManagerAssumption DEF IndInv
<1>7. QED
  BY <1>1, <1>2, <1>4, <1>5, <1>6

(* An acquisition ends with a result.                                      *)
LEMMA FinishInv ==
  ASSUME IndInv, UNCHANGED <<instance, disk, writes, committed, update>>,
         NEW id \in Ids, jobs[id] # Idle, NEW result \in ResultType, Finish(id, result),
         result.kind = "present" =>
           Sound(result.bytes, result.observation, disk[PathOf(id)], writes)
  PROVE  IndInv'
<1> DEFINE job == [phase |-> "done", committed |-> jobs[id].committed,
                   baseline |-> jobs[id].baseline, result |-> result]
<1>1. jobs' = [jobs EXCEPT ![id] = job]
  BY DEF Finish
<1>2. job \in JobType /\ SoundJob(job, disk[PathOf(id)], writes)
  <2>1. job \in JobType
    BY JobFacts DEF JobType
  <2>2. job.phase = "done" /\ job.result = result
    OBVIOUS
  <2> HIDE DEF job
  <2>3. SoundJob(job, disk[PathOf(id)], writes)
    BY <2>2 DEF SoundJob
  <2>4. QED
    BY <2>1, <2>3
<1>3. job.committed = jobs[id].committed /\ job.baseline = jobs[id].baseline
  OBVIOUS
<1> HIDE DEF job
<1>4. QED
  BY <1>1, <1>2, <1>3, JobFacts, JobStepInv

(* An acquisition reads on.                                                *)
LEMMA ReadingInv ==
  ASSUME IndInv, UNCHANGED <<instance, disk, writes, committed, update>>,
         NEW id \in Ids, jobs[id] # Idle, NEW file \in Files \cup {Linked},
         NEW o \in 0..MaxWrites, NEW bytes \in Bytes,
         SetJob(id, "reading", file, o, bytes),
         LET f == disk[PathOf(id)]
             handle == IF file = Linked THEN f ELSE file
         IN  /\ o <= writes
             /\ file = Linked => f # Absent
             /\ file # Linked /\ f # Absent => o < f.observation
             /\ handle.observation = o => \A k \in DOMAIN bytes : bytes[k] = handle.content
  PROVE  IndInv'
<1> DEFINE job == [phase |-> "reading", committed |-> jobs[id].committed,
                   baseline |-> jobs[id].baseline, file |-> file,
                   observation |-> o, bytes |-> bytes]
<1>1. jobs' = [jobs EXCEPT ![id] = job]
  BY DEF SetJob
<1>2. job \in JobType /\ SoundJob(job, disk[PathOf(id)], writes)
  <2>1. job \in JobType
    BY JobFacts DEF JobType
  <2>2. job.phase = "reading" /\ job.file = file /\ job.observation = o /\ job.bytes = bytes
    OBVIOUS
  <2> HIDE DEF job
  <2>3. SoundJob(job, disk[PathOf(id)], writes)
    BY <2>2 DEF SoundJob
  <2>4. QED
    BY <2>1, <2>3
<1>3. job.committed = jobs[id].committed /\ job.baseline = jobs[id].baseline
  OBVIOUS
<1> HIDE DEF job
<1>4. QED
  BY <1>1, <1>2, <1>3, JobFacts, JobStepInv

(* An acquisition begins with the states of its Source.                    *)
LEMMA PrepareAcquireInv ==
  ASSUME IndInv, UNCHANGED instance, NEW id \in Ids, PrepareAcquire(id)
  PROVE  IndInv'
<1> DEFINE job == [phase |-> "opening", committed |-> CommittedStorage(id).state,
                   baseline |-> CandidateState(id)]
<1>1. /\ jobs' = [jobs EXCEPT ![id] = job] /\ update.status = "open"
      /\ UNCHANGED <<instance, disk, writes, committed, update>> /\ id \in Everywhere
  BY DEF PrepareAcquire, Open, HasSource, Everywhere
<1>2. job \in JobType /\ SoundJob(job, disk[PathOf(id)], writes)
  <2>1. CommittedStorage(id).state \in States /\ CandidateState(id) \in States
    BY StorageTyped DEF IndInv
  <2>2. job \in JobType
    BY <2>1 DEF JobType
  <2>3. job.phase = "opening"
    OBVIOUS
  <2> HIDE DEF job
  <2>4. QED
    BY <2>2, <2>3 DEF SoundJob
<1>3. job.committed = CommittedStorage(id).state /\ job.baseline = CandidateState(id)
  OBVIOUS
<1> HIDE DEF job
<1>4. QED
  BY <1>1, <1>2, <1>3, JobStepInv

(* The file is opened, or found unchanged or missing.                      *)
LEMMA OpenFileInv ==
  ASSUME IndInv, UNCHANGED instance, NEW id \in Ids, OpenFile(id)
  PROVE  IndInv'
<1> DEFINE f == disk[PathOf(id)]
<1>1. /\ jobs[id].phase = "opening" /\ UNCHANGED <<instance, disk, writes, committed, update>>
      /\ \/ Finish(id, MissingFile) \/ Finish(id, Unchanged)
         \/ f # Absent /\ SetJob(id, "reading", Linked, f.observation, <<>>)
  BY DEF OpenFile
<1>2. jobs[id] # Idle
  BY <1>1, JobKinds
<1>3. CASE Finish(id, MissingFile) \/ Finish(id, Unchanged)
  <2>1. /\ MissingFile \in ResultType /\ MissingFile.kind # "present"
        /\ Unchanged \in ResultType /\ Unchanged.kind # "present"
    BY DEF ResultType, MissingFile, Unchanged
  <2>2. QED
    BY <1>1, <1>2, <1>3, <2>1, FinishInv
<1>4. CASE f # Absent /\ SetJob(id, "reading", Linked, f.observation, <<>>)
  <2>1. f.observation \in 0..writes /\ writes \in 0..MaxWrites /\ writes \in Nat
    BY <1>2, <1>4, JobFacts
  <2>2. f.observation \in 0..MaxWrites /\ f.observation <= writes
    BY <2>1, SourceManagerAssumption
  <2>3. Linked \in Files \cup {Linked} /\ <<>> \in Bytes /\ DOMAIN <<>> = {}
    BY BytesFacts, NoEntries
  <2>4. QED
    BY <1>1, <1>2, <1>4, <2>2, <2>3, ReadingInv
<1>5. QED
  BY <1>1, <1>3, <1>4

(* Another half is read.                                                   *)
LEMMA ReadHalfInv ==
  ASSUME IndInv, UNCHANGED instance, NEW id \in Ids, ReadHalf(id)
  PROVE  IndInv'
<1> DEFINE f == disk[PathOf(id)]
           file == jobs[id].file
           o == jobs[id].observation
           bytes == jobs[id].bytes
           c == Handle(id).content
<1>1. /\ jobs[id].phase = "reading" /\ Len(bytes) < 2
      /\ UNCHANGED <<instance, disk, writes, committed, update>>
      /\ SetJob(id, "reading", file, o, Append(bytes, c))
  BY DEF ReadHalf
<1>2. jobs[id] # Idle
  BY <1>1, JobKinds
<1>3. /\ file \in Files \cup {Linked} /\ o \in 0..MaxWrites /\ bytes \in Bytes
      /\ SoundJob(jobs[id], f, writes)
      /\ f # Absent => f \in Files /\ f.content \in Contents
  BY <1>1, <1>2, JobFacts, JobKinds
<1>4. Handle(id) = IF file = Linked THEN f ELSE file
  BY DEF Handle
<1>5. /\ o <= writes
      /\ file = Linked => f # Absent
      /\ file # Linked /\ f # Absent => o < f.observation
      /\ Handle(id).observation = o => \A k \in DOMAIN bytes : bytes[k] = Handle(id).content
  BY <1>1, <1>3, <1>4 DEF SoundJob
<1>6. c \in Contents
  BY <1>3, <1>4, <1>5 DEF Files
<1>7. Append(bytes, c) \in Bytes
  BY <1>1, <1>3, <1>6, BytesFacts
<1>8. Handle(id).observation = o =>
        \A k \in DOMAIN Append(bytes, c) : Append(bytes, c)[k] = Handle(id).content
  <2> DEFINE b == bytes
             x == c
  <2>1. b \in Seq(Contents) /\ x \in Contents
    BY <1>3, <1>6, BytesFacts
  <2> HIDE DEF b, x
  <2>2. \A k \in DOMAIN Append(b, x) : \/ k \in DOMAIN b /\ Append(b, x)[k] = b[k]
                                       \/ Append(b, x)[k] = x
    BY <2>1, AppendProperties
  <2>3. QED
    BY <1>5, <2>2 DEF b, x
<1> HIDE DEF c, file, o, bytes
<1>9. QED
  BY <1>1, <1>2, <1>3, <1>4, <1>5, <1>7, <1>8, ReadingInv

(* What is read between two equal observations is one write.               *)
LEMMA RecheckInv ==
  ASSUME IndInv, UNCHANGED instance, NEW id \in Ids, Recheck(id)
  PROVE  IndInv'
<1> DEFINE f == disk[PathOf(id)]
           file == jobs[id].file
           o == jobs[id].observation
           bytes == jobs[id].bytes
           found == [kind |-> "present", bytes |-> bytes, observation |-> o]
           failed == [kind |-> "failed"]
<1>1. /\ jobs[id].phase = "reading" /\ Len(bytes) = 2
      /\ UNCHANGED <<instance, disk, writes, committed, update>>
      /\ \/ Handle(id).observation = o /\ Finish(id, found)
         \/ Finish(id, failed)
  BY DEF Recheck
<1>2. jobs[id] # Idle
  BY <1>1, JobKinds
<1>3. /\ file \in Files \cup {Linked} /\ o \in 0..MaxWrites /\ bytes \in Bytes
      /\ SoundJob(jobs[id], f, writes) /\ writes \in Nat
      /\ f # Absent => f.observation \in 0..writes
  BY <1>1, <1>2, JobFacts, JobKinds
<1>4. Handle(id) = IF file = Linked THEN f ELSE file
  BY DEF Handle
<1>5. /\ o <= writes
      /\ file # Linked /\ f # Absent => o < f.observation
      /\ Handle(id).observation = o => \A k \in DOMAIN bytes : bytes[k] = Handle(id).content
  BY <1>1, <1>3, <1>4 DEF SoundJob
<1>6. CASE Handle(id).observation = o /\ Finish(id, found)
  <2>1. found \in ResultType
    BY <1>3 DEF ResultType
  <2>2. bytes \in [1..2 -> Contents] /\ DOMAIN bytes = 1..2
    BY <1>1, <1>3, BytesFacts
  <2>3. bytes[1] = Handle(id).content /\ bytes[2] = Handle(id).content
    BY <1>5, <1>6, <2>2
  <2>4. f # Absent /\ f.observation = o => file = Linked
    BY <1>3, <1>5
  <2>5. Sound(bytes, o, f, writes)
    BY <1>3, <1>4, <1>5, <2>2, <2>3, <2>4, SourceManagerAssumption DEF Sound
  <2>6. found.bytes = bytes /\ found.observation = o
    OBVIOUS
  <2> HIDE DEF found
  <2>7. QED
    BY <1>1, <1>2, <1>6, <2>1, <2>5, <2>6, FinishInv
<1>7. CASE Finish(id, failed)
  <2>1. failed \in ResultType /\ failed.kind # "present"
    BY DEF ResultType
  <2> HIDE DEF failed
  <2>2. QED
    BY <1>1, <1>2, <1>7, <2>1, FinishInv
<1>8. QED
  BY <1>1, <1>6, <1>7

(* A read that fails.                                                      *)
LEMMA ReadFailsInv ==
  ASSUME IndInv, UNCHANGED instance, NEW id \in Ids, ReadFails(id)
  PROVE  IndInv'
<1> DEFINE failed == [kind |-> "failed"]
<1>1. /\ jobs[id].phase \in {"opening", "reading"}
      /\ UNCHANGED <<instance, disk, writes, committed, update>> /\ Finish(id, failed)
  BY DEF ReadFails
<1>2. jobs[id] # Idle
  BY <1>1, JobKinds
<1>3. failed \in ResultType /\ failed.kind # "present"
  BY DEF ResultType
<1> HIDE DEF failed
<1>4. QED
  BY <1>1, <1>2, <1>3, FinishInv

-----------------------------------------------------------------------------
(* The update with one more delta and its change record.                   *)
LEMMA StoreFacts ==
  ASSUME IndInv, NEW id \in Ids, NEW job, NEW delta, update' = Store(id, job, delta)
  PROVE  /\ DOMAIN update' = UpdateFields
         /\ update'.status = update.status /\ update'.roots = update.roots
         /\ update'.added = update.added /\ update'.added_by_path = update.added_by_path
         /\ update'.include_delta = update.include_delta
         /\ update'.validated = update.validated /\ update'.g0 = update.g0
         /\ update'.dependents = update.dependents
         /\ DOMAIN update'.delta = DOMAIN update.delta \cup {id}
         /\ update'.delta[id] = delta
         /\ \A i \in DOMAIN update.delta : i # id => update'.delta[i] = update.delta[i]
         /\ DOMAIN update'.changes = Ids
         /\ update'.changes[id] = Classify(job.committed, delta.state)
         /\ \A i \in Ids : i # id => update'.changes[i] = update.changes[i]
<1>1. DOMAIN update = UpdateFields /\ DOMAIN update.changes = Ids
  BY DEF IndInv, UpdateTyped
<1> DEFINE longer == Extend(update.delta, id, delta)
           kind == Classify(job.committed, delta.state)
           u == [update EXCEPT !.delta = longer]
<1>2. update' = [u EXCEPT !.changes[id] = kind]
  BY DEF Store, SetNetChange
<1> HIDE DEF longer, kind
<1>3. /\ DOMAIN u = UpdateFields /\ u.delta = longer /\ u.changes = update.changes
      /\ u.status = update.status /\ u.roots = update.roots
      /\ u.added = update.added /\ u.added_by_path = update.added_by_path
      /\ u.include_delta = update.include_delta
      /\ u.validated = update.validated /\ u.g0 = update.g0
      /\ u.dependents = update.dependents
  BY <1>1 DEF UpdateFields
<1> HIDE DEF u
<1>4. /\ DOMAIN update' = UpdateFields /\ update'.delta = longer
      /\ update'.changes = [update.changes EXCEPT ![id] = kind]
      /\ update'.status = update.status /\ update'.roots = update.roots
      /\ update'.added = update.added /\ update'.added_by_path = update.added_by_path
      /\ update'.include_delta = update.include_delta
      /\ update'.validated = update.validated /\ update'.g0 = update.g0
      /\ update'.dependents = update.dependents
  BY <1>2, <1>3 DEF UpdateFields
<1>5. /\ DOMAIN longer = DOMAIN update.delta \cup {id} /\ longer[id] = delta
      /\ \A i \in DOMAIN update.delta : i # id => longer[i] = update.delta[i]
  BY DEF longer, Extend
<1>6. QED
  BY <1>1, <1>4, <1>5 DEF kind

(* A result is stored in place of the job that found it.                   *)
LEMMA StoreInv ==
  ASSUME IndInv, UNCHANGED <<instance, disk, writes, committed>>,
         NEW id \in Ids, jobs[id] # Idle, update.status # "failed",
         jobs' = [jobs EXCEPT ![id] = Idle],
         NEW delta \in DeltaType, update' = Store(id, jobs[id], delta),
         SoundDelta(delta, CommittedStorage(id), disk[PathOf(id)], writes)
  PROVE  IndInv'
<1>1. /\ CommittedTyped /\ UpdateTyped /\ update.status = "open"
      /\ id \in Everywhere /\ jobs[id].committed = CommittedStorage(id).state
  BY JobFacts DEF IndInv, UpdateTyped
<1>2. /\ DOMAIN update' = UpdateFields
      /\ update'.status = update.status /\ update'.roots = update.roots
      /\ update'.added = update.added /\ update'.added_by_path = update.added_by_path
      /\ update'.include_delta = update.include_delta
      /\ update'.validated = update.validated /\ update'.g0 = update.g0
      /\ update'.dependents = update.dependents
      /\ DOMAIN update'.delta = DOMAIN update.delta \cup {id}
      /\ update'.delta[id] = delta
      /\ \A i \in DOMAIN update.delta : i # id => update'.delta[i] = update.delta[i]
      /\ DOMAIN update'.changes = Ids
      /\ update'.changes[id] = Classify(jobs[id].committed, delta.state)
      /\ \A i \in Ids : i # id => update'.changes[i] = update.changes[i]
  BY StoreFacts
<1>3. /\ CandidateSources' = CandidateSources /\ Everywhere' = Everywhere
      /\ \A i : PathOf(i)' = PathOf(i)
      /\ \A i : CommittedStorage(i)' = CommittedStorage(i)
      /\ \A i : CandidateIncludes(i)' = CandidateIncludes(i)
  BY <1>2 DEF CandidateSources, Everywhere, PathOf, CommittedStorage, CandidateIncludes
<1>4. /\ \A i : i # id => CandidateState(i)' = CandidateState(i)
      /\ CandidateState(id)' = delta.state
  BY <1>2 DEF CandidateState, CommittedStorage
<1>5. /\ jobs' \in [Ids -> JobType]
      /\ \A i \in Ids : jobs'[i] = IF i = id THEN Idle ELSE jobs[i]
  BY JobKinds DEF IndInv
<1>6. CommittedTyped' /\ DiskInv'
  BY DEF IndInv, CommittedTyped, DiskInv
<1>7. UpdateTyped'
  <2>1. Partial(update'.delta, DeltaType)
    BY <1>1, <1>2 DEF UpdateTyped, Partial
  <2>2. Partial(update'.include_delta, SUBSET Ids)
    BY <1>1, <1>2 DEF UpdateTyped, Partial
  <2>3. update'.changes \in [Ids -> {NoChange, "added", "removed", "modified"}]
    <3>1. \A a, b : Classify(a, b) \in {NoChange, "added", "removed", "modified"}
      BY DEF Classify
    <3>2. \A i \in Ids : update'.changes[i] \in {NoChange, "added", "removed", "modified"}
      BY <1>1, <1>2, <3>1 DEF UpdateTyped
    <3>3. update'.changes = [i \in Ids |-> update'.changes[i]]
      BY <1>1, <1>2 DEF UpdateTyped, Store, SetNetChange, UpdateFields
    <3>4. QED
      BY <3>2, <3>3
  <2>4. QED
    BY <1>1, <1>2, <2>1, <2>2, <2>3 DEF UpdateTyped
<1>8. StatusInv'
  <2>1. \A i \in Ids : jobs'[i] # Idle => i \in Everywhere'
    BY <1>3, <1>5 DEF IndInv, StatusInv
  <2>2. QED
    BY <1>1, <1>2, <1>3, <2>1 DEF IndInv, StatusInv
<1>9. IdsInv'
  BY <1>1, <1>2, <1>3 DEF IndInv, IdsInv
<1>10. GraphInv'
  <2>1. [i \in Everywhere |-> CandidateIncludes(i)]' = [i \in Everywhere |-> CandidateIncludes(i)]
    BY <1>3
  <2>2. QED
    BY <1>1, <1>2, <1>3, <2>1 DEF IndInv, GraphInv, CommittedAcyclic, Acyclic
<1>11. StorageInv'
  <2>1. ASSUME NEW i \in Everywhere'
        PROVE  SoundStorage(CommittedStorage(i), disk[PathOf(i)], writes)'
    BY <1>3 DEF IndInv, StorageInv, SoundStorage, Sound
  <2>2. ASSUME NEW i \in DOMAIN update'.delta
        PROVE  SoundDelta(update.delta[i], CommittedStorage(i), disk[PathOf(i)], writes)'
    <3>1. SoundDelta(update'.delta[i], CommittedStorage(i), disk[PathOf(i)], writes)
      BY <1>2 DEF IndInv, StorageInv
    <3>2. QED
      BY <1>3, <3>1 DEF SoundDelta, SoundStorage, Sound
  <2>3. \A i \in Ids : update'.changes[i] = Classify(CommittedStorage(i)'.state, CandidateState(i)')
    BY <1>1, <1>2, <1>3, <1>4 DEF IndInv, StorageInv
  <2>4. QED
    BY <2>1, <2>2, <2>3 DEF StorageInv
<1>12. JobInv'
  BY <1>1, <1>3, <1>4, <1>5, JobsKept
<1>13. QED
  BY <1>5, <1>6, <1>7, <1>8, <1>9, <1>10, <1>11, <1>12 DEF IndInv

(* Committed bytes under a newer observation.                              *)
LEMMA ObservationOnlySound ==
  ASSUME NEW was \in Storages, NEW f, NEW w \in 0..MaxWrites, NEW bytes, NEW o,
         was.state.presence = "present", was.state.hash = Hash(bytes),
         SoundStorage(was, f, w), Sound(bytes, o, f, w)
  PROVE  /\ ObservationOnly(was.state, o) \in DeltaType
         /\ SoundDelta(ObservationOnly(was.state, o), was, f, w)
<1> DEFINE s == was.state
           t == [s EXCEPT !.observation = o]
<1>1. s \in States
  BY DEF Storages
<1>2. s \in [presence : {"present"}, observation : 0..MaxWrites,
             hash : {Hash(b) : b \in Bytes}]
  BY <1>1, StorageKinds
<1>3. o \in 0..MaxWrites
  BY SourceManagerAssumption DEF Sound
<1>4. t \in States /\ t.observation = o
  BY <1>2, <1>3 DEF States
<1>5. was.content = bytes
  <2>1. Hash(was.content) = Hash(bytes)
    BY DEF SoundStorage
  <2>2. QED
    BY <2>1 DEF Hash
<1> DEFINE delta == ObservationOnly(s, o)
<1>6. /\ delta = [state |-> t, replacement |-> NoStorage, observation_only |-> TRUE]
  BY DEF ObservationOnly
<1> HIDE DEF t, delta
<1>7. delta \in DeltaType /\ delta.state = t /\ delta.observation_only = TRUE
  BY <1>4, <1>6, StorageKinds DEF DeltaType
<1>8. t = [was.state EXCEPT !.observation = t.observation]
  BY <1>4 DEF t
<1>9. Sound(was.content, t.observation, f, w)
  BY <1>4, <1>5
<1>10. SoundDelta(delta, was, f, w)
  BY <1>7, <1>8, <1>9 DEF SoundDelta
<1>11. QED
  BY <1>7, <1>10 DEF delta

(* Replaced bytes under a newer observation.                               *)
Reobserved(delta, o) ==
  [delta EXCEPT !.state.observation = o, !.replacement.state.observation = o]

(* They are sound if they are what was read.                               *)
LEMMA ReobservedSound ==
  ASSUME NEW delta \in DeltaType, NEW was, NEW f, NEW w \in 0..MaxWrites, NEW bytes, NEW o,
         ~delta.observation_only, SoundDelta(delta, was, f, w),
         delta.state.presence = "present", delta.state.hash = Hash(bytes),
         Sound(bytes, o, f, w)
  PROVE  Reobserved(delta, o) \in DeltaType /\ SoundDelta(Reobserved(delta, o), was, f, w)
<1> DEFINE s == delta.state
           r == delta.replacement
           t == [s EXCEPT !.observation = o]
           q == [r EXCEPT !.state.observation = o]
           next == Reobserved(delta, o)
<1>1. /\ s \in States /\ r \in Storages
      /\ delta = [state |-> s, replacement |-> r, observation_only |-> FALSE]
  BY DEF DeltaType
<1>2. r.state = s /\ SoundStorage(r, f, w)
  BY DEF SoundDelta
<1>3. s \in [presence : {"present"}, observation : 0..MaxWrites,
             hash : {Hash(b) : b \in Bytes}]
  BY <1>1, StorageKinds
<1>4. o \in 0..MaxWrites
  BY SourceManagerAssumption DEF Sound
<1>5. t \in States /\ t.observation = o /\ t.hash = s.hash /\ t.presence = "present"
  BY <1>3, <1>4 DEF States
<1>6. r = [state |-> s, content |-> r.content] /\ r.content \in Bytes
  BY <1>1, <1>2 DEF Storages
<1>7. q = [state |-> t, content |-> r.content]
  BY <1>6
<1>8. next = [state |-> t, replacement |-> q, observation_only |-> FALSE]
  <2> DEFINE kept == [state |-> s, replacement |-> r, observation_only |-> FALSE]
  <2>1. next = [kept EXCEPT !.state.observation = o, !.replacement.state.observation = o]
    BY <1>1, Zenon DEF Reobserved
  <2> HIDE DEF s, r
  <2>2. QED
    BY <2>1
<1>9. r.content = bytes
  <2>1. Hash(r.content) = Hash(bytes)
    BY <1>2 DEF SoundStorage
  <2>2. QED
    BY <2>1 DEF Hash
<1> HIDE DEF t, q, s, r, next
<1>10. q \in Storages /\ q.state = t /\ q.content = bytes
  BY <1>5, <1>6, <1>7, <1>9 DEF Storages
<1>11. /\ next \in DeltaType /\ next.state = t /\ next.replacement = q
       /\ next.observation_only = FALSE
  <2>1. t \in States /\ q \in Storages
    BY <1>5, <1>10
  <2>2. QED
    BY <1>8, <2>1 DEF DeltaType
<1>12. t.hash = Hash(bytes)
  BY <1>5 DEF s
<1>13. SoundStorage(q, f, w)
  BY <1>5, <1>10, <1>12 DEF SoundStorage
<1>14. QED
  BY <1>10, <1>11, <1>13 DEF SoundDelta, next

(* New bytes, or none.                                                     *)
LEMMA ReplacementSound ==
  ASSUME NEW storage \in Storages, NEW was, NEW f, NEW w, SoundStorage(storage, f, w)
  PROVE  /\ Replacement(storage) \in DeltaType
         /\ SoundDelta(Replacement(storage), was, f, w)
<1>1. storage.state \in States
  BY DEF Storages
<1> DEFINE delta == Replacement(storage)
<1>2. delta = [state |-> storage.state, replacement |-> storage, observation_only |-> FALSE]
  BY DEF Replacement
<1> HIDE DEF delta
<1>3. /\ delta \in DeltaType /\ delta.state = storage.state
      /\ delta.replacement = storage /\ delta.observation_only = FALSE
  BY <1>1, <1>2 DEF DeltaType
<1>4. SoundDelta(delta, was, f, w)
  BY <1>3 DEF SoundDelta
<1>5. QED
  BY <1>3, <1>4 DEF delta

(* The delta for a file that was read is sound, whichever of the three     *)
(* forms it takes.                                                         *)
LEMMA DeltaOfSound ==
  ASSUME IndInv, NEW id \in Ids, jobs[id].phase = "done",
         update.status # "failed", jobs[id].result.kind = "present"
  PROVE  LET delta == DeltaOf(id, jobs[id], jobs[id].result) IN
         /\ delta \in DeltaType
         /\ SoundDelta(delta, CommittedStorage(id), disk[PathOf(id)], writes)
<1> DEFINE job == jobs[id]
           bytes == job.result.bytes
           o == job.result.observation
           was == CommittedStorage(id)
           f == disk[PathOf(id)]
           delta == DeltaOf(id, job, job.result)
           old == update.delta[id]
           Kept == job.committed.presence = "present" /\ job.committed.hash = Hash(bytes)
           Again == job.baseline.presence = "present" /\ job.baseline.hash = Hash(bytes)
<1>1. job # Idle
  BY JobKinds
<1>2. /\ update.status = "open" /\ id \in Everywhere
      /\ job.committed = was.state /\ job.baseline = CandidateState(id)
      /\ writes \in 0..MaxWrites
  <2>1. CommittedTyped /\ UpdateTyped
    BY DEF IndInv
  <2>2. update.status = "open"
    BY <1>1, <2>1, JobFacts DEF UpdateTyped
  <2>3. QED
    BY <1>1, <2>2, JobFacts
<1>3. was \in Storages /\ SoundStorage(was, f, writes)
  BY <1>2, StorageTyped DEF IndInv, StorageInv
<1>4. Sound(bytes, o, f, writes)
  BY <1>1, JobFacts DEF SoundJob
<1>5. id \in DOMAIN update.delta => old \in DeltaType /\ SoundDelta(old, was, f, writes)
  BY DEF IndInv, UpdateTyped, Partial, StorageInv
<1>6. CASE Kept
  <2>1. delta = ObservationOnly(was.state, o)
    BY <1>2, <1>6 DEF DeltaOf
  <2>2. was.state.presence = "present" /\ was.state.hash = Hash(bytes)
    BY <1>2, <1>6
  <2> HIDE DEF delta, bytes, o, was, f
  <2>3. delta \in DeltaType /\ SoundDelta(delta, was, f, writes)
    BY <1>2, <1>3, <1>4, <2>1, <2>2, ObservationOnlySound
  <2>4. QED
    BY <2>3 DEF delta, was, f
<1>7. CASE ~Kept /\ Again
  <2>1. id \in DOMAIN update.delta /\ ~old.observation_only
    <3>1. CandidateState(id).presence = "present" /\ CandidateState(id).hash = Hash(bytes)
          /\ ~(was.state.presence = "present" /\ was.state.hash = Hash(bytes))
      BY <1>2, <1>7
    <3>2. id \in DOMAIN update.delta /\ CandidateState(id) = old.state
      BY <3>1 DEF CandidateState
    <3>3. ASSUME old.observation_only PROVE FALSE
      <4>1. /\ was.state.presence = "present"
            /\ old.state = [was.state EXCEPT !.observation = old.state.observation]
        BY <1>5, <3>2, <3>3 DEF SoundDelta
      <4>2. was.state \in [presence : {"present"}, observation : 0..MaxWrites,
                           hash : {Hash(b) : b \in Bytes}]
        BY <1>3, <4>1, StorageKinds DEF Storages
      <4>3. old.state.hash = was.state.hash
        BY <4>1, <4>2
      <4>4. QED
        BY <3>1, <3>2, <4>1, <4>3
    <3>4. QED
      BY <3>2, <3>3
  <2>2. old.state.presence = "present" /\ old.state.hash = Hash(bytes)
    BY <1>2, <1>7, <2>1 DEF CandidateState
  <2>3. delta = Reobserved(old, o)
    BY <1>7, <2>1 DEF DeltaOf, Reobserved
  <2>4. old \in DeltaType /\ SoundDelta(old, was, f, writes)
    BY <1>5, <2>1
  <2> HIDE DEF delta, old, bytes, o, was, f
  <2>5. delta \in DeltaType /\ SoundDelta(delta, was, f, writes)
    <3>1. writes \in 0..MaxWrites /\ Sound(bytes, o, f, writes) /\ ~old.observation_only
      BY <1>2, <1>4, <2>1
    <3>2. QED
      BY <2>2, <2>3, <2>4, <3>1, ReobservedSound
  <2>6. QED
    BY <2>5 DEF delta, was, f
<1>8. CASE ~Kept /\ ~Again
  <2> DEFINE storage == [state |-> Present(o, bytes), content |-> bytes]
  <2>1. delta = Replacement(storage)
    BY <1>8 DEF DeltaOf
  <2>2. bytes \in Bytes /\ o \in 0..MaxWrites
    BY <1>1, JobKinds, JobFacts, ResultKinds
  <2>3. Present(o, bytes) \in States /\ Present(o, bytes).observation = o
        /\ Present(o, bytes).hash = Hash(bytes)
    BY <2>2 DEF Present, States
  <2> HIDE DEF bytes, o
  <2>4. storage \in Storages /\ storage.content = bytes /\ storage.state.observation = o
        /\ storage.state.hash = Hash(bytes)
    BY <2>2, <2>3 DEF Storages
  <2> HIDE DEF storage
  <2>5. SoundStorage(storage, f, writes)
    BY <1>4, <2>4 DEF SoundStorage
  <2> HIDE DEF delta, was, f
  <2>6. delta \in DeltaType /\ SoundDelta(delta, was, f, writes)
    BY <2>1, <2>4, <2>5, ReplacementSound
  <2>7. QED
    BY <2>6 DEF delta, was, f
<1>9. QED
  BY <1>6, <1>7, <1>8

(* The result of an acquisition is dropped, stored, or fails the update.   *)
LEMMA ApplyAcquireInv ==
  ASSUME IndInv, UNCHANGED instance, NEW id \in Ids, ApplyAcquire(id)
  PROVE  IndInv'
<1> DEFINE job == jobs[id]
           result == job.result
<1>1. job.phase = "done" /\ jobs' = [jobs EXCEPT ![id] = Idle]
      /\ UNCHANGED <<instance, disk, writes, committed>>
  BY DEF ApplyAcquire
<1>2. job # Idle /\ result.kind \in {"unchanged", "missing", "failed", "present"}
  <2>1. job # Idle
    BY <1>1, JobKinds
  <2>2. QED
    BY <1>1, <2>1, JobFacts, JobKinds, ResultKinds
<1>3. \/ update' = update
      \/ update' = Failed /\ update.status # "failed"
      \/ update' = Store(id, job, Replacement(MissingStorage)) /\ update.status # "failed"
      \/ /\ update' = Store(id, job, DeltaOf(id, job, result))
         /\ update.status # "failed" /\ result.kind = "present"
  BY <1>2 DEF ApplyAcquire
<1>4. CASE update' = update
  BY <1>1, <1>4, JobKinds, JobStepInv
<1>5. CASE update' = Failed /\ update.status # "failed"
  <2>1. update.status \in {"open", "failed"}
    BY <1>2, JobFacts DEF IndInv, UpdateTyped
  <2>2. jobs' \in [Ids -> JobType] /\ \A i \in Ids : jobs'[i] = jobs[i] \/ jobs'[i] = Idle
    BY <1>1, JobKinds DEF IndInv
  <2>3. QED
    BY <1>1, <1>5, <2>1, <2>2, FailedInv
<1>6. CASE update' = Store(id, job, Replacement(MissingStorage)) /\ update.status # "failed"
  <2> DEFINE delta == Replacement(MissingStorage)
  <2>1. SoundStorage(MissingStorage, disk[PathOf(id)], writes)
    BY StorageKinds DEF SoundStorage
  <2>2. /\ delta \in DeltaType
        /\ SoundDelta(delta, CommittedStorage(id), disk[PathOf(id)], writes)
    BY <2>1, StorageKinds, ReplacementSound
  <2> HIDE DEF delta
  <2>3. QED
    BY <1>1, <1>2, <1>6, <2>2, StoreInv DEF delta
<1>7. CASE /\ update' = Store(id, job, DeltaOf(id, job, result))
           /\ update.status # "failed" /\ result.kind = "present"
  <2> DEFINE delta == DeltaOf(id, job, result)
  <2>1. /\ delta \in DeltaType
        /\ SoundDelta(delta, CommittedStorage(id), disk[PathOf(id)], writes)
    BY <1>1, <1>7, DeltaOfSound
  <2>2. update' = Store(id, jobs[id], delta)
    BY <1>7
  <2> HIDE DEF delta
  <2>3. QED
    BY <1>1, <1>2, <1>7, <2>1, <2>2, StoreInv
<1>8. QED
  BY <1>3, <1>4, <1>5, <1>6, <1>7

-----------------------------------------------------------------------------
(* A file f becomes g by the next edit, which is observed as a new one.    *)
Edited(f, g, w) == g = f \/ g = Absent \/ (g # Absent /\ g.observation = w + 1)

(* An edit leaves sound what was read before it.                           *)
LEMMA SoundEdited ==
  ASSUME NEW f, NEW g, NEW w \in Nat, Edited(f, g, w)
  PROVE  /\ \A bytes, o : Sound(bytes, o, f, w) => Sound(bytes, o, g, w + 1)
         /\ \A s : SoundStorage(s, f, w) => SoundStorage(s, g, w + 1)
         /\ \A delta, was : SoundDelta(delta, was, f, w) => SoundDelta(delta, was, g, w + 1)
<1>1. ASSUME NEW bytes, NEW o, Sound(bytes, o, f, w) PROVE Sound(bytes, o, g, w + 1)
  <2>1. o \in 0..w
    BY <1>1 DEF Sound
  <2>2. o \in 0..(w + 1) /\ o # w + 1
    BY <2>1
  <2>3. g # Absent /\ g.observation = o => g = f
    BY <2>2 DEF Edited
  <2>4. QED
    BY <1>1, <2>2, <2>3 DEF Sound
<1>2. \A s : SoundStorage(s, f, w) => SoundStorage(s, g, w + 1)
  BY <1>1 DEF SoundStorage
<1>3. \A delta, was : SoundDelta(delta, was, f, w) => SoundDelta(delta, was, g, w + 1)
  BY <1>1, <1>2 DEF SoundDelta
<1>4. QED
  BY <1>1, <1>2, <1>3

(* Somebody edits a file while jobs read.                                  *)
LEMMA EditInv ==
  ASSUME IndInv, UNCHANGED <<instance, committed, update>>,
         writes' = writes + 1, writes + 1 \in 0..MaxWrites,
         disk' \in [Paths -> Files \cup {Absent}],
         \A p \in Paths : Edited(disk[p], disk'[p], writes),
         jobs' \in [Ids -> JobType],
         \A i \in Ids :
           IF jobs[i] = Idle THEN jobs'[i] = Idle
           ELSE /\ jobs'[i].committed = jobs[i].committed
                /\ jobs'[i].baseline = jobs[i].baseline
                /\ SoundJob(jobs'[i], disk'[PathOf(i)], writes + 1)
  PROVE  IndInv'
<1>1. /\ CandidateSources' = CandidateSources /\ Everywhere' = Everywhere
      /\ \A i : PathOf(i)' = PathOf(i)
      /\ \A i : CommittedStorage(i)' = CommittedStorage(i)
      /\ \A i : CandidateState(i)' = CandidateState(i)
      /\ \A i : CandidateIncludes(i)' = CandidateIncludes(i)
  BY DEF CandidateSources, Everywhere, PathOf, CommittedStorage, CandidateState,
         CandidateIncludes
<1>2. \A i \in Everywhere : PathOf(i) \in Paths
  BY CandidateFacts DEF IndInv
<1>3. writes \in Nat
  BY SourceManagerAssumption DEF IndInv
<1>4. CommittedTyped' /\ UpdateTyped'
  BY DEF IndInv, CommittedTyped, UpdateTyped
<1>5. DiskInv'
  BY <1>3 DEF IndInv, DiskInv, Edited
<1>6. StatusInv'
  <2>1. update'.status \in {"closed", "prepared"} => Quiet'
    BY DEF IndInv, StatusInv, Quiet
  <2>2. \A i \in Ids : jobs'[i] # Idle => i \in Everywhere'
    BY <1>1 DEF IndInv, StatusInv
  <2>3. QED
    BY <1>1, <2>1, <2>2 DEF IndInv, StatusInv
<1>7. IdsInv'
  BY <1>1 DEF IndInv, IdsInv
<1>8. GraphInv'
  <2>1. [i \in Everywhere |-> CandidateIncludes(i)]' = [i \in Everywhere |-> CandidateIncludes(i)]
    BY <1>1
  <2>2. ReversedIncludes' = ReversedIncludes /\ CorrectedDependents' = CorrectedDependents
    BY <1>1 DEF ReversedIncludes, CorrectedDependents
  <2>3. QED
    BY <1>1, <2>1, <2>2 DEF IndInv, GraphInv, CommittedAcyclic, Acyclic
<1>9. StorageInv'
  <2>1. ASSUME NEW i \in Everywhere'
        PROVE  SoundStorage(CommittedStorage(i), disk[PathOf(i)], writes)'
    <3>1. SoundStorage(CommittedStorage(i), disk[PathOf(i)], writes)
      BY <1>1 DEF IndInv, StorageInv
    <3>2. SoundStorage(CommittedStorage(i), disk'[PathOf(i)], writes + 1)
      BY <1>1, <1>2, <1>3, <3>1, SoundEdited
    <3>3. QED
      BY <1>1, <3>2 DEF SoundStorage, Sound
  <2>2. ASSUME NEW i \in DOMAIN update'.delta
        PROVE  SoundDelta(update.delta[i], CommittedStorage(i), disk[PathOf(i)], writes)'
    <3>1. /\ SoundDelta(update.delta[i], CommittedStorage(i), disk[PathOf(i)], writes)
          /\ i \in Everywhere
      BY DEF IndInv, StorageInv, StatusInv
    <3>2. SoundDelta(update.delta[i], CommittedStorage(i), disk'[PathOf(i)], writes + 1)
      BY <1>2, <1>3, <3>1, SoundEdited
    <3>3. QED
      BY <1>1, <3>2 DEF SoundDelta, SoundStorage, Sound
  <2>3. QED
    BY <1>1, <2>1, <2>2 DEF IndInv, StorageInv
<1>10. JobInv'
  <2> SUFFICES ASSUME NEW i \in Ids, jobs'[i] # Idle
               PROVE  (/\ SoundJob(jobs[i], disk[PathOf(i)], writes)
                       /\ jobs[i].committed = CommittedStorage(i).state
                       /\ update.status = "open" => jobs[i].baseline = CandidateState(i))'
    BY DEF JobInv
  <2>1. jobs[i] # Idle
    OBVIOUS
  <2>2. SoundJob(jobs[i], disk[PathOf(i)], writes)'
    BY <1>1, <2>1 DEF SoundJob, Sound
  <2>3. QED
    BY <1>1, <2>1, <2>2 DEF IndInv, JobInv
<1>11. QED
  BY <1>4, <1>5, <1>6, <1>7, <1>8, <1>9, <1>10 DEF IndInv

(* What a job reads goes on being one write, or is seen to be none.        *)
LEMMA SoundJobEdited ==
  ASSUME NEW job \in JobType, NEW f, NEW g, NEW w \in Nat, Edited(f, g, w),
         f # Absent => f.observation \in 0..w, SoundJob(job, f, w),
         job.phase = "reading" /\ job.file = Linked => g # Absent
  PROVE  SoundJob(job, g, w + 1)
<1>1. ASSUME job.phase = "reading"
      PROVE  LET handle == IF job.file = Linked THEN g ELSE job.file IN
             /\ job.observation <= w + 1
             /\ job.file = Linked => g # Absent
             /\ job.file # Linked /\ g # Absent => job.observation < g.observation
             /\ handle.observation = job.observation =>
                  \A k \in DOMAIN job.bytes : job.bytes[k] = handle.content
  <2> DEFINE o == job.observation
  <2>1. o \in Nat
    BY <1>1, JobKinds, SourceManagerAssumption
  <2>2. /\ o <= w
        /\ job.file # Linked /\ f # Absent => o < f.observation
        /\ (IF job.file = Linked THEN f ELSE job.file).observation = o =>
             \A k \in DOMAIN job.bytes :
               job.bytes[k] = (IF job.file = Linked THEN f ELSE job.file).content
    BY <1>1 DEF SoundJob
  <2> HIDE DEF o
  <2>3. o <= w + 1 /\ o < w + 1 /\ o # w + 1
    BY <2>1, <2>2
  <2>4. job.file = Linked => g # Absent
    BY <1>1
  <2>5. job.file # Linked /\ g # Absent => o < g.observation
    BY <2>2, <2>3 DEF Edited
  <2>6. job.file = Linked /\ g.observation = o => g = f
    BY <2>3, <2>4 DEF Edited
  <2>7. QED
    BY <2>2, <2>3, <2>4, <2>5, <2>6 DEF o
<1>2. job.phase = "done" /\ job.result.kind = "present" =>
        Sound(job.result.bytes, job.result.observation, g, w + 1)
  BY SoundEdited DEF SoundJob
<1>3. QED
  BY <1>1, <1>2 DEF SoundJob

(* A file is written.                                                      *)
LEMMA WriteFileInv ==
  ASSUME IndInv, UNCHANGED instance, NEW p \in instance.paths, NEW c \in instance.contents,
         WriteFile(p, c)
  PROVE  IndInv'
<1> DEFINE file == [content |-> c, observation |-> writes + 1]
<1>1. /\ writes < instance.writes /\ writes' = writes + 1 /\ disk' = [disk EXCEPT ![p] = file]
      /\ UNCHANGED <<instance, committed, update, jobs>>
  BY DEF WriteFile
<1>2. /\ p \in Paths /\ c \in Contents /\ writes \in Nat
      /\ writes + 1 \in 0..MaxWrites
  BY <1>1, SourceManagerAssumption DEF IndInv
<1>3. file \in Files /\ file.observation = writes + 1
  BY <1>2 DEF Files
<1>4. file # Absent
  BY <1>3, FileKinds
<1> HIDE DEF file
<1>5. /\ disk' \in [Paths -> Files \cup {Absent}]
      /\ \A q \in Paths : disk'[q] = IF q = p THEN file ELSE disk[q]
  BY <1>1, <1>2, <1>3 DEF IndInv
<1>6. \A q \in Paths : Edited(disk[q], disk'[q], writes)
  BY <1>3, <1>4, <1>5 DEF Edited
<1>7. ASSUME NEW i \in Ids, jobs[i] # Idle
      PROVE  SoundJob(jobs[i], disk'[PathOf(i)], writes + 1)
  <2>1. PathOf(i) \in Paths
    BY <1>7, CandidateFacts, JobFacts DEF IndInv
  <2>2. /\ jobs[i] \in JobType /\ SoundJob(jobs[i], disk[PathOf(i)], writes)
        /\ disk[PathOf(i)] # Absent => disk[PathOf(i)].observation \in 0..writes
    BY <1>7, JobFacts
  <2>3. jobs[i].phase = "reading" /\ jobs[i].file = Linked => disk'[PathOf(i)] # Absent
    BY <1>4, <1>5, <2>1, <2>2 DEF SoundJob
  <2>4. Edited(disk[PathOf(i)], disk'[PathOf(i)], writes)
    BY <1>6, <2>1
  <2>5. QED
    BY <1>2, <2>2, <2>3, <2>4, SoundJobEdited
<1>8. jobs' \in [Ids -> JobType]
  BY <1>1 DEF IndInv
<1>9. QED
  BY <1>1, <1>2, <1>5, <1>6, <1>7, <1>8, EditInv

(* A file is removed: whoever reads it keeps it.                           *)
LEMMA RemoveFileInv ==
  ASSUME IndInv, UNCHANGED instance, NEW p \in instance.paths, RemoveFile(p)
  PROVE  IndInv'
<1> DEFINE Keeps(i) == jobs[i].phase = "reading" /\ jobs[i].file = Linked /\ PathOf(i) = p
<1>1. /\ writes < instance.writes /\ writes' = writes + 1 /\ disk' = [disk EXCEPT ![p] = Absent]
      /\ disk[p] # Absent /\ UNCHANGED <<instance, committed, update>>
      /\ jobs' = [i \in Ids |-> IF Keeps(i) THEN [jobs[i] EXCEPT !.file = disk[p]]
                                ELSE jobs[i]]
  BY DEF RemoveFile
<1>2. /\ p \in Paths /\ writes \in Nat /\ writes + 1 \in 0..MaxWrites
  BY <1>1, SourceManagerAssumption DEF IndInv
<1>3. disk[p] \in Files /\ disk[p] # Linked
  BY <1>1, <1>2, FileKinds DEF IndInv
<1>4. /\ disk' \in [Paths -> Files \cup {Absent}]
      /\ \A q \in Paths : disk'[q] = IF q = p THEN Absent ELSE disk[q]
  BY <1>1, <1>2 DEF IndInv
<1>5. \A q \in Paths : Edited(disk[q], disk'[q], writes)
  BY <1>4 DEF Edited
<1>6. ASSUME NEW i \in Ids, Keeps(i)
      PROVE  /\ jobs'[i] \in JobType /\ jobs'[i] # Idle
             /\ jobs'[i].committed = jobs[i].committed
             /\ jobs'[i].baseline = jobs[i].baseline
             /\ SoundJob(jobs'[i], disk'[PathOf(i)], writes + 1)
  <2> DEFINE job == jobs[i]
             next == [job EXCEPT !.file = disk[p]]
  <2>1. jobs'[i] = next /\ job.phase = "reading" /\ job.file = Linked /\ PathOf(i) = p
    BY <1>1, <1>6
  <2>2. job # Idle
    BY <2>1, JobKinds
  <2>3. job \in JobType /\ SoundJob(job, disk[p], writes)
    BY <2>1, <2>2, JobFacts
  <2>4. job \in [phase : {"reading"}, committed : States, baseline : States,
                 file : Files \cup {Linked}, observation : 0..MaxWrites, bytes : Bytes]
    BY <2>1, <2>3 DEF JobType, Idle
  <2> HIDE DEF job
  <2>5. /\ next \in [phase : {"reading"}, committed : States, baseline : States,
                     file : Files \cup {Linked}, observation : 0..MaxWrites, bytes : Bytes]
        /\ next.phase = "reading" /\ next.file = disk[p]
        /\ next.committed = job.committed /\ next.baseline = job.baseline
        /\ next.observation = job.observation /\ next.bytes = job.bytes
    BY <1>3, <2>4
  <2> HIDE DEF next
  <2>6. next \in JobType /\ next # Idle
    <3>1. [phase : {"reading"}, committed : States, baseline : States,
           file : Files \cup {Linked}, observation : 0..MaxWrites, bytes : Bytes] \subseteq JobType
      BY Zenon DEF JobType
    <3>2. next \in JobType
      BY <2>5, <3>1, Zenon
    <3>3. QED
      BY <2>5, <3>2, JobKinds
  <2>7. /\ job.observation <= writes /\ job.observation \in Nat
        /\ disk[p].observation = job.observation =>
             \A k \in DOMAIN job.bytes : job.bytes[k] = disk[p].content
    BY <2>1, <2>3, <2>4, SourceManagerAssumption DEF SoundJob
  <2>8. job.observation <= writes + 1
    BY <1>2, <2>7
  <2>9. SoundJob(next, disk'[PathOf(i)], writes + 1)
    BY <1>2, <1>3, <1>4, <2>1, <2>5, <2>7, <2>8 DEF SoundJob
  <2>10. QED
    BY <2>1, <2>5, <2>6, <2>9 DEF job
<1>7. ASSUME NEW i \in Ids, ~Keeps(i), jobs[i] # Idle
      PROVE  jobs'[i] = jobs[i] /\ SoundJob(jobs[i], disk'[PathOf(i)], writes + 1)
  <2>1. PathOf(i) \in Paths
    BY <1>7, CandidateFacts, JobFacts DEF IndInv
  <2>2. /\ jobs[i] \in JobType /\ SoundJob(jobs[i], disk[PathOf(i)], writes)
        /\ disk[PathOf(i)] # Absent => disk[PathOf(i)].observation \in 0..writes
    BY <1>7, JobFacts
  <2>3. jobs[i].phase = "reading" /\ jobs[i].file = Linked => disk'[PathOf(i)] # Absent
    BY <1>4, <1>7, <2>1, <2>2 DEF SoundJob
  <2>4. Edited(disk[PathOf(i)], disk'[PathOf(i)], writes)
    BY <1>5, <2>1
  <2>5. SoundJob(jobs[i], disk'[PathOf(i)], writes + 1)
    BY <1>2, <2>2, <2>3, <2>4, SoundJobEdited
  <2>6. QED
    BY <1>1, <1>7, <2>5
<1>8. ASSUME NEW i \in Ids, jobs[i] = Idle PROVE jobs'[i] = Idle
  BY <1>1, <1>8, JobKinds
<1>9. jobs' \in [Ids -> JobType]
  <2>1. \A i \in Ids : jobs'[i] \in JobType
    BY <1>6, <1>7, <1>8, JobKinds DEF IndInv
  <2>2. QED
    BY <1>1, <2>1
<1>10. \A i \in Ids :
         IF jobs[i] = Idle THEN jobs'[i] = Idle
         ELSE /\ jobs'[i].committed = jobs[i].committed
              /\ jobs'[i].baseline = jobs[i].baseline
              /\ SoundJob(jobs'[i], disk'[PathOf(i)], writes + 1)
  BY <1>6, <1>7, <1>8
<1>11. QED
  BY <1>1, <1>2, <1>4, <1>5, <1>9, <1>10, EditInv

-----------------------------------------------------------------------------
(* Nothing is committed at first, and every file is its first write.       *)
LEMMA InitIndInv == Init => IndInv
<1> SUFFICES ASSUME Init PROVE IndInv
  OBVIOUS
<1>1. /\ instance \in Instances /\ writes = 0 /\ update = EmptyUpdate
      /\ jobs = [i \in Ids |-> Idle]
      /\ committed = [sources |-> <<>>, by_path |-> <<>>, roots |-> {},
                      physical |-> <<>>, includes |-> <<>>, dependents |-> <<>>,
                      generation |-> 0]
      /\ disk \in [Paths -> [content : instance.contents, observation : {0}] \cup {Absent}]
  BY DEF Init
<1>2. /\ committed.sources = <<>> /\ committed.by_path = <<>> /\ committed.roots = {}
      /\ committed.physical = <<>> /\ committed.includes = <<>>
      /\ committed.dependents = <<>> /\ committed.generation = 0
  BY <1>1
<1>3. instance.contents \subseteq Contents /\ MaxWrites \in Nat /\ MaxGeneration \in Nat
      /\ instance.writes \in 0..MaxWrites
  BY <1>1, SourceManagerAssumption
<1>4. /\ disk \in [Paths -> Files \cup {Absent}] /\ DiskInv
  <2>1. ASSUME NEW f \in [content : instance.contents, observation : {0}]
        PROVE  f \in Files /\ f.observation = 0
    BY <1>3 DEF Files
  <2>2. disk \in [Paths -> Files \cup {Absent}]
    BY <1>1, <2>1
  <2>3. DiskInv
    BY <1>1, <2>1 DEF DiskInv
  <2>4. QED
    BY <2>2, <2>3
<1>5. CommittedTyped
  <2>1. /\ <<>> \in Seq(Paths) /\ Len(<<>>) = 0
        /\ \A S : <<>> \in [1..0 -> S]
    OBVIOUS
  <2>2. 0 \in 0..MaxGeneration
    BY <1>3
  <2>3. QED
    BY <1>2, <2>1, <2>2 DEF CommittedTyped
<1>6. UpdateTyped
  BY <1>1, EmptyFacts, NoEntries DEF UpdateTyped, Partial
<1>7. CandidateSources = <<>> /\ Everywhere = {}
  BY <1>1, <1>2, EmptyFacts, NoEntries DEF CandidateSources, Everywhere
<1>8. StatusInv
  BY <1>1, EmptyFacts, NoEntries DEF StatusInv, Quiet
<1>9. IdsInv
  BY <1>1, <1>2, <1>7, EmptyFacts, NoEntries DEF IdsInv
<1>10. GraphInv
  BY <1>1, <1>2, EmptyFacts, NoEntries DEF GraphInv, CommittedAcyclic
<1>11. \A i : CandidateState(i) = CommittedStorage(i).state
  BY <1>1, EmptyFacts, NoEntries DEF CandidateState
<1>12. StorageInv
  BY <1>1, <1>7, <1>11, EmptyFacts, ClassifySame, NoEntries DEF StorageInv
<1>13. jobs \in [Ids -> JobType] /\ JobInv
  BY <1>1, JobKinds DEF JobInv
<1>14. writes \in 0..MaxWrites
  BY <1>1, <1>3
<1>15. QED
  BY <1>1, <1>4, <1>5, <1>6, <1>8, <1>9, <1>10, <1>12, <1>13, <1>14 DEF IndInv

(* A failure latches.                                                      *)
LEMMA LatchInv ==
  ASSUME IndInv, Open, update' = Failed,
         UNCHANGED <<instance, disk, writes, committed, jobs>>
  PROVE  IndInv'
<1>1. update.status \in {"open", "failed"}
  BY DEF Open
<1>2. jobs' \in [Ids -> JobType]
  BY DEF IndInv
<1>3. UNCHANGED <<instance, disk, writes, committed>>
      /\ \A i \in Ids : jobs'[i] = jobs[i] \/ jobs'[i] = Idle
  OBVIOUS
<1>4. QED
  BY <1>1, <1>2, <1>3, FailedInv

(* The invariant is kept by every step.                                    *)
LEMMA NextIndInv == IndInv /\ [Next]_vars => IndInv' /\ IdsPersist
<1> SUFFICES ASSUME IndInv, [Next]_vars PROVE IndInv' /\ IdsPersist
  OBVIOUS
<1>1. CASE UNCHANGED vars
  <2>1. /\ UNCHANGED <<instance, disk, writes, committed, update>> /\ jobs' = jobs
    BY <1>1 DEF vars
  <2>2. IdsPersist
    BY <2>1 DEF IdsPersist
  <2>3. IndInv'
    BY <2>1, JobsStepInv DEF IndInv
  <2>4. QED
    BY <2>2, <2>3
<1>2. ASSUME BeginUpdate, UNCHANGED instance PROVE IndInv' /\ IdsPersist
  <2>1. Quiet
    BY <1>2 DEF IndInv, StatusInv, BeginUpdate
  <2>2. QED
    BY <1>2, <2>1, EmptyInv DEF BeginUpdate, IdsPersist
<1>3. ASSUME NEW p \in RootPaths, Add(p), UNCHANGED instance PROVE IndInv' /\ IdsPersist
  BY <1>3, AddedInv, SourceManagerAssumption DEF Add, Resolved, IdsPersist
<1>4. ASSUME NEW p \in instance.paths, ResolveInclude(p), UNCHANGED instance
      PROVE  IndInv' /\ IdsPersist
  <2>1. p \in Paths
    BY SourceManagerAssumption DEF IndInv
  <2>2. update' = Failed \/ Resolved(p)
    BY <1>4 DEF ResolveInclude, Resolved
  <2>3. Open /\ Quiet /\ UNCHANGED <<instance, disk, writes, committed, jobs>>
    BY <1>4 DEF ResolveInclude
  <2>4. QED
    BY <2>1, <2>2, <2>3, LatchInv, AddedInv DEF IdsPersist
<1>5. ASSUME NEW id \in Ids, NEW included \in instance.includes, SetIncludes(id, included),
             UNCHANGED instance
      PROVE  IndInv' /\ IdsPersist
  <2>1. /\ Open /\ Quiet /\ UNCHANGED <<instance, disk, writes, committed, jobs>>
        /\ id \in Everywhere
    BY <1>5 DEF SetIncludes, HasSource, Everywhere
  <2>2. CASE update' = Failed
    BY <2>1, <2>2, LatchInv DEF IdsPersist
  <2>3. CASE update' # Failed
    <3>1. included \in SUBSET Everywhere
      BY <1>5, <2>3 DEF SetIncludes, HasSource, Everywhere
    <3>2. update' = [update EXCEPT !.include_delta = Extend(@, id, included),
                                   !.validated = FALSE]
      BY <1>5, <2>3 DEF SetIncludes
    <3>3. QED
      BY <2>1, <3>1, <3>2, SetIncludesInv DEF IdsPersist
  <2>4. QED
    BY <2>2, <2>3
<1>6. ASSUME NEW id \in Ids, UNCHANGED instance,
             \/ PrepareAcquire(id) \/ OpenFile(id) \/ ReadHalf(id)
             \/ Recheck(id) \/ ReadFails(id) \/ ApplyAcquire(id)
      PROVE  IndInv' /\ IdsPersist
  <2>1. committed' = committed
    BY <1>6 DEF PrepareAcquire, OpenFile, ReadHalf, Recheck, ReadFails, ApplyAcquire
  <2>2. IndInv'
    BY <1>6, PrepareAcquireInv, OpenFileInv, ReadHalfInv, RecheckInv, ReadFailsInv,
       ApplyAcquireInv
  <2>3. QED
    BY <2>1, <2>2 DEF IdsPersist
<1>7. ASSUME ValidateSourceGraph, UNCHANGED instance PROVE IndInv' /\ IdsPersist
  <2>1. /\ Open /\ Quiet /\ UNCHANGED <<instance, disk, writes, committed, jobs>>
        /\ \/ update' = Failed
           \/ ~CycleFound /\ update' = [update EXCEPT !.validated = TRUE]
    BY <1>7 DEF ValidateSourceGraph
  <2>2. QED
    BY <2>1, LatchInv, ValidatedInv DEF IdsPersist
<1>8. ASSUME PreparePublish, UNCHANGED instance PROVE IndInv' /\ IdsPersist
  <2>1. /\ Open /\ Quiet /\ UNCHANGED <<instance, disk, writes, committed, jobs>>
    BY <1>8 DEF PreparePublish
  <2>2. CASE update' = Failed
    BY <2>1, <2>2, LatchInv DEF IdsPersist
  <2>3. CASE update' # Failed
    <3>1. /\ update.validated
          /\ \/ /\ committed.sources = <<>>
                /\ update' = [update EXCEPT !.status = "prepared", !.g0 = TRUE,
                                            !.dependents = ReversedIncludes]
             \/ /\ committed.sources # <<>>
                /\ update' = [update EXCEPT !.status = "prepared",
                                            !.dependents = CorrectedDependents]
      BY <1>8, <2>3 DEF PreparePublish
    <3>2. QED
      BY <2>1, <3>1, PreparedInv DEF IdsPersist
  <2>4. QED
    BY <2>2, <2>3
<1>9. ASSUME PublishPrepared, UNCHANGED instance PROVE IndInv' /\ IdsPersist
  BY <1>9, PublishedInv
<1>10. ASSUME Cancel, UNCHANGED instance PROVE IndInv' /\ IdsPersist
  BY <1>10, EmptyInv DEF Cancel, IdsPersist
<1>11. ASSUME NEW p \in instance.paths, UNCHANGED instance,
              RemoveFile(p) \/ \E c \in instance.contents : WriteFile(p, c)
       PROVE  IndInv' /\ IdsPersist
  <2>1. committed' = committed
    BY <1>11 DEF RemoveFile, WriteFile
  <2>2. IndInv'
    BY <1>11, RemoveFileInv, WriteFileInv
  <2>3. QED
    BY <2>1, <2>2 DEF IdsPersist
<1>12. CASE Next
  BY <1>2, <1>3, <1>4, <1>5, <1>6, <1>7, <1>8, <1>9, <1>10, <1>11, <1>12 DEF Next, Step
<1>13. QED
  BY <1>1, <1>12

-----------------------------------------------------------------------------
(* The invariant makes the tables well formed.                             *)
LEMMA IndInvTyped == IndInv => TypeOK
<1> SUFFICES ASSUME IndInv PROVE TypeOK
  OBVIOUS
<1>1. CommittedTyped /\ UpdateTyped /\ committed.sources \in Seq(Paths)
  BY DEF IndInv, CommittedTyped
<1>2. Len(committed.sources) <= Cardinality(Paths)
  <2>1. \A i, j \in DOMAIN committed.sources :
          committed.sources[i] = committed.sources[j] => i = j
    BY <1>1, CandidateFacts DEF IndInv, IdsInv
  <2>2. QED
    BY <1>1, <2>1, SizeBound
<1>3. \A i \in Ids : jobs[i].phase \in {"idle", "opening", "reading", "done"}
  BY JobKinds DEF IndInv
<1>4. QED
  BY <1>1, <1>2, <1>3 DEF TypeOK, IndInv, CommittedTyped, UpdateTyped, DeltaType

(* A path and a source_id belong to each other.                            *)
LEMMA IndInvOneId == IndInv => OneIdPerPath
<1> SUFFICES ASSUME IndInv PROVE OneIdPerPath
  OBVIOUS
<1>1. ASSUME NEW p \in DOMAIN committed.by_path
      PROVE  committed.sources[committed.by_path[p]] = p
  BY DEF IndInv, IdsInv
<1>2. QED
  BY <1>1 DEF OneIdPerPath, IndInv, IdsInv, Everywhere

(* With the exact reverse beside it, the include graph can be followed     *)
(* both ways.                                                              *)
LEMMA IndInvInvalidation == IndInv => CommittedAcyclic /\ InvalidationExact
<1> SUFFICES ASSUME IndInv PROVE CommittedAcyclic /\ InvalidationExact
  OBVIOUS
<1> DEFINE nodes == DOMAIN committed.sources
           next == committed.dependents
           back == committed.includes
<1>1. /\ \A u \in nodes : next[u] \subseteq nodes
      /\ \A u \in nodes : back[u] \subseteq nodes
      /\ \A u, v \in nodes : v \in next[u] <=> u \in back[v]
  <2>1. CommittedTyped /\ UpdateTyped
    BY DEF IndInv
  <2>2. nodes = 1..Len(committed.sources)
    BY <2>1, CandidateFacts
  <2>3. back \in [nodes -> SUBSET nodes] /\ next \in [nodes -> SUBSET nodes]
    BY <2>1, <2>2 DEF CommittedTyped
  <2>4. QED
    BY <2>3 DEF IndInv, GraphInv
<1>2. CommittedAcyclic
  BY DEF IndInv, GraphInv
<1>3. ASSUME NEW s \in nodes, NEW t \in nodes, t # s
      PROVE  t \in CollectDependents(s) <=> s \in Reached(nodes, back, t)
  <2>1. t \in CollectDependents(s) <=> t \in Reached(nodes, next, s)
    BY <1>3 DEF CollectDependents
  <2> HIDE DEF nodes, next, back
  <2>2. t \in Reached(nodes, next, s) => s \in Reached(nodes, back, t)
    BY <1>1, ReachedReversed
  <2>3. s \in Reached(nodes, back, t) => t \in Reached(nodes, next, s)
    BY <1>1, ReachedReversed
  <2>4. QED
    BY <2>1, <2>2, <2>3
<1>4. QED
  BY <1>2, <1>3 DEF InvalidationExact

(* What a reader is told of a Source and the bytes it is given.            *)
LEMMA IndInvView ==
  ASSUME IndInv, NEW i \in Everywhere, CandidateState(i).presence = "present"
  PROVE  /\ Sound(CandidateView(i), CandidateState(i).observation, disk[PathOf(i)], writes)
         /\ CandidateState(i).hash = Hash(CandidateView(i))
<1> DEFINE was == CommittedStorage(i)
           f == disk[PathOf(i)]
           delta == update.delta[i]
<1>1. SoundStorage(was, f, writes) /\ was \in Storages
  BY StorageTyped DEF IndInv, StorageInv
<1>2. CASE i \notin DOMAIN update.delta
  BY <1>1, <1>2 DEF CandidateState, CandidateView, SoundStorage
<1>3. CASE i \in DOMAIN update.delta
  <2>1. SoundDelta(delta, was, f, writes) /\ CandidateState(i) = delta.state
        /\ delta.observation_only \in BOOLEAN
    BY <1>3 DEF IndInv, StorageInv, CandidateState, UpdateTyped, Partial, DeltaType
  <2>2. CASE ~delta.observation_only
    <3>1. CandidateView(i) = delta.replacement.content
      BY <1>3, <2>2 DEF CandidateView
    <3>2. QED
      BY <2>1, <2>2, <3>1 DEF SoundDelta, SoundStorage
  <2>3. CASE delta.observation_only
    <3>1. CandidateView(i) = was.content
      BY <1>3, <2>3 DEF CandidateView
    <3>2. /\ was.state.presence = "present"
          /\ delta.state = [was.state EXCEPT !.observation = delta.state.observation]
          /\ Sound(was.content, delta.state.observation, f, writes)
      BY <2>1, <2>3 DEF SoundDelta
    <3>3. was.state \in [presence : {"present"}, observation : 0..MaxWrites,
                         hash : {Hash(b) : b \in Bytes}]
      BY <1>1, <3>2, StorageKinds DEF Storages
    <3>4. delta.state.hash = was.state.hash
      BY <3>2, <3>3
    <3>5. was.state.hash = Hash(was.content)
      BY <1>1, <3>2 DEF SoundStorage
    <3>6. QED
      BY <2>1, <3>1, <3>2, <3>4, <3>5
  <2>4. QED
    BY <2>1, <2>2, <2>3
<1>4. QED
  BY <1>2, <1>3

(* Sound bytes of the current write are that write.                        *)
LEMMA SoundOneWrite ==
  ASSUME NEW state, NEW bytes, NEW f, NEW w,
         state.presence = "present" => Sound(bytes, state.observation, f, w)
  PROVE  OneWrite(state, bytes, f)
<1> SUFFICES ASSUME state.presence = "present" PROVE OneWrite(state, bytes, f)
  BY DEF OneWrite
<1>1. /\ bytes \in [1..2 -> Contents] /\ bytes[1] = bytes[2]
      /\ f # Absent /\ f.observation = state.observation => bytes[1] = f.content
  BY DEF Sound
<1>2. \A c : bytes[1] = c => bytes = <<c, c>>
  <2>1. \A b \in [1..2 -> Contents] : b \in Seq(Contents) /\ Len(b) = 2
    <3>1. \A n \in 0..2 : \A b \in [1..n -> Contents] : b \in Seq(Contents) /\ Len(b) = n
      OBVIOUS
    <3>2. 2 \in 0..2
      OBVIOUS
    <3>3. QED
      BY <3>1, <3>2, Zenon
  <2>2. \A b \in Seq(Contents) : Len(b) = 2 => b = <<b[1], b[2]>>
    OBVIOUS
  <2>3. bytes = <<bytes[1], bytes[2]>>
    BY <1>1, <2>1, <2>2
  <2>4. QED
    BY <1>1, <2>3
<1>3. QED
  BY <1>1, <1>2 DEF OneWrite

(* Bytes, hash and observation of a Source belong together.                *)
LEMMA IndInvPhysical == IndInv => PhysicalExact
<1> SUFFICES ASSUME IndInv PROVE PhysicalExact
  OBVIOUS
<1>1. ASSUME NEW i \in Everywhere
      PROVE  SoundStorage(CommittedStorage(i), disk[PathOf(i)], writes)
  BY DEF IndInv, StorageInv
<1>2. BytesMatchObservation
  <2>1. ASSUME NEW i \in Everywhere
        PROVE  /\ OneWrite(CommittedStorage(i).state, CommittedStorage(i).content,
                           disk[PathOf(i)])
               /\ OneWrite(CandidateState(i), CandidateView(i), disk[PathOf(i)])
    <3>1. CommittedStorage(i).state.presence = "present" =>
            Sound(CommittedStorage(i).content, CommittedStorage(i).state.observation,
                  disk[PathOf(i)], writes)
      BY <1>1 DEF SoundStorage
    <3>2. QED
      BY <3>1, IndInvView, SoundOneWrite
  <2>2. QED
    BY <2>1 DEF BytesMatchObservation, Everywhere
<1>3. StateMatchesBytes
  BY <1>1, IndInvView DEF StateMatchesBytes, SoundStorage, Everywhere
<1>4. NetChangesExact
  <2>1. Everywhere \subseteq Ids
    BY EverywhereBound
  <2>2. QED
    BY <2>1 DEF NetChangesExact, IndInv, StorageInv, Everywhere
<1>5. QED
  BY <1>2, <1>3, <1>4 DEF PhysicalExact

-----------------------------------------------------------------------------
(* The invariant holds in every behaviour.                                 *)
LEMMA IndInvAlways == Spec => []IndInv
<1>1. IndInv /\ [Next]_vars => IndInv'
  BY NextIndInv
<1>2. QED
  BY InitIndInv, <1>1, PTL DEF Spec

(* A path has one source_id and a source_id one path, after every step;    *)
(* publication never gives a published source_id another path.             *)
THEOREM SourceIdsAlwaysStable == Spec => SourceIdsStable
<1>1. IndInv /\ [Next]_vars => [OneIdPerPath' /\ IdsPersist]_vars
  <2> SUFFICES ASSUME IndInv, [Next]_vars PROVE OneIdPerPath' /\ IdsPersist
    OBVIOUS
  <2>1. IndInv' /\ IdsPersist
    BY NextIndInv
  <2>2. IndInv' => OneIdPerPath'
    BY IndInvOneId, PTL
  <2>3. QED
    BY <2>1, <2>2
<1>2. QED
  BY IndInvAlways, <1>1, PTL DEF Spec, SourceIdsStable

(* The committed include graph is acyclic, although an incremental build   *)
(* only searches from the include lists it replaces, and collect_dependents*)
(* finds exactly the Sources that include a Source, directly or not.       *)
THEOREM IncludesAlwaysExact == Spec => []IncludesExact
<1>1. IndInv => IncludesExact
  BY IndInvTyped, IndInvInvalidation DEF IncludesExact
<1>2. QED
  BY IndInvAlways, <1>1, PTL

(* Stored bytes are one write of the file, and the current one if their    *)
(* observation is; state, hash and change record fit them.                 *)
THEOREM PhysicalAlwaysExact == Spec => []PhysicalExact
BY IndInvAlways, IndInvPhysical, PTL

-----------------------------------------------------------------------------
(* A set of numbers has a least one.                                       *)
LEMMA LeastNumber ==
  ASSUME NEW S \in SUBSET Nat, S # {}
  PROVE  \E m \in S : \A k \in S : m <= k
<1>1. \E m \in S : \A k \in S : ~(<<k, m>> \in OpToRel(<, Nat))
  BY NatLessThanWellFounded, WFMin
<1>2. \A k, m \in Nat : k < m => <<k, m>> \in OpToRel(<, Nat)
  BY DEF OpToRel
<1>3. PICK m \in S : \A k \in S : ~(<<k, m>> \in OpToRel(<, Nat))
  BY <1>1
<1>4. \A k \in S : ~(k < m)
  BY <1>2, <1>3
<1>5. QED
  BY <1>4

(* What a loop from 0 to n keeps.                                          *)
LEMMA Upwards ==
  ASSUME NEW n \in Nat, NEW S, 0 \in S, \A i \in 0..(n - 1) : i \in S => i + 1 \in S
  PROVE  \A i \in 0..n : i \in S
<1> SUFFICES ASSUME NEW j \in 0..n, j \notin S
             PROVE  FALSE
  OBVIOUS
<1> DEFINE T == {i \in 0..n : i \notin S}
<1>1. PICK m \in T : \A k \in T : m <= k
  <2>1. T \in SUBSET Nat /\ T # {}
    OBVIOUS
  <2> HIDE DEF T
  <2>2. QED
    BY <2>1, LeastNumber
<1>2. m # 0 /\ m - 1 \in 0..(n - 1) /\ m - 1 \in S
  BY <1>1
<1>3. QED
  BY <1>1, <1>2

(* Loops whose step is parts[i], one of Written: there is the function     *)
(* that Written chooses.                                                   *)
LEMMA WrittenExists ==
  ASSUME NEW s, NEW n \in Nat
  PROVE  \E g : g = [i \in 0..n |-> IF i = 0 THEN <<>> ELSE g[i - 1] \o s[i]]
<1> DEFINE T == {m \in 0..n :
                   \E g : g = [i \in 0..m |-> IF i = 0 THEN <<>> ELSE g[i - 1] \o s[i]]}
<1>1. 0 \in T
  <2> DEFINE g == [i \in 0..0 |-> <<>>]
  <2>1. g = [i \in 0..0 |-> IF i = 0 THEN <<>> ELSE g[i - 1] \o s[i]]
    OBVIOUS
  <2> HIDE DEF g
  <2>2. QED
    BY <2>1
<1>2. ASSUME NEW m \in 0..(n - 1), m \in T
      PROVE  m + 1 \in T
  <2>1. PICK g : g = [i \in 0..m |-> IF i = 0 THEN <<>> ELSE g[i - 1] \o s[i]]
    BY <1>2
  <2> DEFINE h == [i \in 0..(m + 1) |-> IF i = m + 1 THEN g[m] \o s[m + 1] ELSE g[i]]
  <2>2. ASSUME NEW i \in 0..(m + 1)
        PROVE  h[i] = IF i = 0 THEN <<>> ELSE h[i - 1] \o s[i]
    <3>1. CASE i = m + 1
      <4>1. h[i] = g[m] \o s[i]
        BY <3>1
      <4>2. h[i - 1] = g[m]
        BY <3>1
      <4>3. i # 0
        BY <3>1
      <4> HIDE DEF h
      <4> QED
        BY <4>1, <4>2, <4>3
    <3>2. CASE i # m + 1
      <4>1. i \in 0..m
        BY <3>2
      <4>2. h[i] = g[i]
        BY <3>2
      <4>3. g[i] = IF i = 0 THEN <<>> ELSE g[i - 1] \o s[i]
        BY <2>1, <4>1, Zenon
      <4>4. i # 0 => h[i - 1] = g[i - 1]
        BY <4>1
      <4> HIDE DEF h
      <4> QED
        BY <4>2, <4>3, <4>4
    <3> QED
      BY <3>1, <3>2
  <2>3. h = [i \in 0..(m + 1) |-> IF i = 0 THEN <<>> ELSE h[i - 1] \o s[i]]
    <3>1. h = [i \in 0..(m + 1) |-> h[i]]
      OBVIOUS
    <3> HIDE DEF h
    <3> QED
      BY <2>2, <3>1, Zenon
  <2>4. m + 1 \in 0..n
    OBVIOUS
  <2> HIDE DEF h
  <2> QED
    BY <2>3, <2>4
<1>3. n \in T
  <2> HIDE DEF T
  <2> QED
    BY <1>1, <1>2, Upwards
<1> QED
  BY <1>3

(* What is written grows by one part at a time.                            *)
LEMMA WrittenStep ==
  ASSUME NEW s, Len(s) \in Nat
  PROVE  /\ Written(s)[0] = <<>>
         /\ \A i \in 1..Len(s) : Written(s)[i] = Written(s)[i - 1] \o s[i]
<1> DEFINE f == Written(s)
<1>1. f = [i \in 0..Len(s) |-> IF i = 0 THEN <<>> ELSE f[i - 1] \o s[i]]
  BY WrittenExists, Zenon DEF Written
<1> HIDE DEF f
<1>2. \A i \in 0..Len(s) : f[i] = IF i = 0 THEN <<>> ELSE f[i - 1] \o s[i]
  BY <1>1, Zenon
<1>3. f[0] = <<>>
  BY <1>2
<1>4. ASSUME NEW i \in 1..Len(s)
      PROVE  f[i] = f[i - 1] \o s[i]
  <2>1. i \in 0..Len(s) /\ i # 0
    OBVIOUS
  <2>2. QED
    BY <1>2, <2>1, Zenon
<1>5. QED
  BY <1>3, <1>4, Zenon DEF f

(* There is a function as Doubled describes it, for any number of steps.   *)
LEMMA DoubledExists ==
  ASSUME NEW n \in Nat
  PROVE  \E g : g = [i \in 0..n |-> IF i = 0 THEN 1 ELSE g[i - 1] * 2]
<1> DEFINE T == {m \in 0..n :
                   \E g : g = [i \in 0..m |-> IF i = 0 THEN 1 ELSE g[i - 1] * 2]}
<1>1. 0 \in T
  <2> DEFINE g == [i \in 0..0 |-> 1]
  <2>1. g = [i \in 0..0 |-> IF i = 0 THEN 1 ELSE g[i - 1] * 2]
    OBVIOUS
  <2> HIDE DEF g
  <2>2. QED
    BY <2>1
<1>2. ASSUME NEW m \in 0..(n - 1), m \in T
      PROVE  m + 1 \in T
  <2>1. PICK g : g = [i \in 0..m |-> IF i = 0 THEN 1 ELSE g[i - 1] * 2]
    BY <1>2
  <2> DEFINE h == [i \in 0..(m + 1) |-> IF i = m + 1 THEN g[m] * 2 ELSE g[i]]
  <2>2. ASSUME NEW i \in 0..(m + 1)
        PROVE  h[i] = IF i = 0 THEN 1 ELSE h[i - 1] * 2
    <3>1. CASE i = m + 1
      <4>1. h[i] = g[m] * 2
        BY <3>1
      <4>2. h[i - 1] = g[m]
        BY <3>1
      <4>3. i # 0
        BY <3>1
      <4> HIDE DEF h
      <4> QED
        BY <4>1, <4>2, <4>3
    <3>2. CASE i # m + 1
      <4>1. i \in 0..m
        BY <3>2
      <4>2. h[i] = g[i]
        BY <3>2
      <4>3. g[i] = IF i = 0 THEN 1 ELSE g[i - 1] * 2
        BY <2>1, <4>1, Zenon
      <4>4. i # 0 => h[i - 1] = g[i - 1]
        BY <4>1
      <4> HIDE DEF h
      <4> QED
        BY <4>2, <4>3, <4>4
    <3> QED
      BY <3>1, <3>2
  <2>3. h = [i \in 0..(m + 1) |-> IF i = 0 THEN 1 ELSE h[i - 1] * 2]
    <3>1. h = [i \in 0..(m + 1) |-> h[i]]
      OBVIOUS
    <3> HIDE DEF h
    <3> QED
      BY <2>2, <3>1, Zenon
  <2>4. m + 1 \in 0..n
    OBVIOUS
  <2> HIDE DEF h
  <2> QED
    BY <2>3, <2>4
<1>3. n \in T
  <2> HIDE DEF T
  <2> QED
    BY <1>1, <1>2, Upwards
<1> QED
  BY <1>3

(* Doubled, step by step.                                                  *)
LEMMA DoubledStep ==
  ASSUME NEW n \in Nat
  PROVE  /\ Doubled(n)[0] = 1
         /\ \A i \in 1..n : Doubled(n)[i] = Doubled(n)[i - 1] * 2
<1> DEFINE f == Doubled(n)
<1>1. f = [i \in 0..n |-> IF i = 0 THEN 1 ELSE f[i - 1] * 2]
  BY DoubledExists, Zenon DEF Doubled
<1> HIDE DEF f
<1>2. \A i \in 0..n : f[i] = IF i = 0 THEN 1 ELSE f[i - 1] * 2
  BY <1>1, Zenon
<1>3. QED
  BY <1>2 DEF f

(* A power of two is larger than its exponent.                             *)
LEMMA DoubledGrows ==
  ASSUME NEW n \in Nat
  PROVE  \A k \in 0..n : Doubled(n)[k] \in Nat /\ Doubled(n)[k] >= k + 1
<1> DEFINE S == {k \in 0..n : Doubled(n)[k] \in Nat /\ Doubled(n)[k] >= k + 1}
<1>1. 0 \in S
  BY DoubledStep
<1>2. ASSUME NEW k \in 0..(n - 1), k \in S
      PROVE  k + 1 \in S
  <2>1. Doubled(n)[k + 1] = Doubled(n)[k] * 2
    <3>1. k + 1 \in 1..n /\ (k + 1) - 1 = k
      OBVIOUS
    <3>2. QED
      BY <3>1, DoubledStep
  <2>2. QED
    BY <1>2, <2>1
<1>3. \A k \in 0..n : k \in S
  <2> HIDE DEF S
  <2> QED
    BY <1>1, <1>2, Upwards
<1>4. QED
  BY <1>3

(* The powers do not depend on how many are listed.                        *)
LEMMA DoubledSame ==
  ASSUME NEW m \in Nat, NEW n \in Nat, m <= n
  PROVE  \A k \in 0..m : Doubled(m)[k] = Doubled(n)[k]
<1> DEFINE S == {k \in 0..m : Doubled(m)[k] = Doubled(n)[k]}
<1>1. 0 \in S
  BY DoubledStep
<1>2. ASSUME NEW k \in 0..(m - 1), k \in S
      PROVE  k + 1 \in S
  <2>1. k + 1 \in 1..m /\ k + 1 \in 1..n /\ (k + 1) - 1 = k
    OBVIOUS
  <2>2. Doubled(m)[k + 1] = Doubled(m)[k] * 2 /\ Doubled(n)[k + 1] = Doubled(n)[k] * 2
    BY <2>1, DoubledStep
  <2>3. QED
    BY <1>2, <2>1, <2>2
<1>3. \A k \in 0..m : k \in S
  <2> HIDE DEF S
  <2> QED
    BY <1>1, <1>2, Upwards
<1>4. QED
  BY <1>3

(* An index has a size that decode_container accepts.                      *)
LEMMA CapacityFacts ==
  ASSUME NEW n \in Nat
  PROVE  LET c == PathIndexCapacity(n) IN
         /\ c \in Nat
         /\ n = 0 => c = 0
         /\ n * 10 <= c * 7
         /\ n # 0 => n < c /\ \E k \in 0..c : Doubled(c)[k] = c
<1>1. CASE n = 0
  BY <1>1 DEF PathIndexCapacity
<1>2. CASE n # 0
  <2> DEFINE required == (n * 10 + 6) \div 7
             enough == {k \in 0..required : Doubled(required)[k] >= required}
             c == PathIndexCapacity(n)
  <2>1. required \in Nat /\ required * 7 >= n * 10
    OBVIOUS
  <2>2. required \in enough
    <3> HIDE DEF required
    <3> QED
      BY <2>1, DoubledGrows
  <2>3. \E k \in enough : \A l \in enough : k <= l
    <3>1. enough \in SUBSET Nat
      BY <2>1
    <3> HIDE DEF enough
    <3> QED
      BY <3>1, <2>2, LeastNumber
  <2>4. PICK k \in enough : c = Doubled(required)[k]
    <3>1. c = Doubled(required)[CHOOSE k \in enough : \A l \in enough : k <= l]
      BY <1>2 DEF PathIndexCapacity
    <3> HIDE DEF enough, required, c
    <3> QED
      BY <3>1, <2>3
  <2> HIDE DEF c, required
  <2>5. k \in 0..required /\ c >= required /\ c \in Nat /\ c >= k + 1
    BY <2>1, <2>4, DoubledGrows
  <2>6. k \in 0..c /\ required <= c
    BY <2>1, <2>5
  <2>7. Doubled(c)[k] = c
    BY <2>1, <2>4, <2>5, <2>6, DoubledSame
  <2>8. n * 10 <= c * 7 /\ n < c
    BY <1>2, <2>1, <2>5
  <2>9. QED
    BY <1>2, <2>5, <2>6, <2>7, <2>8 DEF c
<1>3. QED
  BY <1>1, <1>2

-----------------------------------------------------------------------------
(* Parts of a section: sequences over S.                                   *)
Parts(s, S) == Len(s) \in Nat /\ \A i \in 1..Len(s) : s[i] \in Seq(S)

(* The parts are sequences over S.                                         *)
LEMMA WrittenTyped ==
  ASSUME NEW S, NEW s, Parts(s, S)
  PROVE  \A i \in 0..Len(s) : Written(s)[i] \in Seq(S)
<1>0. Len(s) \in Nat /\ \A k \in 1..Len(s) : s[k] \in Seq(S)
  BY DEF Parts
<1> USE <1>0
<1> DEFINE T == {i \in 0..Len(s) : Written(s)[i] \in Seq(S)}
<1>1. 0 \in T
  <2>1. Written(s)[0] = <<>>
    BY WrittenStep, Zenon
  <2>2. <<>> \in Seq(S)
    OBVIOUS
  <2>3. 0 \in 0..Len(s)
    OBVIOUS
  <2>4. QED
    BY <2>1, <2>2, <2>3, Zenon
<1>2. ASSUME NEW i \in 0..(Len(s) - 1), i \in T
      PROVE  i + 1 \in T
  <2>1. i + 1 \in 1..Len(s) /\ (i + 1) - 1 = i
    OBVIOUS
  <2>2. Written(s)[i + 1] = Written(s)[i] \o s[i + 1]
    BY <2>1, WrittenStep
  <2>3. Written(s)[i] \in Seq(S) /\ s[i + 1] \in Seq(S)
    BY <1>2, <2>1
  <2>4. Written(s)[i] \o s[i + 1] \in Seq(S)
    BY <2>3, ConcatProperties, Zenon
  <2>5. i + 1 \in 0..Len(s)
    OBVIOUS
  <2>6. QED
    BY <2>2, <2>4, <2>5, Zenon
<1>3. \A i \in 0..Len(s) : i \in T
  <2> HIDE DEF T
  <2> QED
    BY <1>1, <1>2, Upwards
<1>4. QED
  BY <1>3

(* Of what two parts give, the first is the beginning.                     *)
LEMMA ConcatSlices ==
  ASSUME NEW S, NEW a \in Seq(S), NEW b \in Seq(S)
  PROVE  /\ a \o b \in Seq(S) /\ Len(a \o b) = Len(a) + Len(b)
         /\ \A k \in 1..Len(a) : (a \o b)[k] = a[k]
         /\ \A k \in 1..Len(b) : (a \o b)[Len(a) + k] = b[k]
OBVIOUS

(* One sequence is the beginning of another.                               *)
Begins(a, b) == Len(a) <= Len(b) /\ \A k \in 1..Len(a) : b[k] = a[k]

(* What is written later leaves what has been written.                     *)
LEMMA WrittenKept ==
  ASSUME NEW S, NEW s, Parts(s, S),
         NEW i \in 0..Len(s)
  PROVE  \A m \in i..Len(s) : Begins(Written(s)[i], Written(s)[m])
<1>0. Len(s) \in Nat /\ \A k \in 1..Len(s) : s[k] \in Seq(S)
  BY DEF Parts
<1> USE <1>0
<1> DEFINE w == Written(s)
           Good(m) == Begins(w[i], w[m])
           T == {d \in 0..(Len(s) - i) : Good(i + d)}
<1>1. \A m \in 0..Len(s) : w[m] \in Seq(S)
  BY WrittenTyped
<1>2. \A m \in 1..Len(s) : w[m] = w[m - 1] \o s[m]
  BY WrittenStep
<1> HIDE DEF w
<1>3. 0 \in T
  BY <1>1 DEF Begins
<1>4. ASSUME NEW d \in 0..((Len(s) - i) - 1), d \in T
      PROVE  d + 1 \in T
  <2>1. i + d \in 0..Len(s) /\ i + (d + 1) \in 1..Len(s) /\ (i + (d + 1)) - 1 = i + d
    OBVIOUS
  <2>2. w[i + (d + 1)] = w[i + d] \o s[i + (d + 1)]
    BY <1>2, <2>1
  <2>3. w[i + d] \in Seq(S) /\ s[i + (d + 1)] \in Seq(S) /\ w[i] \in Seq(S)
    BY <1>1, <2>1
  <2>4. Good(i + d)
    BY <1>4
  <2> DEFINE a == w[i + d]
             b == s[i + (d + 1)]
  <2>5. /\ Len(w[i + (d + 1)]) = Len(a) + Len(b)
        /\ \A k \in 1..Len(a) : w[i + (d + 1)][k] = a[k]
    <3>1. a \in Seq(S) /\ b \in Seq(S) /\ w[i + (d + 1)] = a \o b
      BY <2>2, <2>3
    <3> HIDE DEF a, b
    <3>2. /\ Len(a \o b) = Len(a) + Len(b)
          /\ \A k \in 1..Len(a) : (a \o b)[k] = a[k]
      BY <3>1, ConcatSlices, Zenon
    <3>3. QED
      BY <3>1, <3>2, Zenon
  <2>6. Len(a) \in Nat /\ Len(b) \in Nat /\ Len(w[i]) \in Nat
    BY <2>3
  <2> HIDE DEF a, b
  <2>7. Good(i + (d + 1))
    <3>1. /\ Len(w[i]) <= Len(a)
          /\ \A k \in 1..Len(w[i]) : a[k] = w[i][k]
      BY <2>4 DEF a, Begins
    <3>2. Len(w[i]) <= Len(w[i + (d + 1)])
      BY <3>1, <2>5, <2>6
    <3>3. \A k \in 1..Len(w[i]) : k \in 1..Len(a)
      BY <3>1, <2>6
    <3>4. QED
      BY <3>1, <3>2, <3>3, <2>5, Zenon DEF Begins
  <2>8. QED
    BY <2>1, <2>7
<1>5. \A d \in 0..(Len(s) - i) : d \in T
  <2>1. Len(s) - i \in Nat
    OBVIOUS
  <2> HIDE DEF T
  <2> QED
    BY <1>3, <1>4, <2>1, Upwards
<1>6. ASSUME NEW m \in i..Len(s)
      PROVE  Good(m)
  <2>1. m - i \in 0..(Len(s) - i) /\ i + (m - i) = m
    OBVIOUS
  <2>2. m - i \in T
    BY <1>5, <2>1
  <2>3. QED
    BY <2>1, <2>2
<1>7. QED
  BY <1>6 DEF w

(* A part of a sequence, from one place up to another.                     *)
Slice(all, from, to, part) ==
  /\ to = from + Len(part) /\ to <= Len(all)
  /\ \A k \in 1..Len(part) : all[from + k] = part[k]
  /\ SubSeq(all, from + 1, to) = part

(* Where part i is in the end.                                             *)
LEMMA WrittenSlice ==
  ASSUME NEW S, NEW s, Parts(s, S),
         NEW i \in 1..Len(s)
  PROVE  Slice(Written(s)[Len(s)], Len(Written(s)[i - 1]), Len(Written(s)[i]), s[i])
<1>0. Len(s) \in Nat /\ \A k \in 1..Len(s) : s[k] \in Seq(S)
  BY DEF Parts
<1> USE <1>0
<1> DEFINE w == Written(s)
           all == w[Len(s)]
<1>1. i - 1 \in 0..Len(s) /\ i \in 0..Len(s) /\ Len(s) \in i..Len(s)
  OBVIOUS
<1>2. all \in Seq(S) /\ w[i - 1] \in Seq(S) /\ w[i] \in Seq(S) /\ s[i] \in Seq(S)
  BY <1>1, WrittenTyped
<1>3. w[i] = w[i - 1] \o s[i]
  BY WrittenStep
<1>4. /\ Len(w[i]) <= Len(all)
      /\ \A k \in 1..Len(w[i]) : all[k] = w[i][k]
  <2> HIDE DEF w, all
  <2>1. i \in 0..Len(s)
    BY <1>1
  <2>2. \A m \in i..Len(s) : Begins(Written(s)[i], Written(s)[m])
    BY <2>1, WrittenKept
  <2>3. QED
    BY <1>1, <2>2, Zenon DEF w, all, Begins
<1> HIDE DEF all, w
<1>5. /\ Len(w[i]) = Len(w[i - 1]) + Len(s[i])
      /\ \A k \in 1..Len(s[i]) : w[i][Len(w[i - 1]) + k] = s[i][k]
  <2> DEFINE a == w[i - 1]
             b == s[i]
  <2>1. a \in Seq(S) /\ b \in Seq(S) /\ w[i] = a \o b
    BY <1>2, <1>3
  <2> HIDE DEF a, b
  <2>2. /\ Len(a \o b) = Len(a) + Len(b)
        /\ \A k \in 1..Len(b) : (a \o b)[Len(a) + k] = b[k]
    BY <2>1, ConcatSlices
  <2>3. /\ Len(w[i]) = Len(a) + Len(b)
        /\ \A k \in 1..Len(b) : w[i][Len(a) + k] = b[k]
    BY <2>1, <2>2, Zenon
  <2>4. QED
    BY <2>3 DEF a, b
<1> DEFINE p == Len(w[i - 1])
           q == Len(w[i])
<1>10. p \in Nat /\ q \in Nat /\ Len(s[i]) \in Nat /\ Len(all) \in Nat
  BY <1>2
<1>6. \A k \in 1..Len(s[i]) : all[p + k] = s[i][k]
  <2>1. ASSUME NEW k \in 1..Len(s[i])
        PROVE  p + k \in 1..q
    <3>1. q = p + Len(s[i])
      BY <1>5
    <3> HIDE DEF p, q
    <3>2. QED
      BY <1>10, <3>1
  <2>2. QED
    BY <1>4, <1>5, <2>1, Zenon
<1>7. SubSeq(all, Len(w[i - 1]) + 1, Len(w[i])) = s[i]
  <2>1. p \in Nat /\ q \in Nat /\ q = p + Len(s[i]) /\ q <= Len(all) /\ Len(s[i]) \in Nat
    BY <1>10, <1>4, <1>5, Zenon
  <2>2. \A k \in 1..Len(s[i]) : all[p + k] = s[i][k]
    BY <1>6
  <2> HIDE DEF p, q
  <2>3. SubSeq(all, p + 1, q) \in Seq(S) /\ Len(SubSeq(all, p + 1, q)) = Len(s[i])
    BY <1>2, <2>1
  <2>4. \A k \in 1..Len(s[i]) : SubSeq(all, p + 1, q)[k] = s[i][k]
    BY <1>2, <2>1, <2>2
  <2>5. SubSeq(all, p + 1, q) = s[i]
    BY <1>2, <2>3, <2>4, SeqEqual
  <2>6. QED
    BY <2>5 DEF p, q
<1>8. QED
  BY <1>4, <1>5, <1>6, <1>7, Zenon DEF all, w, Slice

(* Whatever is written belongs to one part.                                *)
LEMMA WrittenCovered ==
  ASSUME NEW S, NEW s, Parts(s, S),
         NEW j \in 1..Len(Written(s)[Len(s)])
  PROVE  /\ \E i \in 1..Len(s) : Len(Written(s)[i - 1]) < j /\ j <= Len(Written(s)[i])
         /\ \A i, m \in 1..Len(s) :
              /\ Len(Written(s)[i - 1]) < j /\ j <= Len(Written(s)[i])
              /\ Len(Written(s)[m - 1]) < j /\ j <= Len(Written(s)[m])
              => i = m
<1>0. Len(s) \in Nat /\ \A k \in 1..Len(s) : s[k] \in Seq(S)
  BY DEF Parts
<1> USE <1>0
<1> DEFINE w == Written(s)
           T == {i \in 0..Len(s) : j <= Len(w[i])}
<1>1. \A i \in 0..Len(s) : w[i] \in Seq(S) /\ Len(w[i]) \in Nat
  BY WrittenTyped
<1>2. w[0] = <<>>
  BY WrittenStep
<1>3. \A i \in 0..Len(s) : \A m \in i..Len(s) : Len(w[i]) <= Len(w[m])
  BY WrittenKept DEF Begins
<1>4. j \in Nat /\ j >= 1 /\ j <= Len(w[Len(s)])
  <2>1. Len(w[Len(s)]) \in Nat
    BY <1>1
  <2>2. QED
    BY <2>1
<1> HIDE DEF w
<1>5. PICK i \in T : \A k \in T : i <= k
  <2>1. T \in SUBSET Nat /\ Len(s) \in T
    BY <1>4
  <2> HIDE DEF T
  <2>2. QED
    BY <2>1, LeastNumber
<1>6. i # 0
  BY <1>2, <1>4
<1>7. i \in 1..Len(s) /\ Len(w[i - 1]) < j /\ j <= Len(w[i])
  BY <1>1, <1>4, <1>5, <1>6
<1>8. ASSUME NEW k \in 1..Len(s), NEW m \in 1..Len(s),
             Len(w[k - 1]) < j, j <= Len(w[k]), Len(w[m - 1]) < j, j <= Len(w[m])
      PROVE  ~(k < m)
  <2> SUFFICES ASSUME k < m PROVE FALSE
    OBVIOUS
  <2>1. k \in 0..Len(s) /\ m - 1 \in k..Len(s) /\ m - 1 \in 0..Len(s)
    OBVIOUS
  <2>2. Len(w[k]) <= Len(w[m - 1]) /\ Len(w[k]) \in Nat /\ Len(w[m - 1]) \in Nat
    BY <1>1, <1>3, <2>1
  <2>3. QED
    BY <1>8, <1>4, <2>2
<1>9. QED
  BY <1>7, <1>8 DEF w

(* A finite set as a list.                                                 *)
LEMMA SetToSeqFacts ==
  ASSUME NEW S, IsFiniteSet(S)
  PROVE  /\ SetToSeq(S) \in Seq(S)
         /\ Len(SetToSeq(S)) = Cardinality(S)
         /\ ToSet(SetToSeq(S)) = S
         /\ \A i, j \in 1..Len(SetToSeq(S)) : SetToSeq(S)[i] = SetToSeq(S)[j] => i = j
<1> DEFINE n == Cardinality(S)
           f == SetToSeq(S)
<1>1. n \in Nat /\ ExistsBijection(1..n, S)
  BY FS_CardinalityType
<1>2. \E g \in [1..n -> S] : IsInjective(g)
  BY <1>1 DEF ExistsBijection, Bijection, Injection
<1>3. f \in [1..n -> S] /\ IsInjective(f)
  BY <1>2 DEF SetToSeq
<1> HIDE DEF f
<1>4. f \in Seq(S) /\ Len(f) = n /\ DOMAIN f = 1..n
  BY <1>1, <1>3
<1>5. f \in Injection(1..n, S)
  BY <1>3 DEF Injection
<1>6. Cardinality(1..n) = n
  <2>1. Cardinality(1..n) = IF 1 > n THEN 0 ELSE n - 1 + 1
    BY <1>1, FS_Interval
  <2> HIDE DEF n
  <2>2. QED
    BY <1>1, <2>1
<1>7. f \in Surjection(1..n, S)
  BY <1>5, <1>6, FS_Injection
<1>8. ToSet(f) = S
  BY <1>3, <1>4, <1>7 DEF ToSet, Surjection
<1>9. QED
  BY <1>3, <1>4, <1>8 DEF f, IsInjective

-----------------------------------------------------------------------------
(* A table of rows of ids.                                                 *)
Rows(rows, n) == n \in Nat /\ rows \in [1..n -> SUBSET (1..n)]

(* The rows as they are written, each in some order.                       *)
RowParts(rows) == [i \in DOMAIN rows |-> SetToSeq(rows[i])]

(* A sequence over a set is one over a larger set.                         *)
LEMMA SequenceOverMore ==
  ASSUME NEW S, NEW T, S \subseteq T, NEW f \in Seq(S)
  PROVE  f \in Seq(T)
OBVIOUS

(* Rows are finite, and there are as many parts as rows.                   *)
LEMMA RowFacts ==
  ASSUME NEW n, NEW rows, Rows(rows, n)
  PROVE  /\ n \in Nat /\ Len(rows) = n /\ DOMAIN rows = 1..n
         /\ Len(RowParts(rows)) = n
         /\ Parts(RowParts(rows), 1..n)
         /\ \A i \in 1..n :
              /\ RowParts(rows)[i] = SetToSeq(rows[i])
              /\ rows[i] \subseteq 1..n /\ IsFiniteSet(rows[i])
<1>1. n \in Nat /\ rows \in [1..n -> SUBSET (1..n)] /\ DOMAIN rows = 1..n
  BY DEF Rows
<1>2. Len(rows) = n
  BY <1>1
<1>3. RowParts(rows) \in [1..n -> {SetToSeq(rows[i]) : i \in 1..n}] /\ Len(RowParts(rows)) = n
  BY <1>1 DEF RowParts
<1>4. ASSUME NEW i \in 1..n
      PROVE  /\ RowParts(rows)[i] = SetToSeq(rows[i])
             /\ rows[i] \subseteq 1..n /\ IsFiniteSet(rows[i])
             /\ SetToSeq(rows[i]) \in Seq(1..n)
  <2>1. RowParts(rows)[i] = SetToSeq(rows[i]) /\ rows[i] \subseteq 1..n
    BY <1>1 DEF RowParts
  <2>2. IsFiniteSet(1..n)
    BY <1>1, FS_Interval
  <2>3. IsFiniteSet(rows[i])
    BY <2>1, <2>2, FS_Subset
  <2>4. SetToSeq(rows[i]) \in Seq(rows[i])
    BY <2>3, SetToSeqFacts
  <2>5. SetToSeq(rows[i]) \in Seq(1..n)
    BY <2>1, <2>4, SequenceOverMore, Zenon
  <2>6. QED
    BY <2>1, <2>3, <2>5
<1>5. Parts(RowParts(rows), 1..n)
  <2>1. \A i \in 1..n : RowParts(rows)[i] \in Seq(1..n)
    BY <1>4, Zenon
  <2>2. QED
    BY <1>1, <1>3, <2>1 DEF Parts
<1>6. QED
  BY <1>1, <1>2, <1>3, <1>4, <1>5

(* The rows of a compressed table: where they are, and what they hold.     *)
LEMMA CompressedFacts ==
  ASSUME NEW n, NEW rows, Rows(rows, n)
  PROVE  LET r == CompressedRows(rows) IN
         /\ r.offsets \in Seq(Nat) /\ Len(r.offsets) = n + 1
         /\ r.edges \in Seq(1..n)
         /\ r.offsets[1] = 0 /\ r.offsets[n + 1] = Len(r.edges)
         /\ \A i \in 1..n :
              /\ r.offsets[i] <= r.offsets[i + 1] /\ r.offsets[i + 1] <= Len(r.edges)
              /\ r.offsets[i + 1] = r.offsets[i] + Len(SetToSeq(rows[i]))
              /\ SubSeq(r.edges, r.offsets[i] + 1, r.offsets[i + 1]) = SetToSeq(rows[i])
              /\ \A k \in 1..Len(SetToSeq(rows[i])) :
                   r.edges[r.offsets[i] + k] = SetToSeq(rows[i])[k]
         /\ \A j \in 1..Len(r.edges) :
              /\ \E i \in 1..n : r.offsets[i] < j /\ j <= r.offsets[i + 1]
              /\ \A i, m \in 1..n :
                   /\ r.offsets[i] < j /\ j <= r.offsets[i + 1]
                   /\ r.offsets[m] < j /\ j <= r.offsets[m + 1]
                   => i = m
<1> DEFINE r == CompressedRows(rows)
           s == RowParts(rows)
           w == Written(s)
<1>1. /\ n \in Nat /\ Len(rows) = n /\ DOMAIN rows = 1..n
      /\ Len(s) = n /\ Parts(s, 1..n)
      /\ \A i \in 1..n : s[i] = SetToSeq(rows[i])
  BY RowFacts
<1>2. r = [offsets |-> [i \in 1..(n + 1) |-> Len(w[i - 1])], edges |-> w[n]]
  BY <1>1 DEF CompressedRows, RowParts
<1> HIDE DEF r, s
<1>3. \A i \in 0..n : w[i] \in Seq(1..n) /\ Len(w[i]) \in Nat
  BY <1>1, WrittenTyped
<1>4. /\ r.edges = w[n]
      /\ r.offsets = [i \in 1..(n + 1) |-> Len(w[i - 1])]
  BY <1>2
<1>5. \A i \in 1..(n + 1) : r.offsets[i] = Len(w[i - 1]) /\ i - 1 \in 0..n
  BY <1>1, <1>4
<1>6. r.offsets \in Seq(Nat) /\ Len(r.offsets) = n + 1
  <2>1. r.offsets \in [1..(n + 1) -> Nat]
    BY <1>1, <1>3, <1>4
  <2>2. QED
    BY <1>1, <2>1
<1>7. r.edges \in Seq(1..n)
  BY <1>1, <1>3, <1>4
<1>8. r.offsets[1] = 0 /\ r.offsets[n + 1] = Len(r.edges)
  <2>1. w[0] = <<>>
    BY <1>1, WrittenStep
  <2>2. r.offsets[1] = Len(w[0]) /\ r.offsets[n + 1] = Len(w[n])
    BY <1>1, <1>5
  <2>3. QED
    BY <2>1, <2>2, <1>4
<1>9. ASSUME NEW i \in 1..n
      PROVE  /\ r.offsets[i] <= r.offsets[i + 1] /\ r.offsets[i + 1] <= Len(r.edges)
             /\ r.offsets[i + 1] = r.offsets[i] + Len(SetToSeq(rows[i]))
             /\ SubSeq(r.edges, r.offsets[i] + 1, r.offsets[i + 1]) = SetToSeq(rows[i])
             /\ \A k \in 1..Len(SetToSeq(rows[i])) :
                  r.edges[r.offsets[i] + k] = SetToSeq(rows[i])[k]
  <2>1. r.offsets[i] = Len(w[i - 1]) /\ r.offsets[i + 1] = Len(w[i])
    <3>1. i \in 1..(n + 1) /\ i + 1 \in 1..(n + 1) /\ (i + 1) - 1 = i
      BY <1>1
    <3>2. QED
      BY <3>1, <1>5
  <2>2. /\ Len(w[i]) = Len(w[i - 1]) + Len(s[i])
        /\ Len(w[i]) <= Len(w[n])
        /\ \A k \in 1..Len(s[i]) : w[n][Len(w[i - 1]) + k] = s[i][k]
        /\ SubSeq(w[n], Len(w[i - 1]) + 1, Len(w[i])) = s[i]
    <3>1. i \in 1..Len(s)
      BY <1>1
    <3>2. Slice(w[Len(s)], Len(w[i - 1]), Len(w[i]), s[i])
      BY <1>1, <3>1, WrittenSlice
    <3>3. Slice(w[n], Len(w[i - 1]), Len(w[i]), s[i])
      BY <1>1, <3>2
    <3>4. QED
      BY <3>3, Zenon DEF Slice
  <2>3. Len(w[i - 1]) \in Nat /\ Len(w[i]) \in Nat
    <3>1. i - 1 \in 0..n /\ i \in 0..n
      BY <1>1
    <3>2. QED
      BY <3>1, <1>3
  <2>4. s[i] = SetToSeq(rows[i])
    BY <1>1
  <2>5. s[i] \in Seq(1..n)
    BY <1>1 DEF Parts
  <2>6. Len(s[i]) \in Nat
    BY <2>5
  <2>7. Len(w[i - 1]) <= Len(w[i])
    <3> DEFINE p == Len(w[i - 1])
               q == Len(w[i])
    <3>1. p \in Nat /\ q \in Nat /\ q = p + Len(s[i])
      BY <2>2, <2>3
    <3> HIDE DEF p, q
    <3>2. p <= q
      BY <2>6, <3>1
    <3>3. QED
      BY <3>2 DEF p, q
  <2> HIDE DEF w
  <2>8. QED
    BY <2>1, <2>2, <2>4, <2>7, <1>4, Zenon
<1>10. ASSUME NEW j \in 1..Len(r.edges)
       PROVE  /\ \E i \in 1..n : r.offsets[i] < j /\ j <= r.offsets[i + 1]
              /\ \A i, m \in 1..n :
                   /\ r.offsets[i] < j /\ j <= r.offsets[i + 1]
                   /\ r.offsets[m] < j /\ j <= r.offsets[m + 1]
                   => i = m
  <2>1. \A i \in 1..n : r.offsets[i] = Len(w[i - 1]) /\ r.offsets[i + 1] = Len(w[i])
    <3> SUFFICES ASSUME NEW i \in 1..n
                 PROVE  r.offsets[i] = Len(w[i - 1]) /\ r.offsets[i + 1] = Len(w[i])
      OBVIOUS
    <3>1. i \in 1..(n + 1) /\ i + 1 \in 1..(n + 1) /\ (i + 1) - 1 = i
      BY <1>1
    <3>2. QED
      BY <3>1, <1>5
  <2>2. j \in 1..Len(w[Len(s)])
    BY <1>1, <1>4
  <2>3. /\ \E i \in 1..Len(s) : Len(w[i - 1]) < j /\ j <= Len(w[i])
        /\ \A i, m \in 1..Len(s) :
              /\ Len(w[i - 1]) < j /\ j <= Len(w[i])
              /\ Len(w[m - 1]) < j /\ j <= Len(w[m])
              => i = m
    BY <1>1, <2>2, WrittenCovered, Zenon
  <2> HIDE DEF w
  <2>4. QED
    BY <1>1, <2>1, <2>3, Zenon
<1>11. QED
  BY <1>6, <1>7, <1>8, <1>9, <1>10 DEF r

-----------------------------------------------------------------------------
(* Numbers that wrap around.                                               *)
LEMMA WrapsInto ==
  ASSUME NEW a \in Nat, NEW c \in Nat, c # 0
  PROVE  a % c \in 0..(c - 1)
OBVIOUS

(* Counting up, all numbers below c come by.                               *)
LEMMA WrapsOnto ==
  ASSUME NEW a \in Nat, NEW c \in Nat, NEW b \in 0..(c - 1)
  PROVE  \E k \in 0..(c - 1) : (a + k) % c = b
<1> DEFINE q == a \div c
           r == a % c
<1>1. q \in Int /\ r \in 0..(c - 1) /\ a = q * c + r
  OBVIOUS
<1> HIDE DEF q, r
<1>2. CASE b >= r
  <2>1. b - r \in 0..(c - 1) /\ a + (b - r) = q * c + b
    BY <1>1, <1>2
  <2>2. (q * c + b) % c = b
    BY <1>1
  <2>3. QED
    BY <2>1, <2>2
<1>3. CASE b < r
  <2>1. (b - r) + c \in 0..(c - 1) /\ a + ((b - r) + c) = (q + 1) * c + b
    BY <1>1, <1>3
  <2>2. ((q + 1) * c + b) % c = b
    BY <1>1
  <2>3. QED
    BY <2>1, <2>2
<1>4. QED
  BY <1>1, <1>2, <1>3

(* A search stays in the index and visits all of it.                       *)
LEMMA ProbeFacts ==
  ASSUME NEW capacity \in Nat, capacity # 0, NEW hash, hash.bucket \in Nat
  PROVE  /\ \A k \in Nat : Probe(capacity, hash, k) \in 0..(capacity - 1)
         /\ \A b \in 0..(capacity - 1) :
              \E k \in 0..(capacity - 1) : Probe(capacity, hash, k) = b
<1> DEFINE a == hash.bucket
<1>1. a \in Nat
  OBVIOUS
<1> HIDE DEF a
<1>2. \A k \in Nat : (a + k) % capacity \in 0..(capacity - 1)
  BY <1>1, WrapsInto
<1>3. \A b \in 0..(capacity - 1) : \E k \in 0..(capacity - 1) : (a + k) % capacity = b
  BY <1>1, WrapsOnto
<1>4. QED
  BY <1>2, <1>3 DEF a, Probe

-----------------------------------------------------------------------------
(* The numbers of an image, whatever they are.                             *)
Decoded(image) ==
  /\ image.header.sources \in Nat /\ image.header.capacity \in Nat
  /\ \A id \in SourceIds(image) :
       image.core[id].offset \in Nat /\ image.core[id].length \in Nat
  /\ image.bytes \in Seq(Nat)
  /\ \A rows \in {image.forward, image.reverse} :
       /\ \A i \in 1..(image.header.sources + 1) : rows.offsets[i] \in Nat
       /\ rows.edges \in Seq(Nat)

(* A search of FindInView: the entries it visits and where it may end.     *)
Entry(image, bytes, k) ==
  image.index[Probe(image.header.capacity, PathHash(bytes), k)]

(* An entry that cannot be.                                                *)
Bad(image, bytes, k) ==
  LET entry == Entry(image, bytes, k) IN
  \/ entry.id = 0 /\ entry.fingerprint # 0
  \/ entry.id > image.header.sources
  \/ /\ entry.id \in SourceIds(image)
     /\ entry.fingerprint = PathHash(bytes).fingerprint
     /\ PathBytes(image, entry.id) = Corrupt

(* The entry that is looked for.                                           *)
Hit(image, bytes, k) ==
  LET entry == Entry(image, bytes, k) IN
  /\ entry.id \in SourceIds(image)
  /\ entry.fingerprint = PathHash(bytes).fingerprint
  /\ PathBytes(image, entry.id) = bytes

(* Where a search may end.                                                 *)
Stops(image, bytes) ==
  {k \in 0..(image.header.capacity - 1) :
     Entry(image, bytes, k).id = 0 \/ Bad(image, bytes, k) \/ Hit(image, bytes, k)}

(* What a search finds at place k.                                         *)
Found(image, bytes, k) ==
  IF Bad(image, bytes, k) THEN Corrupt
  ELSE IF Entry(image, bytes, k).id = 0 THEN NotAvailable
  ELSE Entry(image, bytes, k).id

(* A search answers with what it finds where it stops first.               *)
LEMMA FindOutcome ==
  ASSUME NEW image, NEW bytes, image.header.capacity \in Nat
  PROVE  \/ image.header.capacity = 0 /\ FindInView(image, bytes) = NotAvailable
         \/ /\ image.header.capacity # 0
            /\ Stops(image, bytes) = {} /\ FindInView(image, bytes) = Corrupt
         \/ /\ image.header.capacity # 0
            /\ \E k \in Stops(image, bytes) :
                 /\ \A l \in Stops(image, bytes) : k <= l
                 /\ FindInView(image, bytes) = Found(image, bytes, k)
<1> DEFINE c == image.header.capacity
           stops == Stops(image, bytes)
           first == CHOOSE k \in stops : \A l \in stops : k <= l
<1>1. FindInView(image, bytes) =
        CASE c = 0 -> NotAvailable
          [] c > 0 /\ (stops = {} \/ Bad(image, bytes, first)) -> Corrupt
          [] OTHER -> IF Entry(image, bytes, first).id = 0 THEN NotAvailable
                      ELSE Entry(image, bytes, first).id
  BY Zenon DEF FindInView, Stops, Bad, Hit, Entry
<1>2. stops \in SUBSET Nat
  BY DEF Stops
<1>3. c \in Nat
  OBVIOUS
<1> HIDE DEF c, stops
<1>4. stops # {} => first \in stops /\ \A l \in stops : first <= l
  BY <1>2, LeastNumber
<1> HIDE DEF first
<1>5. CASE c = 0
  BY <1>1, <1>5 DEF c
<1>6. CASE c # 0 /\ stops = {}
  <2>1. FindInView(image, bytes) = Corrupt
    BY <1>1, <1>3, <1>6
  <2>2. QED
    BY <1>6, <2>1 DEF c, stops
<1>7. CASE c # 0 /\ stops # {}
  <2>1. FindInView(image, bytes) = Found(image, bytes, first)
    BY <1>1, <1>3, <1>7 DEF Found
  <2>2. QED
    BY <1>4, <1>7, <2>1 DEF c, stops
<1>8. QED
  BY <1>5, <1>6, <1>7

(* A view answers with an id, or says why not.                             *)
LEMMA FindAnswers ==
  ASSUME NEW image, NEW bytes, image.header.capacity \in Nat
  PROVE  FindInView(image, bytes) \in SourceIds(image) \cup {NotAvailable, Corrupt}
<1>1. \A k \in Stops(image, bytes) :
        Found(image, bytes, k) \in SourceIds(image) \cup {NotAvailable, Corrupt}
  BY DEF Found, Stops, Hit
<1>2. QED
  BY <1>1, FindOutcome, Zenon

-----------------------------------------------------------------------------
(* Buckets and Sources of a path index that has been validated.            *)
LEMMA ValidBuckets ==
  ASSUME NEW image, Decoded(image), DecodeContainer(image), ValidatePathIndex(image)
  PROVE  LET c == image.header.capacity IN
         /\ \A b \in 0..(c - 1) :
              \/ image.index[b].id = 0 /\ image.index[b].fingerprint = 0
              \/ /\ image.index[b].id \in SourceIds(image)
                 /\ PathBytes(image, image.index[b].id) # Corrupt
                 /\ PathHash(PathBytes(image, image.index[b].id)).fingerprint =
                      image.index[b].fingerprint
                 /\ \E k \in 0..(c - 1) :
                      /\ Probe(c, PathHash(PathBytes(image, image.index[b].id)), k) = b
                      /\ \A l \in 0..k :
                           image.index[Probe(c, PathHash(PathBytes(image, image.index[b].id)), l)].id # 0
         /\ \A id \in SourceIds(image) : \E b \in 0..(c - 1) : image.index[b].id = id
         /\ c # 0 => \E b \in 0..(c - 1) : image.index[b].id = 0
<1> DEFINE c == image.header.capacity
           n == image.header.sources
<1>1. c \in Nat /\ n \in Nat
  BY DEF Decoded
<1>2. DOMAIN image.index = 0..(c - 1)
  BY DEF DecodeContainer
<1>3. n = 0 => c = 0
  BY DEF DecodeContainer
<1>4. n # 0 => n * 10 <= c * 7
  BY DEF DecodeContainer
<1>5. SourceIds(image) = 1..n
  BY DEF SourceIds
<1>6. ASSUME NEW b \in 0..(c - 1)
      PROVE  \/ image.index[b].id = 0 /\ image.index[b].fingerprint = 0
             \/ /\ image.index[b].id \in SourceIds(image)
                /\ PathBytes(image, image.index[b].id) # Corrupt
                /\ PathHash(PathBytes(image, image.index[b].id)).fingerprint =
                     image.index[b].fingerprint
                /\ \E k \in 0..(c - 1) :
                     /\ Probe(c, PathHash(PathBytes(image, image.index[b].id)), k) = b
                     /\ \A l \in 0..k :
                          image.index[Probe(c, PathHash(PathBytes(image, image.index[b].id)), l)].id # 0
  BY <1>2, Zenon DEF ValidatePathIndex
<1>7. \A id \in SourceIds(image) :
        Cardinality({b \in 0..(c - 1) : image.index[b].id = id}) = 1
  BY <1>2, Zenon DEF ValidatePathIndex
<1> HIDE DEF c, n
<1>8. IsFiniteSet(0..(c - 1)) /\ Cardinality(0..(c - 1)) = c
  <2>1. IsFiniteSet(0..(c - 1)) /\
        Cardinality(0..(c - 1)) = IF 0 > c - 1 THEN 0 ELSE (c - 1) - 0 + 1
    BY <1>1, FS_Interval
  <2>2. QED
    BY <1>1, <2>1
<1>9. \A id \in SourceIds(image) : \E d : {b \in 0..(c - 1) : image.index[b].id = id} = {d}
  <2> SUFFICES ASSUME NEW id \in SourceIds(image)
               PROVE  \E d : {b \in 0..(c - 1) : image.index[b].id = id} = {d}
    OBVIOUS
  <2> DEFINE B == {b \in 0..(c - 1) : image.index[b].id = id}
  <2>1. B \in SUBSET (0..(c - 1)) /\ Cardinality(B) = 1
    BY <1>7
  <2> HIDE DEF B
  <2>2. IsFiniteSet(B)
    BY <1>8, <2>1, FS_Subset
  <2>3. \E d : B = {d}
    BY <2>1, <2>2, FS_Singleton
  <2>4. QED
    BY <2>3 DEF B
<1>10. \A id \in SourceIds(image) : \E b \in 0..(c - 1) : image.index[b].id = id
  BY <1>9
<1>11. ASSUME c # 0
       PROVE  \E b \in 0..(c - 1) : image.index[b].id = 0
  <2> SUFFICES ASSUME \A b \in 0..(c - 1) : image.index[b].id # 0
               PROVE  FALSE
    OBVIOUS
  <2> DEFINE f == [b \in 0..(c - 1) |-> image.index[b].id]
  <2>1. f \in [0..(c - 1) -> 1..n]
    BY <1>5, <1>6
  <2>2. n < c
    BY <1>1, <1>3, <1>4, <1>11
  <2>3. IsFiniteSet(1..n) /\ Cardinality(1..n) = n
    <3>1. IsFiniteSet(1..n) /\ Cardinality(1..n) = IF 1 > n THEN 0 ELSE n - 1 + 1
      BY <1>1, FS_Interval
    <3>2. QED
      BY <1>1, <3>1
  <2> HIDE DEF f
  <2>4. PICK x, y \in 0..(c - 1) : x # y /\ f[x] = f[y]
    BY <1>8, <2>1, <2>2, <2>3, FS_PigeonHole
  <2>5. image.index[x].id = image.index[y].id /\ image.index[x].id \in SourceIds(image)
    BY <1>5, <2>1, <2>4 DEF f
  <2>6. QED
    BY <1>9, <2>4, <2>5
<1>12. QED
  BY <1>6, <1>10, <1>11, Zenon DEF c

(* A search in a valid index ends, and finds the path it is given.         *)
LEMMA FindValid ==
  ASSUME NEW image, Decoded(image), DecodeContainer(image), ValidatePathIndex(image),
         NEW bytes, PathHash(bytes).bucket \in Nat
  PROVE  \/ FindInView(image, bytes) = NotAvailable
         \/ /\ FindInView(image, bytes) \in SourceIds(image)
            /\ PathBytes(image, FindInView(image, bytes)) = bytes
<1> DEFINE c == image.header.capacity
<1>1. c \in Nat /\ image.header.sources \in Nat
  BY DEF Decoded
<1>2. CASE c = 0
  BY <1>1, <1>2, FindOutcome
<1>3. CASE c # 0
  <2>1. \A k \in 0..(c - 1) : Probe(c, PathHash(bytes), k) \in 0..(c - 1)
    <3>1. \A k \in 0..(c - 1) : k \in Nat
      BY <1>1
    <3> HIDE DEF c
    <3>2. QED
      BY <1>1, <1>3, <3>1, ProbeFacts
  <2>2. \A k \in 0..(c - 1) : ~Bad(image, bytes, k)
    <3> SUFFICES ASSUME NEW k \in 0..(c - 1), Bad(image, bytes, k)
                 PROVE  FALSE
      OBVIOUS
    <3>1. PICK b \in 0..(c - 1) : b = Probe(c, PathHash(bytes), k)
      BY <2>1
    <3>2. Entry(image, bytes, k) = image.index[b]
      BY <3>1 DEF Entry
    <3>3. \/ image.index[b].id = 0 /\ image.index[b].fingerprint = 0
          \/ /\ image.index[b].id \in SourceIds(image)
             /\ PathBytes(image, image.index[b].id) # Corrupt
      BY ValidBuckets
    <3>4. CASE image.index[b].id = 0 /\ image.index[b].fingerprint = 0
      BY <1>1, <3>2, <3>4 DEF Bad, SourceIds
    <3>5. CASE /\ image.index[b].id \in SourceIds(image)
               /\ PathBytes(image, image.index[b].id) # Corrupt
      <4>1. ~(image.index[b].id > image.header.sources) /\ image.index[b].id # 0
        BY <1>1, <3>5 DEF SourceIds
      <4>2. QED
        BY <3>2, <3>5, <4>1 DEF Bad
    <3>6. QED
      BY <3>3, <3>4, <3>5
  <2>3. PICK b \in 0..(c - 1) : image.index[b].id = 0
    BY <1>3, ValidBuckets
  <2>4. PICK k \in 0..(c - 1) : Probe(c, PathHash(bytes), k) = b
    <3> HIDE DEF c
    <3> QED
      BY <1>1, <1>3, ProbeFacts
  <2>5. k \in Stops(image, bytes)
    BY <2>3, <2>4 DEF Stops, Entry
  <2>6. PICK l \in Stops(image, bytes) :
          FindInView(image, bytes) = Found(image, bytes, l)
    BY <1>1, <1>3, <2>5, FindOutcome
  <2>7. l \in 0..(c - 1) /\ ~Bad(image, bytes, l)
    BY <2>2 DEF Stops
  <2>8. QED
    BY <2>6, <2>7 DEF Found, Stops, Hit
<1>4. QED
  BY <1>2, <1>3

(* A valid index finds the Source it is given the path of, if no other     *)
(* Source has that path.                                                   *)
LEMMA FindSource ==
  ASSUME NEW image, Decoded(image), DecodeContainer(image), ValidatePathIndex(image),
         NEW id \in SourceIds(image), PathHash(PathBytes(image, id)).bucket \in Nat,
         \A i, j \in SourceIds(image) : PathBytes(image, i) = PathBytes(image, j) => i = j
  PROVE  FindInView(image, PathBytes(image, id)) = id
<1> DEFINE c == image.header.capacity
           bytes == PathBytes(image, id)
           found == FindInView(image, bytes)
<1>1. c \in Nat /\ image.header.sources \in Nat
  BY DEF Decoded
<1>2. PICK b \in 0..(c - 1) : image.index[b].id = id
  BY ValidBuckets
<1>3. c # 0
  BY <1>1, <1>2
<1>4. id # 0
  BY <1>1 DEF SourceIds
<1>5. PICK k \in 0..(c - 1) :
        /\ Probe(c, PathHash(bytes), k) = b
        /\ \A l \in 0..k : image.index[Probe(c, PathHash(bytes), l)].id # 0
  BY <1>2, <1>4, ValidBuckets
<1>6. PathHash(bytes).fingerprint = image.index[b].fingerprint
  BY <1>2, <1>4, ValidBuckets
<1>7. k \in Stops(image, bytes)
  BY <1>2, <1>5, <1>6 DEF Stops, Entry, Hit
<1>8. PICK l \in Stops(image, bytes) :
        /\ \A m \in Stops(image, bytes) : l <= m
        /\ found = Found(image, bytes, l)
  BY <1>1, <1>3, <1>7, FindOutcome
<1>9. l \in 0..k
  <2>1. l <= k /\ l \in 0..(c - 1)
    BY <1>7, <1>8 DEF Stops
  <2>2. QED
    BY <1>1, <2>1
<1>10. Entry(image, bytes, l).id # 0
  BY <1>5, <1>9 DEF Entry
<1>11. found = NotAvailable \/ (found \in SourceIds(image) /\ PathBytes(image, found) = bytes)
  BY FindValid
<1>12. found # NotAvailable
  <2>1. CASE Bad(image, bytes, l)
    <3>1. found = Corrupt
      BY <1>8, <2>1 DEF Found
    <3>2. QED
      BY <3>1, EncodedAssumption
  <2>2. CASE ~Bad(image, bytes, l)
    <3>1. found = Entry(image, bytes, l).id /\ Hit(image, bytes, l)
      BY <1>8, <1>10, <2>2 DEF Found, Stops
    <3>2. found \in Nat
      BY <1>1, <3>1 DEF Hit, SourceIds
    <3>3. QED
      BY <3>2, EncodedAssumption
  <2>3. QED
    BY <2>1, <2>2
<1>13. QED
  BY <1>11, <1>12

-----------------------------------------------------------------------------
(* source_path_xxh64 gives every path a number.                            *)
HashesAreNumbers == \A bytes \in Seq(Nat) : PathHash(bytes).bucket \in Nat

(* The bytes of a path are bytes, or the record is corrupt.                *)
LEMMA PathBytesTyped ==
  ASSUME NEW image, Decoded(image), DecodeContainer(image), NEW id \in SourceIds(image)
  PROVE  PathBytes(image, id) \in Seq(Nat) \cup {Corrupt}
<1> DEFINE begin == image.core[id].offset
           length == image.core[id].length
<1>1. begin \in Nat /\ length \in Nat /\ image.bytes \in Seq(Nat)
      /\ Len(image.bytes) = image.header.bytes
  BY DEF Decoded, DecodeContainer
<1>2. begin + length <= image.header.bytes =>
        SubSeq(image.bytes, begin + 1, begin + length) \in Seq(Nat)
  <2> HIDE DEF begin, length
  <2> QED
    BY <1>1
<1>3. QED
  BY <1>2 DEF PathBytes

(* What a row that is not corrupt holds.                                   *)
LEMMA DependencyFacts ==
  ASSUME NEW image, Decoded(image), NEW rows \in {image.forward, image.reverse},
         NEW id \in SourceIds(image), Dependencies(image, rows, id) # Corrupt
  PROVE  /\ ToSet(Dependencies(image, rows, id)) =
              {rows.edges[j] : j \in {i \in 1..Len(rows.edges) :
                 i > rows.offsets[id] /\ i <= rows.offsets[id + 1]}}
         /\ ToSet(Dependencies(image, rows, id)) \subseteq SourceIds(image)
<1> DEFINE begin == rows.offsets[id]
           end == rows.offsets[id + 1]
           edges == SubSeq(rows.edges, begin + 1, end)
<1>1. /\ ~(begin > end) /\ ~(end > Len(rows.edges))
      /\ \A i \in DOMAIN edges : edges[i] \in SourceIds(image)
      /\ Dependencies(image, rows, id) = edges
  BY DEF Dependencies
<1>2. begin \in Nat /\ end \in Nat /\ rows.edges \in Seq(Nat)
  <2>1. id \in 1..(image.header.sources + 1) /\ id + 1 \in 1..(image.header.sources + 1)
    BY DEF Decoded, SourceIds
  <2>2. QED
    BY <2>1 DEF Decoded
<1>3. ToSet(edges) \subseteq SourceIds(image)
  BY <1>1 DEF ToSet
<1>4. ToSet(edges) = {rows.edges[j] : j \in {i \in 1..Len(rows.edges) : i > begin /\ i <= end}}
  <2>1. begin <= end /\ end <= Len(rows.edges) /\ Len(rows.edges) \in Nat
    BY <1>1, <1>2
  <2> HIDE DEF begin, end
  <2>2. DOMAIN edges = 1..(end - begin)
    BY <1>2, <2>1
  <2>3. \A k \in 1..(end - begin) : edges[k] = rows.edges[begin + k]
    BY <1>2, <2>1
  <2>4. \A k \in 1..(end - begin) :
          begin + k \in {i \in 1..Len(rows.edges) : i > begin /\ i <= end}
    BY <1>2, <2>1
  <2>5. \A j \in {i \in 1..Len(rows.edges) : i > begin /\ i <= end} :
          j - begin \in 1..(end - begin) /\ begin + (j - begin) = j
    BY <1>2, <2>1
  <2> HIDE DEF edges
  <2>6. QED
    BY <2>2, <2>3, <2>4, <2>5 DEF ToSet
<1>5. QED
  BY <1>1, <1>3, <1>4

(* The include edges and the reverse ones say the same.                    *)
LEMMA SymmetryIsSound ==
  ASSUME NEW image, Decoded(image), ValidateRows(image, image.forward),
         ValidateRows(image, image.reverse), ValidateSymmetry(image),
         NEW parent \in SourceIds(image), NEW child \in SourceIds(image)
  PROVE  child \in ToSet(Dependencies(image, image.forward, parent))
           <=> parent \in ToSet(Dependencies(image, image.reverse, child))
<1> DEFINE fwd == image.forward
           rev == image.reverse
           pairs == {<<e[1], fwd.edges[e[2]]>> : e \in EdgesOf(image, fwd)}
           turned == {<<rev.edges[e[2]], e[1]>> : e \in EdgesOf(image, rev)}
<1>1. pairs = turned
  BY DEF ValidateSymmetry
<1>2. child \in ToSet(Dependencies(image, fwd, parent)) <=> <<parent, child>> \in pairs
  <2>1. Dependencies(image, fwd, parent) # Corrupt
    BY DEF ValidateRows
  <2>2. ToSet(Dependencies(image, fwd, parent)) =
          {fwd.edges[j] : j \in {i \in 1..Len(fwd.edges) :
             i > fwd.offsets[parent] /\ i <= fwd.offsets[parent + 1]}}
    BY <2>1, DependencyFacts
  <2> HIDE DEF fwd
  <2>3. <<parent, child>> \in pairs <=>
          \E j \in 1..Len(fwd.edges) :
            /\ j > fwd.offsets[parent] /\ j <= fwd.offsets[parent + 1]
            /\ child = fwd.edges[j]
    <3>1. ASSUME NEW j \in 1..Len(fwd.edges),
                 j > fwd.offsets[parent], j <= fwd.offsets[parent + 1]
          PROVE  <<parent, j>> \in EdgesOf(image, fwd)
      BY <3>1 DEF EdgesOf
    <3>2. ASSUME NEW e \in EdgesOf(image, fwd), e[1] = parent
          PROVE  e[2] \in 1..Len(fwd.edges) /\ e[2] > fwd.offsets[parent]
                 /\ e[2] <= fwd.offsets[parent + 1]
      BY <3>2 DEF EdgesOf
    <3>3. ASSUME <<parent, child>> \in pairs
          PROVE  \E j \in 1..Len(fwd.edges) :
                   /\ j > fwd.offsets[parent] /\ j <= fwd.offsets[parent + 1]
                   /\ child = fwd.edges[j]
      <4>1. PICK e \in EdgesOf(image, fwd) : <<parent, child>> = <<e[1], fwd.edges[e[2]]>>
        BY <3>3
      <4>2. e[1] = parent /\ child = fwd.edges[e[2]]
        BY <4>1
      <4>3. QED
        BY <3>2, <4>2
    <3>4. ASSUME NEW j \in 1..Len(fwd.edges),
                 j > fwd.offsets[parent], j <= fwd.offsets[parent + 1], child = fwd.edges[j]
          PROVE  <<parent, child>> \in pairs
      <4>1. PICK e \in EdgesOf(image, fwd) : e = <<parent, j>>
        BY <3>1, <3>4
      <4>2. <<parent, child>> = <<e[1], fwd.edges[e[2]]>>
        BY <3>4, <4>1
      <4>3. QED
        BY <4>2
    <3>5. QED
      BY <3>3, <3>4
  <2>4. QED
    BY <2>2, <2>3
<1>3. parent \in ToSet(Dependencies(image, rev, child)) <=> <<parent, child>> \in turned
  <2>1. Dependencies(image, rev, child) # Corrupt
    BY DEF ValidateRows
  <2>2. ToSet(Dependencies(image, rev, child)) =
          {rev.edges[j] : j \in {i \in 1..Len(rev.edges) :
             i > rev.offsets[child] /\ i <= rev.offsets[child + 1]}}
    BY <2>1, DependencyFacts
  <2> HIDE DEF rev
  <2>3. <<parent, child>> \in turned <=>
          \E j \in 1..Len(rev.edges) :
            /\ j > rev.offsets[child] /\ j <= rev.offsets[child + 1]
            /\ parent = rev.edges[j]
    <3>1. ASSUME NEW j \in 1..Len(rev.edges),
                 j > rev.offsets[child], j <= rev.offsets[child + 1]
          PROVE  <<child, j>> \in EdgesOf(image, rev)
      BY <3>1 DEF EdgesOf
    <3>2. ASSUME NEW e \in EdgesOf(image, rev), e[1] = child
          PROVE  e[2] \in 1..Len(rev.edges) /\ e[2] > rev.offsets[child]
                 /\ e[2] <= rev.offsets[child + 1]
      BY <3>2 DEF EdgesOf
    <3>3. ASSUME <<parent, child>> \in turned
          PROVE  \E j \in 1..Len(rev.edges) :
                   /\ j > rev.offsets[child] /\ j <= rev.offsets[child + 1]
                   /\ parent = rev.edges[j]
      <4>1. PICK e \in EdgesOf(image, rev) : <<parent, child>> = <<rev.edges[e[2]], e[1]>>
        BY <3>3
      <4>2. e[1] = child /\ parent = rev.edges[e[2]]
        BY <4>1
      <4>3. QED
        BY <3>2, <4>2
    <3>4. ASSUME NEW j \in 1..Len(rev.edges),
                 j > rev.offsets[child], j <= rev.offsets[child + 1], parent = rev.edges[j]
          PROVE  <<parent, child>> \in turned
      <4>1. PICK e \in EdgesOf(image, rev) : e = <<child, j>>
        BY <3>1, <3>4
      <4>2. <<parent, child>> = <<rev.edges[e[2]], e[1]>>
        BY <3>4, <4>1
      <4>3. QED
        BY <4>2
    <3>5. QED
      BY <3>3, <3>4
  <2>4. QED
    BY <2>2, <2>3
<1>4. QED
  BY <1>1, <1>2, <1>3

(* strict_validate accepts only what a Source Manager could be: any image  *)
(* it accepts, wherever it comes from and whatever numbers are in it, has  *)
(* an id for every path and a path for every id, dependents that are the   *)
(* reverse of the includes, and no cycle below a root.                     *)
THEOREM StrictValidateSound ==
  ASSUME NEW image, Decoded(image), HashesAreNumbers, StrictValidate(image)
  PROVE  Consistent(image)
<1>1. /\ DecodeContainer(image) /\ ValidatePathsAndPhysical(image)
      /\ ValidateRows(image, image.forward) /\ ValidateRows(image, image.reverse)
      /\ ValidatePathIndex(image) /\ ValidateSymmetry(image) /\ ValidateAcyclic(image)
  BY DEF StrictValidate
<1>2. \A id \in SourceIds(image) : FindInView(image, PathBytes(image, id)) = id
  <2> SUFFICES ASSUME NEW id \in SourceIds(image)
               PROVE  FindInView(image, PathBytes(image, id)) = id
    OBVIOUS
  <2>1. /\ PathBytes(image, id) # Corrupt
        /\ \A i, j \in SourceIds(image) : PathBytes(image, i) = PathBytes(image, j) => i = j
    BY <1>1 DEF ValidatePathsAndPhysical
  <2>2. PathHash(PathBytes(image, id)).bucket \in Nat
    BY <1>1, <2>1, PathBytesTyped DEF HashesAreNumbers
  <2>3. QED
    BY <1>1, <2>1, <2>2, FindSource
<1>3. \A p \in Paths : FindInView(image, Encoded[p]) \in SourceIds(image) \cup {NotAvailable}
  <2> SUFFICES ASSUME NEW p \in Paths
               PROVE  FindInView(image, Encoded[p]) \in SourceIds(image) \cup {NotAvailable}
    OBVIOUS
  <2>1. PathHash(Encoded[p]).bucket \in Nat
    BY EncodedAssumption
  <2>2. QED
    BY <1>1, <2>1, FindValid
<1>4. \A parent, child \in SourceIds(image) :
        child \in ToSet(Dependencies(image, image.forward, parent))
          <=> parent \in ToSet(Dependencies(image, image.reverse, child))
  BY <1>1, SymmetryIsSound
<1>5. \A root \in ToSet(image.roots) :
        \A id \in Reached(SourceIds(image), IncludesInView(image), root) \cup {root} :
          id \notin Reached(SourceIds(image), IncludesInView(image), id)
  BY <1>1 DEF ValidateAcyclic
<1>6. QED
  BY <1>2, <1>3, <1>4, <1>5 DEF Consistent

-----------------------------------------------------------------------------
(* The index before any Source is in it.                                   *)
EmptyIndex(n) == [b \in 0..(PathIndexCapacity(n) - 1) |-> FreeBucket]

(* What write_path_index has after each of n Sources.                      *)
Indexes(g, s, n, empty) ==
  g = [i \in 0..n |-> IF i = 0 THEN empty ELSE IndexInsert(g[i - 1], i, PathHash(s[i]))]

(* There is such a function, for any number of Sources.                    *)
LEMMA IndexExists ==
  ASSUME NEW s, NEW n \in Nat, NEW empty
  PROVE  \E g : Indexes(g, s, n, empty)
<1> DEFINE T == {m \in 0..n :
                   \E g : g = [i \in 0..m |-> IF i = 0 THEN empty
                                              ELSE IndexInsert(g[i - 1], i, PathHash(s[i]))]}
<1>1. 0 \in T
  <2> DEFINE g == [i \in 0..0 |-> empty]
  <2>1. g = [i \in 0..0 |-> IF i = 0 THEN empty
                            ELSE IndexInsert(g[i - 1], i, PathHash(s[i]))]
    OBVIOUS
  <2> HIDE DEF g
  <2>2. QED
    BY <2>1
<1>2. ASSUME NEW m \in 0..(n - 1), m \in T
      PROVE  m + 1 \in T
  <2>1. PICK g : g = [i \in 0..m |-> IF i = 0 THEN empty
                                     ELSE IndexInsert(g[i - 1], i, PathHash(s[i]))]
    BY <1>2
  <2> DEFINE h == [i \in 0..(m + 1) |->
                     IF i = m + 1 THEN IndexInsert(g[m], m + 1, PathHash(s[m + 1]))
                     ELSE g[i]]
  <2>2. ASSUME NEW i \in 0..(m + 1)
        PROVE  h[i] = IF i = 0 THEN empty ELSE IndexInsert(h[i - 1], i, PathHash(s[i]))
    <3>1. CASE i = m + 1
      <4>1. h[i] = IndexInsert(g[m], i, PathHash(s[i]))
        BY <3>1
      <4>2. h[i - 1] = g[m]
        BY <3>1
      <4>3. i # 0
        BY <3>1
      <4> HIDE DEF h
      <4> QED
        BY <4>1, <4>2, <4>3
    <3>2. CASE i # m + 1
      <4>1. i \in 0..m
        BY <3>2
      <4>2. h[i] = g[i]
        BY <3>2
      <4>3. g[i] = IF i = 0 THEN empty ELSE IndexInsert(g[i - 1], i, PathHash(s[i]))
        BY <2>1, <4>1, Zenon
      <4>4. i # 0 => h[i - 1] = g[i - 1]
        BY <4>1
      <4> HIDE DEF h
      <4> QED
        BY <4>2, <4>3, <4>4
    <3> QED
      BY <3>1, <3>2
  <2>3. h = [i \in 0..(m + 1) |-> IF i = 0 THEN empty
                                  ELSE IndexInsert(h[i - 1], i, PathHash(s[i]))]
    <3>1. h = [i \in 0..(m + 1) |-> h[i]]
      OBVIOUS
    <3> HIDE DEF h
    <3> QED
      BY <2>2, <3>1, Zenon
  <2>4. m + 1 \in 0..n
    OBVIOUS
  <2> HIDE DEF h
  <2> QED
    BY <2>3, <2>4
<1>3. n \in T
  <2> HIDE DEF T
  <2> QED
    BY <1>1, <1>2, Upwards
<1> QED
  BY <1>3 DEF Indexes

(* write_path_index: from one Source to the next.                          *)
LEMMA IndexSteps ==
  ASSUME NEW s, Len(s) \in Nat
  PROVE  \E f : /\ PathIndex(s) = f[Len(s)]
                /\ f[0] = EmptyIndex(Len(s))
                /\ \A i \in 1..Len(s) : f[i] = IndexInsert(f[i - 1], i, PathHash(s[i]))
<1> DEFINE n == Len(s)
           empty == EmptyIndex(n)
           f == CHOOSE g : g = [i \in 0..n |-> IF i = 0 THEN empty
                                               ELSE IndexInsert(g[i - 1], i, PathHash(s[i]))]
<1>1. PathIndex(s) = f[n]
  BY Zenon DEF PathIndex, EmptyIndex
<1>0. n \in Nat
  OBVIOUS
<1> HIDE DEF empty, n
<1>2. f = [i \in 0..n |-> IF i = 0 THEN empty
                          ELSE IndexInsert(f[i - 1], i, PathHash(s[i]))]
  <2>1. \E g : Indexes(g, s, n, empty)
    BY <1>0, IndexExists
  <2>2. QED
    BY <2>1, Zenon DEF Indexes
<1> HIDE DEF f
<1>3. \A i \in 0..n : f[i] = IF i = 0 THEN empty
                             ELSE IndexInsert(f[i - 1], i, PathHash(s[i]))
  BY <1>2, Zenon
<1>4. f[0] = empty
  BY <1>0, <1>3
<1>5. ASSUME NEW i \in 1..n
      PROVE  f[i] = IndexInsert(f[i - 1], i, PathHash(s[i]))
  <2>1. i \in 0..n /\ i # 0
    OBVIOUS
  <2>2. QED
    BY <1>3, <2>1, Zenon
<1>6. QED
  BY <1>1, <1>4, <1>5, Zenon DEF empty, n

(* An index of the first i paths in c buckets: a bucket is free or has an  *)
(* id that a search from its hash comes to, and every id has one bucket.   *)
IndexOK(f, i, c, s) ==
  /\ DOMAIN f = 0..(c - 1)
  /\ \A b \in 0..(c - 1) :
       \/ f[b] = FreeBucket
       \/ /\ f[b].id \in 1..i
          /\ f[b].fingerprint = PathHash(s[f[b].id]).fingerprint
          /\ \E k \in 0..(c - 1) :
               /\ Probe(c, PathHash(s[f[b].id]), k) = b
               /\ \A l \in 0..k : f[Probe(c, PathHash(s[f[b].id]), l)].id # 0
  /\ \A id \in 1..i : \E b \in 0..(c - 1) : f[b].id = id
  /\ \A b, d \in 0..(c - 1) : f[b].id = f[d].id /\ f[b].id # 0 => b = d

(* One more Source: there is a free bucket, and nothing that was found is  *)
(* lost.                                                                   *)
LEMMA InsertKeepsIndex ==
  ASSUME NEW n \in Nat, NEW c \in Nat, n < c, NEW s,
         \A i \in 1..n : PathHash(s[i]).bucket \in Nat,
         NEW i \in 0..(n - 1), NEW f, IndexOK(f, i, c, s)
  PROVE  IndexOK(IndexInsert(f, i + 1, PathHash(s[i + 1])), i + 1, c, s)
<1> DEFINE hash == PathHash(s[i + 1])
           free == {k \in 0..(c - 1) : f[Probe(c, hash, k)].id = 0}
           first == CHOOSE k \in free : \A l \in free : k <= l
           at == Probe(c, hash, first)
           bucket == [fingerprint |-> hash.fingerprint, id |-> i + 1]
           g == IndexInsert(f, i + 1, hash)
<1>1. IsFiniteSet(0..(c - 1)) /\ Cardinality(0..(c - 1)) = c
  <2>1. IsFiniteSet(0..(c - 1)) /\
        Cardinality(0..(c - 1)) = IF 0 > c - 1 THEN 0 ELSE (c - 1) - 0 + 1
    BY FS_Interval
  <2>2. QED
    BY <2>1
<1>2. DOMAIN f = 0..(c - 1)
  BY DEF IndexOK
<1>3. g = [f EXCEPT ![at] = bucket]
  BY <1>1, <1>2 DEF IndexInsert
<1>4. i + 1 \in 1..n /\ c # 0
  OBVIOUS
<1>5. hash.bucket \in Nat
  BY <1>4
<1> HIDE DEF hash
<1>6. \E b \in 0..(c - 1) : f[b].id = 0
  <2> SUFFICES ASSUME \A b \in 0..(c - 1) : f[b].id # 0
               PROVE  FALSE
    OBVIOUS
  <2> DEFINE ids == [b \in 0..(c - 1) |-> f[b].id]
  <2>1. ids \in [0..(c - 1) -> 1..i]
    BY DEF IndexOK, FreeBucket
  <2>2. IsFiniteSet(1..i) /\ Cardinality(1..i) = i
    <3>1. IsFiniteSet(1..i) /\ Cardinality(1..i) = IF 1 > i THEN 0 ELSE i - 1 + 1
      BY FS_Interval
    <3>2. QED
      BY <3>1
  <2>5. Cardinality(1..i) < Cardinality(0..(c - 1))
    BY <1>1, <2>2
  <2> HIDE DEF ids
  <2>3. PICK x, y \in 0..(c - 1) : x # y /\ ids[x] = ids[y]
    BY <1>1, <2>1, <2>2, <2>5, FS_PigeonHole, Zenon
  <2>4. QED
    BY <2>3 DEF ids, IndexOK
<1>7. free # {}
  <2>1. PICK b \in 0..(c - 1) : f[b].id = 0
    BY <1>6
  <2>2. PICK k \in 0..(c - 1) : Probe(c, hash, k) = b
    BY <1>4, <1>5, ProbeFacts
  <2>3. QED
    BY <2>1, <2>2
<1>8. first \in free /\ \A l \in free : first <= l
  <2>1. free \in SUBSET Nat
    OBVIOUS
  <2> HIDE DEF free
  <2>2. QED
    BY <1>7, <2>1, LeastNumber
<1> HIDE DEF first
<1>9. first \in 0..(c - 1) /\ f[at].id = 0
  BY <1>8
<1>10. at \in 0..(c - 1)
  <2>1. first \in Nat
    BY <1>9
  <2>2. QED
    BY <1>4, <1>5, <2>1, ProbeFacts
<1>11. \A l \in 0..first : l # first => Probe(c, hash, l) \in 0..(c - 1) /\ f[Probe(c, hash, l)].id # 0
  <2> SUFFICES ASSUME NEW l \in 0..first, l # first
               PROVE  Probe(c, hash, l) \in 0..(c - 1) /\ f[Probe(c, hash, l)].id # 0
    OBVIOUS
  <2>1. l \in 0..(c - 1) /\ l \in Nat /\ ~(first <= l)
    BY <1>9
  <2>2. l \notin free
    BY <1>8, <2>1
  <2>3. QED
    BY <1>4, <1>5, <2>1, <2>2, ProbeFacts
<1> HIDE DEF at, g
<1>12. /\ DOMAIN g = 0..(c - 1)
       /\ g[at] = bucket
       /\ \A b \in 0..(c - 1) : b # at => g[b] = f[b]
  BY <1>2, <1>3, <1>10
<1>13. bucket.id = i + 1 /\ bucket.fingerprint = hash.fingerprint
  OBVIOUS
<1> HIDE DEF bucket
<1>14. \A b \in 0..(c - 1) : f[b].id # 0 => b # at /\ g[b] = f[b]
  BY <1>9, <1>12
<1>15. \A b \in 0..(c - 1) : f[b].id \in 0..i
  BY DEF IndexOK, FreeBucket
<1>16. ASSUME NEW b \in 0..(c - 1)
       PROVE  \/ g[b] = FreeBucket
              \/ /\ g[b].id \in 1..(i + 1)
                 /\ g[b].fingerprint = PathHash(s[g[b].id]).fingerprint
                 /\ \E k \in 0..(c - 1) :
                      /\ Probe(c, PathHash(s[g[b].id]), k) = b
                      /\ \A l \in 0..k : g[Probe(c, PathHash(s[g[b].id]), l)].id # 0
  <2>1. CASE b = at
    <3>1. g[b].id = i + 1 /\ g[b].fingerprint = hash.fingerprint
      BY <2>1, <1>12, <1>13
    <3>2. Probe(c, hash, first) = b
      BY <2>1 DEF at
    <3>3. \A l \in 0..first : g[Probe(c, hash, l)].id # 0
      <4> SUFFICES ASSUME NEW l \in 0..first
                   PROVE  g[Probe(c, hash, l)].id # 0
        OBVIOUS
      <4>1. CASE l = first
        BY <4>1, <2>1, <3>1, <3>2
      <4>2. CASE l # first
        BY <4>2, <1>11, <1>14
      <4>3. QED
        BY <4>1, <4>2
    <3>4. i + 1 \in 1..(i + 1)
      OBVIOUS
    <3>5. QED
      BY <1>9, <3>1, <3>2, <3>3, <3>4 DEF hash
  <2>2. CASE b # at /\ f[b] # FreeBucket
    <3>1. g[b] = f[b]
      BY <1>12, <2>2
    <3>2. /\ f[b].id \in 1..i
          /\ f[b].fingerprint = PathHash(s[f[b].id]).fingerprint
      BY <2>2 DEF IndexOK
    <3>3. PICK k \in 0..(c - 1) :
            /\ Probe(c, PathHash(s[f[b].id]), k) = b
            /\ \A l \in 0..k : f[Probe(c, PathHash(s[f[b].id]), l)].id # 0
      BY <2>2 DEF IndexOK
    <3> DEFINE h == PathHash(s[f[b].id])
    <3>4. h.bucket \in Nat
      <4>1. f[b].id \in 1..n
        BY <3>2
      <4>2. QED
        BY <4>1
    <3>5. \A l \in 0..k : g[Probe(c, h, l)].id # 0
      <4> SUFFICES ASSUME NEW l \in 0..k
                   PROVE  g[Probe(c, h, l)].id # 0
        OBVIOUS
      <4>1. f[Probe(c, h, l)].id # 0
        BY <3>3
      <4>2. Probe(c, h, l) \in 0..(c - 1)
        <5>1. l \in Nat
          OBVIOUS
        <5> HIDE DEF h
        <5>2. QED
          BY <1>4, <3>4, <5>1, ProbeFacts
      <4> HIDE DEF h
      <4>3. QED
        BY <1>14, <4>1, <4>2
    <3>6. f[b].id \in 1..(i + 1)
      BY <3>2
    <3>7. QED
      BY <3>1, <3>2, <3>3, <3>5, <3>6
  <2>3. CASE b # at /\ f[b] = FreeBucket
    BY <1>12, <2>3
  <2>4. QED
    BY <2>1, <2>2, <2>3
<1>17. ASSUME NEW id \in 1..(i + 1)
       PROVE  \E b \in 0..(c - 1) : g[b].id = id
  <2>1. CASE id = i + 1
    BY <2>1, <1>10, <1>12, <1>13
  <2>2. CASE id # i + 1
    <3>1. id \in 1..i /\ id # 0
      BY <2>2
    <3>2. PICK b \in 0..(c - 1) : f[b].id = id
      BY <3>1 DEF IndexOK
    <3>3. QED
      BY <1>14, <3>1, <3>2
  <2>3. QED
    BY <2>1, <2>2
<1>18. ASSUME NEW b \in 0..(c - 1), NEW d \in 0..(c - 1), g[b].id = g[d].id, g[b].id # 0
       PROVE  b = d
  <2>1. \A x \in 0..(c - 1) : g[x].id = i + 1 <=> x = at
    BY <1>12, <1>13, <1>15
  <2>2. CASE b = at \/ d = at
    BY <1>18, <2>1, <2>2
  <2>3. CASE b # at /\ d # at
    BY <1>12, <1>18, <2>3 DEF IndexOK
  <2>4. QED
    BY <2>2, <2>3
<1>19. IndexOK(g, i + 1, c, s)
  BY <1>12, <1>16, <1>17, <1>18 DEF IndexOK
<1>20. QED
  BY <1>19 DEF g, hash

(* write_path_index writes an index of all paths.                          *)
LEMMA PathIndexOK ==
  ASSUME NEW s, Len(s) \in Nat, \A i \in 1..Len(s) : PathHash(s[i]).bucket \in Nat
  PROVE  IndexOK(PathIndex(s), Len(s), PathIndexCapacity(Len(s)), s)
<1> DEFINE n == Len(s)
           c == PathIndexCapacity(n)
<1>1. c \in Nat /\ (n # 0 => n < c)
  BY CapacityFacts
<1>2. PICK f : /\ PathIndex(s) = f[n]
               /\ f[0] = EmptyIndex(n)
               /\ \A i \in 1..n : f[i] = IndexInsert(f[i - 1], i, PathHash(s[i]))
  BY IndexSteps
<1> DEFINE T == {i \in 0..n : IndexOK(f[i], i, c, s)}
<1>3. 0 \in T
  <2>1. f[0] = [b \in 0..(c - 1) |-> FreeBucket]
    BY <1>2 DEF EmptyIndex
  <2> HIDE DEF c
  <2>2. IndexOK(f[0], 0, c, s)
    BY <2>1 DEF IndexOK, FreeBucket
  <2>3. QED
    BY <2>2
<1>4. ASSUME NEW i \in 0..(n - 1), i \in T
      PROVE  i + 1 \in T
  <2>1. i + 1 \in 1..n /\ (i + 1) - 1 = i /\ n # 0
    OBVIOUS
  <2>2. f[i + 1] = IndexInsert(f[i], i + 1, PathHash(s[i + 1]))
    BY <1>2, <2>1
  <2>3. IndexOK(f[i], i, c, s)
    BY <1>4
  <2> HIDE DEF c, T
  <2>4. IndexOK(f[i + 1], i + 1, c, s)
    BY <1>1, <2>1, <2>2, <2>3, InsertKeepsIndex
  <2>5. QED
    BY <2>1, <2>4 DEF T
<1>5. n \in T
  <2>1. n \in Nat /\ n \in 0..n
    OBVIOUS
  <2>2. \A i \in 0..(n - 1) : i \in T => i + 1 \in T
    BY <1>4, Zenon
  <2> HIDE DEF T, n
  <2>3. \A i \in 0..n : i \in T
    BY <1>3, <2>1, <2>2, Upwards
  <2> QED
    BY <2>1, <2>3
<1>6. QED
  BY <1>2, <1>5

-----------------------------------------------------------------------------
(* What the writer is given: Sources with their paths, include edges and   *)
(* their exact reverse, without a cycle.                                   *)
Saved(c) ==
  LET n == Len(c.sources) IN
  /\ c.sources \in Seq(Paths)
  /\ \A i, j \in 1..n : c.sources[i] = c.sources[j] => i = j
  /\ Rows(c.includes, n) /\ Rows(c.dependents, n)
  /\ c.roots \subseteq 1..n
  /\ \A i \in 1..n : c.physical[i].state \in States
  /\ \A i, j \in 1..n : i \in c.dependents[j] <=> j \in c.includes[i]
  /\ \A i \in 1..n : i \notin Reached(1..n, c.includes, i)

(* The bytes of the paths, by Source.                                      *)
EncodedPaths(c) == [i \in DOMAIN c.sources |-> Encoded[c.sources[i]]]

(* The bytes of the paths: as many as there are Sources, and no two the    *)
(* same.                                                                   *)
LEMMA SavedPaths ==
  ASSUME NEW c, Saved(c)
  PROVE  LET s == EncodedPaths(c)
             n == Len(c.sources)
         IN
         /\ n \in Nat /\ DOMAIN c.sources = 1..n
         /\ DOMAIN s = 1..n /\ Len(s) = n /\ Parts(s, Nat)
         /\ \A i \in 1..n :
              /\ c.sources[i] \in Paths /\ s[i] = Encoded[c.sources[i]]
              /\ s[i] \in Seq(Nat) /\ s[i] # <<>> /\ s[i] # Corrupt
              /\ PathHash(s[i]).bucket \in Nat
              /\ PathHash(s[i]).fingerprint # 0
         /\ \A i, j \in 1..n : s[i] = s[j] => i = j
<1> DEFINE s == EncodedPaths(c)
           n == Len(c.sources)
<1>1. c.sources \in Seq(Paths) /\ \A i, j \in 1..n : c.sources[i] = c.sources[j] => i = j
  BY DEF Saved
<1>2. n \in Nat /\ DOMAIN c.sources = 1..n /\ \A i \in 1..n : c.sources[i] \in Paths
  BY <1>1
<1>3. DOMAIN s = 1..n /\ \A i \in 1..n : s[i] = Encoded[c.sources[i]]
  BY <1>2 DEF EncodedPaths
<1>4. ASSUME NEW i \in 1..n
      PROVE  /\ s[i] \in Seq(Nat) /\ s[i] # <<>> /\ s[i] # Corrupt
             /\ PathHash(s[i]).bucket \in Nat
             /\ PathHash(s[i]).fingerprint # 0
  BY <1>2, <1>3, EncodedAssumption
<1>5. \A i, j \in 1..n : s[i] = s[j] => i = j
  BY <1>1, <1>2, <1>3, EncodedAssumption
<1>6. s \in [1..n -> Seq(Nat)]
  <2>1. s = [i \in 1..n |-> s[i]]
    BY <1>2 DEF EncodedPaths
  <2> HIDE DEF s
  <2>2. QED
    BY <1>4, <2>1
<1> HIDE DEF s, n
<1>7. Len(s) = n
  BY <1>2, <1>6
<1>8. Parts(s, Nat)
  BY <1>2, <1>4, <1>7 DEF Parts
<1>9. QED
  BY <1>2, <1>3, <1>4, <1>5, <1>7, <1>8 DEF s, n

(* The fields of an image.                                                 *)
LEMMA ImageFields ==
  ASSUME NEW c, Saved(c)
  PROVE  LET s == EncodedPaths(c)
             n == Len(c.sources)
             image == Image(c)
         IN
         /\ image.header.sources = n
         /\ image.header.roots = Cardinality(c.roots)
         /\ image.header.forward = Len(image.forward.edges)
         /\ image.header.reverse = Len(image.reverse.edges)
         /\ image.header.capacity = Cardinality(DOMAIN image.index)
         /\ image.header.bytes = Len(image.bytes)
         /\ DOMAIN image.core = 1..n /\ Len(image.core) = n
         /\ \A i \in 1..n : image.core[i] = [offset |-> Len(Written(s)[i - 1]),
                                             length |-> Len(s[i])]
         /\ DOMAIN image.physical = 1..n /\ Len(image.physical) = n
         /\ \A i \in 1..n : image.physical[i] = PhysicalRecord(c.physical[i].state)
         /\ image.forward = CompressedRows(c.includes)
         /\ image.reverse = CompressedRows(c.dependents)
         /\ image.roots = SetToSeq(c.roots)
         /\ image.index = PathIndex(s)
         /\ image.bytes = Written(s)[n]
<1> DEFINE s == EncodedPaths(c)
           n == Len(c.sources)
           image == Image(c)
<1>1. /\ n \in Nat /\ DOMAIN c.sources = 1..n /\ DOMAIN s = 1..n /\ Len(s) = n
  BY SavedPaths
<1>2. /\ image.header.sources = n
      /\ image.header.roots = Cardinality(c.roots)
      /\ image.header.forward = Len(image.forward.edges)
      /\ image.header.reverse = Len(image.reverse.edges)
      /\ image.header.capacity = Cardinality(DOMAIN image.index)
      /\ image.header.bytes = Len(image.bytes)
      /\ image.forward = CompressedRows(c.includes)
      /\ image.reverse = CompressedRows(c.dependents)
      /\ image.roots = SetToSeq(c.roots)
  BY DEF Image
<1>3. /\ image.core = PathRecords(s)
      /\ image.index = PathIndex(s)
      /\ image.bytes = Written(s)[Len(s)]
  BY DEF Image, EncodedPaths
<1>4. image.physical = [i \in 1..n |-> PhysicalRecord(c.physical[i].state)]
  BY <1>1 DEF Image
<1>5. image.core = [i \in 1..n |-> [offset |-> Len(Written(s)[i - 1]), length |-> Len(s[i])]]
  BY <1>1, <1>3 DEF PathRecords
<1> HIDE DEF image, s, n
<1>6. /\ DOMAIN image.core = 1..n
      /\ \A i \in 1..n : image.core[i] = [offset |-> Len(Written(s)[i - 1]),
                                          length |-> Len(s[i])]
  BY <1>5
<1>7. /\ DOMAIN image.physical = 1..n
      /\ \A i \in 1..n : image.physical[i] = PhysicalRecord(c.physical[i].state)
  BY <1>4
<1>8. Len(image.core) = n
  BY <1>1, <1>6
<1>9. Len(image.physical) = n
  BY <1>1, <1>7
<1>10. image.bytes = Written(s)[n]
  BY <1>1, <1>3
<1>11. QED
  BY <1>2, <1>3, <1>6, <1>7, <1>8, <1>9, <1>10 DEF image, s, n

(* The path bytes are those of the paths, one after the other.             *)
LEMMA ImagePaths ==
  ASSUME NEW c, Saved(c)
  PROVE  LET s == EncodedPaths(c)
             n == Len(c.sources)
             image == Image(c)
             end(i) == image.core[i].offset + image.core[i].length
         IN
         /\ image.bytes \in Seq(Nat)
         /\ \A i \in 1..n :
              /\ image.core[i].offset \in Nat /\ image.core[i].length \in Nat
              /\ PathBytes(image, i) = s[i]
              /\ image.core[i].offset = IF i = 1 THEN 0 ELSE end(i - 1)
         /\ image.header.bytes = IF n = 0 THEN 0 ELSE end(n)
<1> DEFINE s == EncodedPaths(c)
           n == Len(c.sources)
           image == Image(c)
           w == Written(s)
           end(i) == image.core[i].offset + image.core[i].length
<1>1. n \in Nat /\ Len(s) = n /\ Parts(s, Nat) /\ \A i \in 1..n : s[i] \in Seq(Nat)
  BY SavedPaths
<1>2. /\ image.header.sources = n /\ image.header.bytes = Len(image.bytes)
      /\ image.bytes = w[n]
      /\ \A i \in 1..n : image.core[i] = [offset |-> Len(w[i - 1]), length |-> Len(s[i])]
  BY ImageFields
<1> HIDE DEF image, s, n
<1>3. w[0] = <<>> /\ \A i \in 0..n : w[i] \in Seq(Nat)
  BY <1>1, WrittenStep, WrittenTyped
<1>4. \A i \in 1..n : Slice(w[n], Len(w[i - 1]), Len(w[i]), s[i])
  BY <1>1, WrittenSlice
<1> HIDE DEF w
<1>5. ASSUME NEW i \in 1..n
      PROVE  /\ image.core[i].offset = Len(w[i - 1]) /\ image.core[i].length = Len(s[i])
             /\ image.core[i].offset \in Nat /\ image.core[i].length \in Nat
             /\ end(i) = Len(w[i])
             /\ PathBytes(image, i) = s[i]
  <2>1. i \in 0..n /\ i - 1 \in 0..n
    BY <1>1
  <2>2. image.core[i].offset = Len(w[i - 1]) /\ image.core[i].length = Len(s[i])
    <3>1. image.core[i] = [offset |-> Len(w[i - 1]), length |-> Len(s[i])]
      BY <1>2, Zenon
    <3>2. QED
      BY <3>1
  <2>3. Len(w[i - 1]) \in Nat /\ Len(s[i]) \in Nat /\ Len(w[i]) \in Nat /\ Len(w[n]) \in Nat
    <3>1. w[i - 1] \in Seq(Nat) /\ s[i] \in Seq(Nat) /\ w[i] \in Seq(Nat)
      BY <1>1, <1>3, <2>1
    <3>2. w[n] \in Seq(Nat)
      BY <1>1, <1>3
    <3>3. QED
      BY <3>1, <3>2
  <2>4. /\ Len(w[i]) = Len(w[i - 1]) + Len(s[i]) /\ Len(w[i]) <= Len(w[n])
        /\ SubSeq(w[n], Len(w[i - 1]) + 1, Len(w[i])) = s[i]
    BY <1>4 DEF Slice
  <2>5. i \in SourceIds(image)
    BY <1>2 DEF SourceIds
  <2>6. PathBytes(image, i) = s[i]
    BY <1>2, <2>2, <2>3, <2>4, <2>5 DEF PathBytes
  <2>7. QED
    BY <2>2, <2>3, <2>4, <2>6
<1>6. ASSUME NEW i \in 1..n
      PROVE  image.core[i].offset = IF i = 1 THEN 0 ELSE end(i - 1)
  <2>1. CASE i = 1
    BY <1>3, <1>5, <2>1
  <2>2. CASE i # 1
    <3>1. i - 1 \in 1..n
      BY <1>1, <2>2
    <3>2. end(i - 1) = Len(w[i - 1])
      BY <1>5, <3>1
    <3>3. QED
      BY <1>5, <2>2, <3>2
  <2>3. QED
    BY <2>1, <2>2
<1>7. image.header.bytes = IF n = 0 THEN 0 ELSE end(n)
  <2>1. CASE n = 0
    BY <1>2, <1>3, <2>1
  <2>2. CASE n # 0
    <3>1. n \in 1..n
      BY <1>1, <2>2
    <3>2. QED
      BY <1>2, <1>5, <2>2, <3>1
  <2>3. QED
    BY <2>1, <2>2
<1>8. image.bytes \in Seq(Nat)
  BY <1>1, <1>2, <1>3
<1>9. QED
  BY <1>5, <1>6, <1>7, <1>8 DEF image, s, n

(* The index has the capacity the header says.                             *)
LEMMA ImageIndex ==
  ASSUME NEW c, Saved(c)
  PROVE  LET n == Len(c.sources)
             image == Image(c)
         IN
         /\ image.header.capacity = PathIndexCapacity(n)
         /\ image.header.capacity \in Nat
         /\ IndexOK(image.index, n, image.header.capacity, EncodedPaths(c))
<1> DEFINE s == EncodedPaths(c)
           n == Len(c.sources)
           image == Image(c)
<1>1. n \in Nat /\ Len(s) = n /\ \A i \in 1..n : PathHash(s[i]).bucket \in Nat
  BY SavedPaths
<1>2. image.index = PathIndex(s) /\ image.header.capacity = Cardinality(DOMAIN image.index)
  BY ImageFields
<1> HIDE DEF image, s, n
<1>3. IndexOK(image.index, n, PathIndexCapacity(n), s)
  BY <1>1, <1>2, PathIndexOK
<1>4. DOMAIN image.index = 0..(PathIndexCapacity(n) - 1)
  BY <1>3 DEF IndexOK
<1>5. PathIndexCapacity(n) \in Nat
  BY <1>1, CapacityFacts
<1> DEFINE m == PathIndexCapacity(n)
<1> HIDE DEF m
<1>6. m \in Nat => Cardinality(0..(m - 1)) = m
  <2> SUFFICES ASSUME m \in Nat
               PROVE  Cardinality(0..(m - 1)) = m
    OBVIOUS
  <2>1. Cardinality(0..(m - 1)) = IF 0 > m - 1 THEN 0 ELSE (m - 1) - 0 + 1
    BY FS_Interval
  <2>2. QED
    BY <2>1
<1>7. QED
  BY <1>2, <1>3, <1>4, <1>5, <1>6 DEF m, image, s, n

(* The rows of an image.                                                   *)
LEMMA ImageRows ==
  ASSUME NEW c, Saved(c), NEW rows \in {c.includes, c.dependents}
  PROVE  LET n == Len(c.sources)
             r == CompressedRows(rows)
         IN
         /\ r.offsets \in Seq(Nat) /\ Len(r.offsets) = n + 1
         /\ \A i \in 1..(n + 1) : r.offsets[i] \in Nat
         /\ r.edges \in Seq(1..n) /\ r.edges \in Seq(Nat)
         /\ ValidateRows(Image(c), r)
         /\ \A i \in 1..n : /\ Dependencies(Image(c), r, i) = SetToSeq(rows[i])
                            /\ ToSet(Dependencies(Image(c), r, i)) = rows[i]
<1> DEFINE n == Len(c.sources)
           r == CompressedRows(rows)
           image == Image(c)
<1>1. n \in Nat /\ image.header.sources = n
  BY SavedPaths, ImageFields
<1>2. Rows(rows, n)
  BY DEF Saved
<1> HIDE DEF n, image
<1>3. /\ r.offsets \in Seq(Nat) /\ Len(r.offsets) = n + 1
      /\ r.edges \in Seq(1..n)
      /\ r.offsets[1] = 0 /\ r.offsets[n + 1] = Len(r.edges)
      /\ \A i \in 1..n :
           /\ r.offsets[i] <= r.offsets[i + 1] /\ r.offsets[i + 1] <= Len(r.edges)
           /\ SubSeq(r.edges, r.offsets[i] + 1, r.offsets[i + 1]) = SetToSeq(rows[i])
  BY <1>2, CompressedFacts
<1>4. \A i \in 1..n : rows[i] \subseteq 1..n /\ IsFiniteSet(rows[i])
  BY <1>2, RowFacts
<1>5. r.edges \in Seq(Nat)
  <2>1. 1..n \subseteq Nat
    BY <1>1
  <2>2. QED
    BY <1>3, <2>1, SequenceOverMore
<1> HIDE DEF r
<1>6. \A i \in 1..(n + 1) : r.offsets[i] \in Nat
  BY <1>3
<1>7. ASSUME NEW i \in 1..n
      PROVE  /\ Dependencies(image, r, i) = SetToSeq(rows[i])
             /\ ToSet(Dependencies(image, r, i)) = rows[i]
             /\ Dependencies(image, r, i) # Corrupt
  <2>1. SetToSeq(rows[i]) \in Seq(rows[i]) /\ ToSet(SetToSeq(rows[i])) = rows[i]
    BY <1>4, SetToSeqFacts
  <2> DEFINE row == SetToSeq(rows[i])
  <2>2. rows[i] \subseteq 1..n /\ rows[i] \subseteq Nat
    BY <1>1, <1>4
  <2>3. row \in Seq(1..n) /\ row \in Seq(Nat)
    BY <2>1, <2>2, SequenceOverMore
  <2>4. \A j \in DOMAIN row : row[j] \in SourceIds(image)
    <3> HIDE DEF row
    <3> QED
      BY <1>1, <2>3 DEF SourceIds
  <2>5. r.offsets[i] \in Nat /\ r.offsets[i + 1] \in Nat /\ Len(r.edges) \in Nat
    <3>1. i \in 1..(n + 1) /\ i + 1 \in 1..(n + 1)
      BY <1>1
    <3>2. QED
      BY <1>3, <1>6, <3>1
  <2> HIDE DEF row
  <2>6. Dependencies(image, r, i) = row
    <3>1. /\ ~(r.offsets[i] > r.offsets[i + 1])
          /\ ~(r.offsets[i + 1] > Len(r.edges))
          /\ SubSeq(r.edges, r.offsets[i] + 1, r.offsets[i + 1]) = row
      BY <1>3, <2>5 DEF row
    <3>2. QED
      BY <2>4, <3>1 DEF Dependencies
  <2>7. row # Corrupt
    BY <2>3, EncodedAssumption
  <2>8. QED
    BY <2>1, <2>6, <2>7 DEF row
<1>8. ValidateRows(image, r)
  BY <1>1, <1>3, <1>7 DEF ValidateRows, SourceIds
<1>9. QED
  BY <1>3, <1>5, <1>6, <1>7, <1>8 DEF r, n, image

-----------------------------------------------------------------------------
(* A function that takes S to T one by one.                                *)
OneByOne(f, S, T) ==
  /\ f \in [S -> T]
  /\ \A x, y \in S : f[x] = f[y] => x = y
  /\ \A t \in T : \E x \in S : f[x] = t

(* The two sets are of the same size.                                      *)
LEMMA SameSize ==
  ASSUME NEW S, NEW T, NEW f, IsFiniteSet(S), OneByOne(f, S, T)
  PROVE  IsFiniteSet(T) /\ Cardinality(T) = Cardinality(S)
<1>1. f \in Injection(S, T)
  BY DEF Injection, IsInjective, OneByOne
<1>2. f \in Surjection(S, T)
  BY DEF Surjection, OneByOne
<1>3. ExistsBijection(S, T)
  BY <1>1, <1>2 DEF ExistsBijection, Bijection
<1>4. QED
  BY <1>3, FS_Bijection

(* The edges of rows that have been written: one for every place in the    *)
(* block, and none twice.                                                  *)
LEMMA EdgeFacts ==
  ASSUME NEW n, NEW rows, Rows(rows, n), NEW image, image.header.sources = n
  PROVE  LET r == CompressedRows(rows)
             edges == EdgesOf(image, r)
         IN
         /\ IsFiniteSet(edges) /\ Cardinality(edges) = Len(r.edges)
         /\ \A e \in edges : e[1] \in 1..n /\ r.edges[e[2]] \in rows[e[1]]
         /\ \A d, e \in edges : d[1] = e[1] /\ r.edges[d[2]] = r.edges[e[2]] => d = e
         /\ \A a \in 1..n : \A b \in rows[a] :
              \E e \in edges : e[1] = a /\ r.edges[e[2]] = b
<1> DEFINE r == CompressedRows(rows)
           edges == EdgesOf(image, r)
           m == Len(r.edges)
<1>1. n \in Nat /\ \A i \in 1..n : rows[i] \subseteq 1..n /\ IsFiniteSet(rows[i])
  BY RowFacts
<1>2. /\ r.offsets \in Seq(Nat) /\ Len(r.offsets) = n + 1
      /\ r.edges \in Seq(1..n)
      /\ \A i \in 1..n :
           /\ r.offsets[i] <= r.offsets[i + 1] /\ r.offsets[i + 1] <= Len(r.edges)
           /\ r.offsets[i + 1] = r.offsets[i] + Len(SetToSeq(rows[i]))
           /\ \A k \in 1..Len(SetToSeq(rows[i])) :
                r.edges[r.offsets[i] + k] = SetToSeq(rows[i])[k]
      /\ \A j \in 1..Len(r.edges) :
           /\ \E i \in 1..n : r.offsets[i] < j /\ j <= r.offsets[i + 1]
           /\ \A i, k \in 1..n :
                /\ r.offsets[i] < j /\ j <= r.offsets[i + 1]
                /\ r.offsets[k] < j /\ j <= r.offsets[k + 1]
                => i = k
  BY CompressedFacts
<1>3. \A i \in 1..n : LET row == SetToSeq(rows[i]) IN
        /\ row \in Seq(rows[i]) /\ ToSet(row) = rows[i] /\ Len(row) \in Nat
        /\ \A k, l \in 1..Len(row) : row[k] = row[l] => k = l
  BY <1>1, SetToSeqFacts
<1> HIDE DEF r
<1>4. m \in Nat /\ \A i \in 1..(n + 1) : r.offsets[i] \in Nat
  BY <1>2
<1>5. edges = {e \in (1..n) \X (1..m) :
                 e[2] > r.offsets[e[1]] /\ e[2] <= r.offsets[e[1] + 1]}
  BY DEF EdgesOf, SourceIds
<1> HIDE DEF edges, m
<1>6. \A e \in edges : /\ e[1] \in 1..n /\ e[2] \in 1..m /\ e = <<e[1], e[2]>>
                       /\ r.offsets[e[1]] < e[2] /\ e[2] <= r.offsets[e[1] + 1]
  <2> SUFFICES ASSUME NEW e \in edges
               PROVE  /\ e[1] \in 1..n /\ e[2] \in 1..m /\ e = <<e[1], e[2]>>
                      /\ r.offsets[e[1]] < e[2] /\ e[2] <= r.offsets[e[1] + 1]
    OBVIOUS
  <2>1. e \in (1..n) \X (1..m) /\ e[2] > r.offsets[e[1]] /\ e[2] <= r.offsets[e[1] + 1]
    BY <1>5
  <2>2. e[1] \in 1..n /\ e[2] \in 1..m /\ e = <<e[1], e[2]>>
    BY <2>1
  <2>3. r.offsets[e[1]] \in Nat
    BY <1>1, <1>4, <2>2
  <2>4. QED
    BY <1>4, <2>1, <2>2, <2>3
<1>7. IsFiniteSet(edges) /\ Cardinality(edges) = m
  <2> DEFINE f == [e \in edges |-> e[2]]
  <2>1. f \in [edges -> 1..m]
    BY <1>6
  <2>2. \A d, e \in edges : f[d] = f[e] => d = e
    <3> SUFFICES ASSUME NEW d \in edges, NEW e \in edges, d[2] = e[2]
                 PROVE  d = e
      OBVIOUS
    <3>1. d[1] = e[1]
      BY <1>2, <1>6 DEF m
    <3>2. QED
      BY <1>6, <3>1, Zenon
  <2>3. \A j \in 1..m : \E e \in edges : f[e] = j
    <3> SUFFICES ASSUME NEW j \in 1..m
                 PROVE  \E e \in edges : e[2] = j
      OBVIOUS
    <3>1. PICK i \in 1..n : r.offsets[i] < j /\ j <= r.offsets[i + 1]
      BY <1>2 DEF m
    <3>2. i \in 1..(n + 1) /\ j \in Nat
      BY <1>1, <1>4
    <3>3. j > r.offsets[i]
      BY <1>4, <3>1, <3>2
    <3>4. <<i, j>> \in edges
      BY <1>5, <3>1, <3>3
    <3>5. QED
      BY <3>4
  <2> HIDE DEF f
  <2>4. IsFiniteSet(1..m) /\ Cardinality(1..m) = m
    <3>1. IsFiniteSet(1..m) /\ Cardinality(1..m) = IF 1 > m THEN 0 ELSE m - 1 + 1
      BY <1>4, FS_Interval
    <3>2. QED
      BY <1>4, <3>1
  <2>5. f \in Injection(edges, 1..m)
    BY <2>1, <2>2 DEF Injection, IsInjective
  <2>6. IsFiniteSet(edges)
    BY <2>4, <2>5, FS_Injection
  <2>7. Cardinality(1..m) = Cardinality(edges)
    <3>1. OneByOne(f, edges, 1..m)
      BY <2>1, <2>2, <2>3 DEF OneByOne
    <3>2. QED
      BY <2>6, <3>1, SameSize
  <2>8. QED
    BY <2>4, <2>6, <2>7
<1>8. ASSUME NEW e \in edges
      PROVE  LET k == e[2] - r.offsets[e[1]] IN
             /\ k \in 1..Len(SetToSeq(rows[e[1]]))
             /\ r.offsets[e[1]] \in Nat
             /\ r.edges[e[2]] = SetToSeq(rows[e[1]])[k]
  <2> DEFINE i == e[1]
             j == e[2]
             row == SetToSeq(rows[i])
             k == j - r.offsets[i]
  <2>1. i \in 1..n /\ j \in 1..m /\ r.offsets[i] < j /\ j <= r.offsets[i + 1]
    BY <1>6
  <2>2. /\ r.offsets[i + 1] = r.offsets[i] + Len(row)
        /\ \A l \in 1..Len(row) : r.edges[r.offsets[i] + l] = row[l]
    BY <1>2, <2>1
  <2>3. r.offsets[i] \in Nat /\ Len(row) \in Nat
    BY <1>1, <1>3, <1>4, <2>1
  <2> HIDE DEF i, j, row
  <2>4. k \in 1..Len(row) /\ r.offsets[i] + k = j
    BY <1>4, <2>1, <2>2, <2>3
  <2>5. r.edges[j] = row[k]
    BY <2>2, <2>4
  <2>6. QED
    BY <2>3, <2>4, <2>5 DEF i, j, row
<1>9. \A e \in edges : e[1] \in 1..n /\ r.edges[e[2]] \in rows[e[1]]
  <2> SUFFICES ASSUME NEW e \in edges
               PROVE  e[1] \in 1..n /\ r.edges[e[2]] \in rows[e[1]]
    OBVIOUS
  <2>1. PICK k \in 1..Len(SetToSeq(rows[e[1]])) : r.edges[e[2]] = SetToSeq(rows[e[1]])[k]
    BY <1>8
  <2>2. e[1] \in 1..n
    BY <1>6
  <2>3. SetToSeq(rows[e[1]]) \in Seq(rows[e[1]])
    BY <1>3, <2>2
  <2>4. QED
    BY <2>1, <2>2, <2>3
<1>10. ASSUME NEW d \in edges, NEW e \in edges,
              d[1] = e[1], r.edges[d[2]] = r.edges[e[2]]
       PROVE  d = e
  <2> DEFINE i == e[1]
             row == SetToSeq(rows[i])
  <2>1. /\ d[2] - r.offsets[i] \in 1..Len(row) /\ r.edges[d[2]] = row[d[2] - r.offsets[i]]
        /\ e[2] - r.offsets[i] \in 1..Len(row) /\ r.edges[e[2]] = row[e[2] - r.offsets[i]]
        /\ r.offsets[i] \in Nat
    BY <1>8, <1>10
  <2>2. i \in 1..n
    BY <1>6
  <2>3. d[2] - r.offsets[i] = e[2] - r.offsets[i]
    <3>1. \A k, l \in 1..Len(row) : row[k] = row[l] => k = l
      BY <1>3, <2>2
    <3>2. row[d[2] - r.offsets[i]] = row[e[2] - r.offsets[i]]
      BY <1>10, <2>1
    <3> HIDE DEF row, i
    <3>3. QED
      BY <2>1, <3>1, <3>2
  <2>4. d[2] \in Nat /\ e[2] \in Nat
    BY <1>4, <1>6
  <2> HIDE DEF row, i
  <2>5. d[2] = e[2]
    BY <2>1, <2>3, <2>4
  <2>6. QED
    BY <1>6, <1>10, <2>5, Zenon
<1>11. ASSUME NEW a \in 1..n, NEW b \in rows[a]
       PROVE  \E e \in edges : e[1] = a /\ r.edges[e[2]] = b
  <2> DEFINE row == SetToSeq(rows[a])
  <2>1. row \in Seq(rows[a]) /\ ToSet(row) = rows[a] /\ Len(row) \in Nat
    BY <1>3
  <2>2. /\ r.offsets[a + 1] = r.offsets[a] + Len(row)
        /\ r.offsets[a + 1] <= m
        /\ \A l \in 1..Len(row) : r.edges[r.offsets[a] + l] = row[l]
    BY <1>2 DEF m
  <2> HIDE DEF row
  <2>3. PICK k \in 1..Len(row) : row[k] = b
    BY <2>1 DEF ToSet
  <2>4. r.offsets[a] \in Nat /\ r.offsets[a + 1] \in Nat
    BY <1>1, <1>4
  <2> DEFINE j == r.offsets[a] + k
  <2>5. j \in 1..m /\ j > r.offsets[a] /\ j <= r.offsets[a + 1]
    BY <1>4, <2>1, <2>2, <2>4
  <2>6. r.edges[j] = b
    BY <2>2, <2>3
  <2> HIDE DEF j
  <2>7. <<a, j>> \in edges
    BY <1>5, <2>5
  <2>8. QED
    BY <2>6, <2>7
<1>12. QED
  BY <1>7, <1>9, <1>10, <1>11 DEF r, edges, m

(* As pairs, and as pairs turned around, they are as many.                 *)
PairsOf(image, r) == {<<e[1], r.edges[e[2]]>> : e \in EdgesOf(image, r)}
TurnedOf(image, r) == {<<r.edges[e[2]], e[1]>> : e \in EdgesOf(image, r)}

(* Written rows have one edge for each pair.                               *)
LEMMA PairFacts ==
  ASSUME NEW n, NEW rows, Rows(rows, n), NEW image, image.header.sources = n
  PROVE  LET r == CompressedRows(rows) IN
         /\ Cardinality(EdgesOf(image, r)) = Len(r.edges)
         /\ Cardinality(PairsOf(image, r)) = Len(r.edges)
         /\ Cardinality(TurnedOf(image, r)) = Len(r.edges)
         /\ \A p \in PairsOf(image, r) : p \in (1..n) \X (1..n)
         /\ \A p \in TurnedOf(image, r) : p \in (1..n) \X (1..n)
         /\ \A p \in (1..n) \X (1..n) :
              /\ p \in PairsOf(image, r) <=> p[2] \in rows[p[1]]
              /\ p \in TurnedOf(image, r) <=> p[1] \in rows[p[2]]
<1> DEFINE r == CompressedRows(rows)
           edges == EdgesOf(image, r)
           pairs == {<<e[1], r.edges[e[2]]>> : e \in edges}
           turned == {<<r.edges[e[2]], e[1]>> : e \in edges}
<1>1. /\ IsFiniteSet(edges) /\ Cardinality(edges) = Len(r.edges)
      /\ \A e \in edges : e[1] \in 1..n /\ r.edges[e[2]] \in rows[e[1]]
      /\ \A d, e \in edges : d[1] = e[1] /\ r.edges[d[2]] = r.edges[e[2]] => d = e
      /\ \A a \in 1..n : \A b \in rows[a] :
           \E e \in edges : e[1] = a /\ r.edges[e[2]] = b
  BY EdgeFacts
<1>2. \A i \in 1..n : rows[i] \subseteq 1..n
  BY RowFacts
<1> HIDE DEF edges, r
<1>3. Cardinality(pairs) = Cardinality(edges)
  <2> DEFINE f == [e \in edges |-> <<e[1], r.edges[e[2]]>>]
  <2>1. f \in [edges -> pairs] /\ \A p \in pairs : \E e \in edges : f[e] = p
    OBVIOUS
  <2>2. \A d, e \in edges : f[d] = f[e] => d = e
    BY <1>1
  <2> HIDE DEF f, pairs
  <2>3. OneByOne(f, edges, pairs)
    BY <2>1, <2>2 DEF OneByOne
  <2>4. QED
    BY <1>1, <2>3, SameSize
<1>4. Cardinality(turned) = Cardinality(edges)
  <2> DEFINE f == [e \in edges |-> <<r.edges[e[2]], e[1]>>]
  <2>1. f \in [edges -> turned] /\ \A p \in turned : \E e \in edges : f[e] = p
    OBVIOUS
  <2>2. \A d, e \in edges : f[d] = f[e] => d = e
    BY <1>1
  <2> HIDE DEF f, turned
  <2>3. OneByOne(f, edges, turned)
    BY <2>1, <2>2 DEF OneByOne
  <2>4. QED
    BY <1>1, <2>3, SameSize
<1>5. pairs = {p \in (1..n) \X (1..n) : p[2] \in rows[p[1]]}
  <2>1. ASSUME NEW p \in pairs
        PROVE  p \in (1..n) \X (1..n) /\ p[2] \in rows[p[1]]
    BY <1>1, <1>2
  <2>2. ASSUME NEW p \in (1..n) \X (1..n), p[2] \in rows[p[1]]
        PROVE  p \in pairs
    <3>1. p = <<p[1], p[2]>> /\ p[1] \in 1..n
      OBVIOUS
    <3>2. PICK e \in edges : e[1] = p[1] /\ r.edges[e[2]] = p[2]
      BY <1>1, <2>2, <3>1
    <3>3. p = <<e[1], r.edges[e[2]]>>
      BY <3>1, <3>2, Zenon
    <3>4. QED
      BY <3>3
  <2>3. QED
    BY <2>1, <2>2
<1>6. turned = {p \in (1..n) \X (1..n) : p[1] \in rows[p[2]]}
  <2>1. ASSUME NEW p \in turned
        PROVE  p \in (1..n) \X (1..n) /\ p[1] \in rows[p[2]]
    BY <1>1, <1>2
  <2>2. ASSUME NEW p \in (1..n) \X (1..n), p[1] \in rows[p[2]]
        PROVE  p \in turned
    <3>1. p = <<p[1], p[2]>> /\ p[2] \in 1..n
      OBVIOUS
    <3>2. PICK e \in edges : e[1] = p[2] /\ r.edges[e[2]] = p[1]
      BY <1>1, <2>2, <3>1
    <3>3. p = <<r.edges[e[2]], e[1]>>
      BY <3>1, <3>2, Zenon
    <3>4. QED
      BY <3>3
  <2>3. QED
    BY <2>1, <2>2
<1>7. QED
  BY <1>1, <1>3, <1>4, <1>5, <1>6 DEF edges, r, PairsOf, TurnedOf

(* The writer's rows pass validate_dependency_symmetry.                    *)
LEMMA ImageSymmetry ==
  ASSUME NEW c, Saved(c)
  PROVE  ValidateSymmetry(Image(c))
<1> DEFINE n == Len(c.sources)
           image == Image(c)
           fwd == CompressedRows(c.includes)
           rev == CompressedRows(c.dependents)
<1>1. /\ image.header.sources = n
      /\ image.forward = fwd /\ image.reverse = rev
      /\ image.header.forward = Len(fwd.edges) /\ image.header.reverse = Len(rev.edges)
  BY ImageFields
<1>2. /\ Rows(c.includes, n) /\ Rows(c.dependents, n)
      /\ \A i, j \in 1..n : i \in c.dependents[j] <=> j \in c.includes[i]
  BY DEF Saved
<1> HIDE DEF image, n
<1>3. /\ Cardinality(EdgesOf(image, fwd)) = Len(fwd.edges)
      /\ Cardinality(PairsOf(image, fwd)) = Len(fwd.edges)
      /\ \A p \in PairsOf(image, fwd) : p \in (1..n) \X (1..n)
      /\ \A p \in (1..n) \X (1..n) : p \in PairsOf(image, fwd) <=> p[2] \in c.includes[p[1]]
  BY <1>1, <1>2, PairFacts
<1>4. /\ Cardinality(EdgesOf(image, rev)) = Len(rev.edges)
      /\ Cardinality(TurnedOf(image, rev)) = Len(rev.edges)
      /\ \A p \in TurnedOf(image, rev) : p \in (1..n) \X (1..n)
      /\ \A p \in (1..n) \X (1..n) : p \in TurnedOf(image, rev) <=> p[1] \in c.dependents[p[2]]
  BY <1>1, <1>2, PairFacts
<1> HIDE DEF fwd, rev
<1>5. PairsOf(image, fwd) = TurnedOf(image, rev)
  <2>1. \A p \in (1..n) \X (1..n) : p[2] \in c.includes[p[1]] <=> p[1] \in c.dependents[p[2]]
    BY <1>2
  <2>2. QED
    BY <1>3, <1>4, <2>1
<1>6. Len(fwd.edges) = Len(rev.edges)
  BY <1>3, <1>4, <1>5
<1>7. /\ image.header.forward = image.header.reverse
      /\ Cardinality(PairsOf(image, image.forward)) = Cardinality(EdgesOf(image, image.forward))
      /\ Cardinality(TurnedOf(image, image.reverse)) = Cardinality(EdgesOf(image, image.reverse))
      /\ PairsOf(image, image.forward) = TurnedOf(image, image.reverse)
  BY <1>1, <1>3, <1>4, <1>5, <1>6
<1>8. ValidateSymmetry(image)
  BY <1>7, Zenon DEF ValidateSymmetry, PairsOf, TurnedOf
<1>9. QED
  BY <1>8 DEF image

-----------------------------------------------------------------------------
(* The numbers of an image are numbers.                                    *)
LEMMA ImageDecoded ==
  ASSUME NEW c, Saved(c)
  PROVE  Decoded(Image(c))
<1> DEFINE n == Len(c.sources)
           image == Image(c)
<1>1. /\ n \in Nat /\ image.header.sources = n
      /\ image.forward = CompressedRows(c.includes)
      /\ image.reverse = CompressedRows(c.dependents)
  BY SavedPaths, ImageFields
<1>2. image.header.capacity \in Nat
  BY ImageIndex
<1>3. /\ image.bytes \in Seq(Nat)
      /\ \A i \in 1..n : image.core[i].offset \in Nat /\ image.core[i].length \in Nat
  BY ImagePaths
<1>4. ASSUME NEW rows \in {c.includes, c.dependents}
      PROVE  LET r == CompressedRows(rows) IN
             /\ \A i \in 1..(n + 1) : r.offsets[i] \in Nat
             /\ r.edges \in Seq(Nat)
  BY ImageRows
<1> HIDE DEF n, image
<1>5. QED
  BY <1>1, <1>2, <1>3, <1>4 DEF Decoded, SourceIds, image

(* The sections of an image are as long as the header says.                *)
LEMMA ImageContainer ==
  ASSUME NEW c, Saved(c)
  PROVE  DecodeContainer(Image(c)) /\ ValidateRoots(Image(c))
         /\ ToSet(Image(c).roots) = c.roots
<1> DEFINE n == Len(c.sources)
           image == Image(c)
           fwd == CompressedRows(c.includes)
           rev == CompressedRows(c.dependents)
<1>1. /\ n \in Nat /\ image.header.sources = n
      /\ image.header.roots = Cardinality(c.roots)
      /\ image.header.forward = Len(image.forward.edges)
      /\ image.header.reverse = Len(image.reverse.edges)
      /\ image.header.bytes = Len(image.bytes)
      /\ Len(image.core) = n /\ Len(image.physical) = n
      /\ image.forward = fwd /\ image.reverse = rev
      /\ image.roots = SetToSeq(c.roots)
  BY SavedPaths, ImageFields
<1>2. /\ image.header.capacity = PathIndexCapacity(n)
      /\ DOMAIN image.index = 0..(image.header.capacity - 1)
  BY ImageIndex DEF IndexOK
<1>3. image.header.bytes = 0 \/ n # 0
  BY ImagePaths
<1>4. /\ Len(fwd.offsets) = n + 1 /\ Len(rev.offsets) = n + 1
      /\ ValidateRows(image, fwd) /\ ValidateRows(image, rev)
  BY ImageRows
<1>5. c.roots \subseteq 1..n
  BY DEF Saved
<1> HIDE DEF n, image, fwd, rev
<1>6. IsFiniteSet(c.roots)
  <2>1. IsFiniteSet(1..n)
    BY <1>1, FS_Interval
  <2>2. QED
    BY <1>5, <2>1, FS_Subset
<1>7. /\ image.roots \in Seq(c.roots) /\ Len(image.roots) = Cardinality(c.roots)
      /\ ToSet(image.roots) = c.roots
  BY <1>1, <1>6, SetToSeqFacts
<1>8. ValidateRoots(image)
  BY <1>1, <1>5, <1>7 DEF ValidateRoots, SourceIds
<1>9. /\ n = 0 => PathIndexCapacity(n) = 0
      /\ n * 10 <= PathIndexCapacity(n) * 7
      /\ n # 0 => \E k \in 0..PathIndexCapacity(n) :
                    Doubled(PathIndexCapacity(n))[k] = PathIndexCapacity(n)
  BY <1>1, CapacityFacts
<1>10. ASSUME n = 0
       PROVE  /\ image.header.roots = 0 /\ image.header.forward = 0
              /\ image.header.reverse = 0 /\ image.header.capacity = 0
              /\ image.header.bytes = 0
  <2>1. c.roots = {}
    BY <1>5, <1>10
  <2>2. Cardinality(c.roots) = 0
    BY <2>1, FS_EmptySet
  <2>3. \A rows \in {fwd, rev} : Len(rows.edges) = 0
    BY <1>1, <1>4, <1>10 DEF ValidateRows
  <2>4. QED
    BY <1>1, <1>2, <1>3, <1>9, <1>10, <2>2, <2>3
<1>11. DecodeContainer(image)
  <2>1. /\ Len(image.core) = image.header.sources /\ Len(image.physical) = image.header.sources
        /\ Len(image.forward.offsets) = image.header.sources + 1
        /\ Len(image.reverse.offsets) = image.header.sources + 1
        /\ Len(image.forward.edges) = image.header.forward
        /\ Len(image.reverse.edges) = image.header.reverse
        /\ Len(image.roots) = image.header.roots
        /\ DOMAIN image.index = 0..(image.header.capacity - 1)
        /\ Len(image.bytes) = image.header.bytes
    BY <1>1, <1>2, <1>4, <1>7
  <2>2. CASE n = 0
    BY <1>1, <1>10, <2>1, <2>2 DEF DecodeContainer
  <2>3. CASE n # 0
    BY <1>1, <1>2, <1>9, <2>1, <2>3 DEF DecodeContainer
  <2>4. QED
    BY <2>2, <2>3
<1>12. QED
  BY <1>7, <1>8, <1>11 DEF image

(* Every bucket and every Source, as validate_path_index wants them.       *)
LEMMA ImageValidIndex ==
  ASSUME NEW c, Saved(c)
  PROVE  ValidatePathIndex(Image(c))
<1> DEFINE n == Len(c.sources)
           s == EncodedPaths(c)
           image == Image(c)
           capacity == image.header.capacity
           index == image.index
<1>1. /\ n \in Nat /\ image.header.sources = n
      /\ \A i \in 1..n : s[i] # Corrupt /\ PathBytes(image, i) = s[i]
  BY SavedPaths, ImageFields, ImagePaths
<1>2. capacity \in Nat /\ IndexOK(index, n, capacity, s)
  BY ImageIndex
<1> HIDE DEF n, s, image, capacity, index
<1>3. DOMAIN index = 0..(capacity - 1)
  BY <1>2 DEF IndexOK
<1>4. ASSUME NEW b \in 0..(capacity - 1)
      PROVE  LET bytes == PathBytes(image, index[b].id) IN
             IF index[b].id = 0 THEN index[b].fingerprint = 0
             ELSE /\ index[b].id \in SourceIds(image)
                  /\ bytes # Corrupt /\ PathHash(bytes).fingerprint = index[b].fingerprint
                  /\ \E k \in 0..(capacity - 1) :
                       /\ Probe(capacity, PathHash(bytes), k) = b
                       /\ \A l \in 0..k : index[Probe(capacity, PathHash(bytes), l)].id # 0
  <2>1. CASE index[b] = FreeBucket
    BY <2>1 DEF FreeBucket
  <2>2. CASE index[b] # FreeBucket
    <3> DEFINE id == index[b].id
    <3>1. /\ id \in 1..n
          /\ index[b].fingerprint = PathHash(s[id]).fingerprint
          /\ \E k \in 0..(capacity - 1) :
               /\ Probe(capacity, PathHash(s[id]), k) = b
               /\ \A l \in 0..k : index[Probe(capacity, PathHash(s[id]), l)].id # 0
      BY <1>2, <2>2 DEF IndexOK
    <3>2. PathBytes(image, id) = s[id] /\ s[id] # Corrupt /\ id # 0
      BY <1>1, <3>1
    <3>3. id \in SourceIds(image)
      BY <1>1, <3>1 DEF SourceIds
    <3> HIDE DEF id
    <3>4. QED
      BY <3>1, <3>2, <3>3 DEF id
  <2>3. QED
    BY <2>1, <2>2
<1>5. ASSUME NEW id \in SourceIds(image)
      PROVE  Cardinality({b \in DOMAIN index : index[b].id = id}) = 1
  <2>1. id \in 1..n /\ id # 0
    BY <1>1 DEF SourceIds
  <2>2. PICK b \in 0..(capacity - 1) : index[b].id = id
    BY <1>2, <2>1 DEF IndexOK
  <2>3. \A d \in 0..(capacity - 1) : index[d].id = id => d = b
    BY <1>2, <2>1, <2>2 DEF IndexOK
  <2>4. {d \in DOMAIN index : index[d].id = id} = {b}
    BY <1>3, <2>2, <2>3
  <2>5. QED
    BY <2>4, FS_Singleton
<1>6. ValidatePathIndex(image)
  <2>1. \A b \in DOMAIN image.index :
          LET bytes == PathBytes(image, image.index[b].id) IN
          IF image.index[b].id = 0 THEN image.index[b].fingerprint = 0
          ELSE /\ image.index[b].id \in SourceIds(image)
               /\ bytes # Corrupt /\ PathHash(bytes).fingerprint = image.index[b].fingerprint
               /\ \E k \in 0..(image.header.capacity - 1) :
                    /\ Probe(image.header.capacity, PathHash(bytes), k) = b
                    /\ \A l \in 0..k :
                         image.index[Probe(image.header.capacity, PathHash(bytes), l)].id # 0
    BY <1>3, <1>4, Zenon DEF index, capacity
  <2>2. \A id \in SourceIds(image) :
          Cardinality({b \in DOMAIN image.index : image.index[b].id = id}) = 1
    BY <1>5, Zenon DEF index
  <2>3. QED
    BY <2>1, <2>2, Zenon DEF ValidatePathIndex
<1>7. QED
  BY <1>6 DEF image

(* A state, as it is saved and read back.                                  *)
LEMMA PhysicalFacts ==
  ASSUME NEW state \in States
  PROVE  LET record == PhysicalRecord(state) IN
         /\ record.flags \in {0, 1}
         /\ record.flags = 0 => record.observation = 0 /\ record.hash = NoHash
         /\ (IF record.flags = 1
             THEN [presence |-> "present", observation |-> record.observation,
                   hash |-> record.hash]
             ELSE Missing)
            = (IF state.presence = "present" THEN state ELSE Missing)
<1>1. CASE state.presence = "present"
  <2>1. PhysicalRecord(state) =
          [flags |-> 1, observation |-> state.observation, hash |-> state.hash]
    BY <1>1 DEF PhysicalRecord
  <2>2. state \notin {Unknown, Missing}
    BY <1>1 DEF Unknown, Missing
  <2>3. state \in [presence : {"present"}, observation : 0..MaxWrites,
                   hash : {Hash(b) : b \in Bytes}]
    BY <2>2 DEF States
  <2>4. state = [presence |-> "present", observation |-> state.observation,
                 hash |-> state.hash]
    BY <2>3
  <2>5. QED
    BY <1>1, <2>1, <2>4
<1>2. CASE state.presence # "present"
  <2>1. PhysicalRecord(state) = [flags |-> 0, observation |-> 0, hash |-> NoHash]
    BY <1>2 DEF PhysicalRecord
  <2>2. QED
    BY <1>2, <2>1
<1>3. QED
  BY <1>1, <1>2

-----------------------------------------------------------------------------
(* What the writer writes passes strict_validate, and read back it is what *)
(* was given.                                                              *)
LEMMA ImageValid ==
  ASSUME NEW c, Saved(c)
  PROVE  StrictValidate(Image(c))
<1> DEFINE n == Len(c.sources)
           s == EncodedPaths(c)
           image == Image(c)
<1>1. /\ n \in Nat /\ image.header.sources = n
      /\ image.forward = CompressedRows(c.includes)
      /\ image.reverse = CompressedRows(c.dependents)
      /\ \A i \in 1..n : image.physical[i] = PhysicalRecord(c.physical[i].state)
  BY SavedPaths, ImageFields
<1>2. DecodeContainer(image) /\ ValidateRoots(image) /\ ToSet(image.roots) = c.roots
  BY ImageContainer
<1>3. ValidatePathIndex(image) /\ ValidateSymmetry(image)
  BY ImageValidIndex, ImageSymmetry
<1>4. ValidateRows(image, image.forward) /\ ValidateRows(image, image.reverse)
  BY <1>1, ImageRows
<1>5. ValidatePathsAndPhysical(image)
  <2> DEFINE end(i) == image.core[i].offset + image.core[i].length
  <2>1. /\ \A i \in 1..n :
             /\ PathBytes(image, i) = s[i]
             /\ image.core[i].offset = IF i = 1 THEN 0 ELSE end(i - 1)
        /\ image.header.bytes = IF n = 0 THEN 0 ELSE end(n)
    BY ImagePaths
  <2>2. \A i \in 1..n : s[i] # <<>> /\ s[i] # Corrupt
    BY SavedPaths
  <2>3. \A i, j \in 1..n : s[i] = s[j] => i = j
    BY SavedPaths
  <2>4. \A i \in 1..n : c.physical[i].state \in States
    BY DEF Saved
  <2> HIDE DEF n, s, image
  <2>5. ASSUME NEW i \in 1..n
        PROVE  /\ image.physical[i].flags \in {0, 1}
               /\ image.physical[i].flags = 0 =>
                    image.physical[i].observation = 0 /\ image.physical[i].hash = NoHash
    BY <1>1, <2>4, PhysicalFacts
  <2>6. SourceIds(image) = 1..n
    BY <1>1 DEF SourceIds
  <2>7. QED
    BY <1>1, <2>1, <2>2, <2>3, <2>5, <2>6 DEF ValidatePathsAndPhysical
<1>6. ValidateAcyclic(image)
  <2>1. /\ Rows(c.includes, n) /\ c.roots \subseteq 1..n
        /\ \A i \in 1..n : i \notin Reached(1..n, c.includes, i)
    BY DEF Saved
  <2>2. \A i \in 1..n : ToSet(Dependencies(image, image.forward, i)) = c.includes[i]
    BY <1>1, ImageRows
  <2> HIDE DEF n, s, image
  <2>3. SourceIds(image) = 1..n
    BY <1>1 DEF SourceIds
  <2>4. IncludesInView(image) = c.includes
    BY <2>1, <2>2, <2>3 DEF IncludesInView, Rows
  <2>5. \A i : Reached(1..n, c.includes, i) \subseteq 1..n
    BY DEF Reached
  <2>6. QED
    BY <1>2, <2>1, <2>3, <2>4, <2>5 DEF ValidateAcyclic
<1>7. QED
  BY <1>2, <1>3, <1>4, <1>5, <1>6 DEF StrictValidate

(* A view of the image says what was given.                                *)
LEMMA ImageExact ==
  ASSUME NEW c, Saved(c)
  PROVE  ViewExact(c, Image(c))
<1> DEFINE n == Len(c.sources)
           s == EncodedPaths(c)
           image == Image(c)
<1>1. /\ n \in Nat /\ image.header.sources = n /\ DOMAIN c.sources = 1..n
      /\ image.forward = CompressedRows(c.includes)
      /\ image.reverse = CompressedRows(c.dependents)
      /\ \A i \in 1..n : image.physical[i] = PhysicalRecord(c.physical[i].state)
  BY SavedPaths, ImageFields
<1>2. ToSet(image.roots) = c.roots
  BY ImageContainer
<1>3. /\ Decoded(image) /\ DecodeContainer(image) /\ ValidatePathIndex(image)
  BY ImageDecoded, ImageContainer, ImageValidIndex
<1>4. ASSUME NEW i \in 1..n
      PROVE  /\ PathBytes(image, i) = s[i] /\ s[i] = Encoded[c.sources[i]]
             /\ c.sources[i] \in Paths /\ PathHash(s[i]).bucket \in Nat
  BY SavedPaths, ImagePaths
<1>5. \A i, j \in 1..n : s[i] = s[j] => i = j
  BY SavedPaths
<1>6. ASSUME NEW i \in 1..n
      PROVE  /\ ToSet(Dependencies(image, image.forward, i)) = c.includes[i]
             /\ ToSet(Dependencies(image, image.reverse, i)) = c.dependents[i]
  BY <1>1, ImageRows
<1>7. \A i \in 1..n : c.physical[i].state \in States
  BY DEF Saved
<1>8. c.sources \in Seq(Paths)
  BY DEF Saved
<1> HIDE DEF n, s, image
<1>9. SourceIds(image) = 1..n
  BY <1>1 DEF SourceIds
<1>10. ASSUME NEW i \in 1..n
       PROVE  FindInView(image, Encoded[c.sources[i]]) = i
  <2>1. i \in SourceIds(image) /\ PathHash(PathBytes(image, i)).bucket \in Nat
    BY <1>4, <1>9
  <2>2. \A j, k \in SourceIds(image) : PathBytes(image, j) = PathBytes(image, k) => j = k
    BY <1>4, <1>5, <1>9
  <2>3. FindInView(image, PathBytes(image, i)) = i
    BY <1>3, <2>1, <2>2, FindSource
  <2>4. PathBytes(image, i) = Encoded[c.sources[i]]
    BY <1>4
  <2>5. QED
    BY <2>3, <2>4
<1>11. ASSUME NEW i \in 1..n
       PROVE  PhysicalInView(image, i) =
                (IF c.physical[i].state.presence = "present"
                 THEN c.physical[i].state ELSE Missing)
  BY <1>1, <1>7, PhysicalFacts DEF PhysicalInView
<1>12. ASSUME NEW p \in Paths \ ToSet(c.sources)
       PROVE  FindInView(image, Encoded[p]) = NotAvailable
  <2> DEFINE found == FindInView(image, Encoded[p])
  <2>1. PathHash(Encoded[p]).bucket \in Nat
    BY EncodedAssumption
  <2>2. \/ found = NotAvailable
        \/ found \in SourceIds(image) /\ PathBytes(image, found) = Encoded[p]
    BY <1>3, <2>1, FindValid
  <2>3. ASSUME NEW i \in 1..n, PathBytes(image, i) = Encoded[p]
        PROVE  FALSE
    <3>1. Encoded[c.sources[i]] = Encoded[p] /\ c.sources[i] \in Paths
      BY <1>4, <2>3
    <3>2. c.sources[i] = p
      BY <3>1, EncodedAssumption
    <3>3. c.sources[i] \in ToSet(c.sources)
      BY <1>1 DEF ToSet
    <3>4. QED
      BY <3>2, <3>3
  <2>4. QED
    BY <1>9, <2>2, <2>3
<1>13. ViewExact(c, image)
  <2>1. \A i \in 1..n : PathBytes(image, i) = Encoded[c.sources[i]]
    BY <1>4
  <2>2. image.header.sources = Len(c.sources)
    BY <1>1 DEF n
  <2>3. QED
    BY <1>1, <1>2, <1>6, <1>10, <1>11, <1>12, <2>1, <2>2, Zenon DEF ViewExact
<1>14. QED
  BY <1>13 DEF image

-----------------------------------------------------------------------------
(* The fields an image has.                                                *)
Shaped(image) ==
  /\ DOMAIN image = {"header", "core", "physical", "forward", "reverse",
                     "roots", "index", "bytes"}
  /\ "capacity" \in DOMAIN image.header /\ "sources" \in DOMAIN image.header
  /\ DOMAIN image.core = SourceIds(image)
  /\ \A i \in SourceIds(image) : DOMAIN image.core[i] = {"offset", "length"}
  /\ DOMAIN image.forward = {"offsets", "edges"}
  /\ DOMAIN image.reverse = {"offsets", "edges"}
  /\ DOMAIN image.forward.offsets = 1..(image.header.sources + 1)
  /\ DOMAIN image.reverse.offsets = 1..(image.header.sources + 1)

(* Another number in a sequence of numbers.                                *)
LEMMA SequenceChanged ==
  ASSUME NEW q \in Seq(Nat), NEW i, NEW v \in Nat, NEW r, r = [q EXCEPT ![i] = v]
  PROVE  r \in Seq(Nat)
<1>1. Len(q) \in Nat /\ DOMAIN q = 1..Len(q) /\ \A k \in 1..Len(q) : q[k] \in Nat
  OBVIOUS
<1>2. r = [k \in DOMAIN q |-> r[k]]
  OBVIOUS
<1>3. \A k \in DOMAIN q : r[k] \in Nat
  BY <1>1
<1>4. r \in [1..Len(q) -> Nat]
  BY <1>1, <1>2, <1>3
<1>5. QED
  BY <1>1, <1>4

(* The ways to alter an image, one by one.                                 *)
LEMMA AlteredKinds ==
  ASSUME NEW image, NEW altered \in Altered(image)
  PROVE  LET numbers == 0..(image.header.sources + 1) IN
         \/ \E i \in DOMAIN image.core : \E v \in numbers :
              \/ altered = [image EXCEPT !.core[i].offset = v]
              \/ altered = [image EXCEPT !.core[i].length = v]
         \/ \E i : \E v \in numbers : \E j : \E w \in numbers :
              altered = Redirected(image, i, v, j, w)
         \/ \E i : \E v \in numbers :
              \/ altered = [image EXCEPT !.forward.offsets[i] = v]
              \/ altered = [image EXCEPT !.reverse.offsets[i] = v]
              \/ altered = [image EXCEPT !.roots[i] = v]
              \/ altered = [image EXCEPT !.index[i].id = v]
              \/ altered = [image EXCEPT !.bytes[i] = v]
         \/ \E a, b : altered = Swapped(image, a, b)
         \/ altered = Halved(image)
<1> DEFINE numbers == 0..(image.header.sources + 1)
           edges == DOMAIN image.forward.edges
           buckets == DOMAIN image.index
           A1 == {[image EXCEPT !.core[i].offset = v] : i \in DOMAIN image.core, v \in numbers}
           A2 == {[image EXCEPT !.core[i].length = v] : i \in DOMAIN image.core, v \in numbers}
           A3 == {Redirected(image, i, v, j, w) :
                    i \in edges, v \in numbers, j \in edges, w \in numbers}
           A4 == {[image EXCEPT !.forward.offsets[i] = v] :
                    i \in DOMAIN image.forward.offsets, v \in numbers}
           A5 == {[image EXCEPT !.reverse.offsets[i] = v] :
                    i \in DOMAIN image.reverse.offsets, v \in numbers}
           A6 == {[image EXCEPT !.roots[i] = v] : i \in DOMAIN image.roots, v \in numbers}
           A7 == {[image EXCEPT !.index[b].id = v] : b \in buckets, v \in numbers}
           A8 == {Swapped(image, a, b) : a \in buckets, b \in buckets}
           A9 == {[image EXCEPT !.bytes[i] = v] :
                    i \in DOMAIN image.bytes, v \in numbers \ {0}}
<1>1. altered \in A1 \cup A2 \cup A3 \cup A4 \cup A5 \cup A6 \cup A7 \cup A8 \cup A9
                     \cup {Halved(image)}
  BY DEF Altered
<1>2. CASE altered \in A1
  BY <1>2
<1>3. CASE altered \in A2
  BY <1>3
<1>4. CASE altered \in A3
  BY <1>4
<1>5. CASE altered \in A4
  BY <1>5
<1>6. CASE altered \in A5
  BY <1>6
<1>7. CASE altered \in A6
  BY <1>7
<1>8. CASE altered \in A7
  BY <1>8
<1>9. CASE altered \in A8
  BY <1>9
<1>10. CASE altered \in A9
  BY <1>10
<1>11. CASE altered = Halved(image)
  BY <1>11
<1> HIDE DEF A1, A2, A3, A4, A5, A6, A7, A8, A9
<1>12. QED
  BY <1>1, <1>2, <1>3, <1>4, <1>5, <1>6, <1>7, <1>8, <1>9, <1>10, <1>11, Zenon

(* The numbers of an altered image are still numbers.                      *)
LEMMA AlteredDecoded ==
  ASSUME NEW image, Shaped(image), Decoded(image), NEW altered \in Altered(image)
  PROVE  Decoded(altered)
<1> DEFINE n == image.header.sources
<1>1. n \in Nat /\ image.header.capacity \in Nat /\ image.bytes \in Seq(Nat)
  BY DEF Decoded
<1>2. \A v \in 0..(n + 1) : v \in Nat
  OBVIOUS
<1> HIDE DEF n
<1>3. ASSUME NEW i \in DOMAIN image.core, NEW v \in 0..(n + 1),
             NEW field \in {"offset", "length"},
             altered = [image EXCEPT !.core[i][field] = v]
      PROVE  Decoded(altered)
  <2>1. /\ altered.header = image.header /\ altered.bytes = image.bytes
        /\ altered.forward = image.forward /\ altered.reverse = image.reverse
        /\ altered.core = [image.core EXCEPT ![i][field] = v]
    BY <1>3 DEF Shaped
  <2>2. v \in Nat
    BY <1>2
  <2>3. SourceIds(altered) = SourceIds(image)
    BY <2>1 DEF SourceIds
  <2>4. ASSUME NEW j \in SourceIds(image)
        PROVE  altered.core[j].offset \in Nat /\ altered.core[j].length \in Nat
    <3>1. /\ image.core[j].offset \in Nat /\ image.core[j].length \in Nat
          /\ j \in DOMAIN image.core /\ DOMAIN image.core[j] = {"offset", "length"}
      BY DEF Decoded, Shaped
    <3>2. CASE j = i
      BY <2>1, <2>2, <3>1, <3>2
    <3>3. CASE j # i
      BY <2>1, <3>1, <3>3
    <3>4. QED
      BY <3>2, <3>3
  <2>5. QED
    BY <2>1, <2>3, <2>4 DEF Decoded
<1>4. ASSUME NEW i, NEW j, NEW v \in 0..(n + 1), NEW w \in 0..(n + 1),
             altered = Redirected(image, i, v, j, w)
      PROVE  Decoded(altered)
  <2>1. /\ altered.header = image.header /\ altered.bytes = image.bytes
        /\ altered.core = image.core
        /\ altered.forward = [image.forward EXCEPT !.edges[i] = v]
        /\ altered.reverse = [image.reverse EXCEPT !.edges[j] = w]
    BY <1>4 DEF Shaped, Redirected
  <2>2. /\ altered.forward.offsets = image.forward.offsets
        /\ altered.reverse.offsets = image.reverse.offsets
        /\ altered.forward.edges = [image.forward.edges EXCEPT ![i] = v]
        /\ altered.reverse.edges = [image.reverse.edges EXCEPT ![j] = w]
    BY <2>1 DEF Shaped
  <2>3. image.forward.edges \in Seq(Nat) /\ image.reverse.edges \in Seq(Nat)
    BY DEF Decoded
  <2>4. altered.forward.edges \in Seq(Nat) /\ altered.reverse.edges \in Seq(Nat)
    <3>1. v \in Nat /\ w \in Nat
      BY <1>2
    <3>2. QED
      <4> DEFINE p == altered.forward.edges
                 q == altered.reverse.edges
                 f == image.forward.edges
                 g == image.reverse.edges
      <4>1. p = [f EXCEPT ![i] = v] /\ q = [g EXCEPT ![j] = w]
        BY <2>2
      <4>2. f \in Seq(Nat) /\ g \in Seq(Nat)
        BY <2>3
      <4> HIDE DEF p, q, f, g
      <4>3. p \in Seq(Nat)
        BY <3>1, <4>1, <4>2, SequenceChanged
      <4>4. q \in Seq(Nat)
        BY <3>1, <4>1, <4>2, SequenceChanged
      <4>5. QED
        BY <4>3, <4>4 DEF p, q
  <2>5. SourceIds(altered) = SourceIds(image)
    BY <2>1 DEF SourceIds
  <2>6. QED
    BY <2>1, <2>2, <2>4, <2>5 DEF Decoded
<1>5. ASSUME NEW r \in {"forward", "reverse"}, NEW i, NEW v \in 0..(n + 1),
             \/ r = "forward" /\ altered = [image EXCEPT !.forward.offsets[i] = v]
             \/ r = "reverse" /\ altered = [image EXCEPT !.reverse.offsets[i] = v]
      PROVE  Decoded(altered)
  <2>1. /\ altered.header = image.header /\ altered.bytes = image.bytes
        /\ altered.core = image.core
        /\ altered[r] = [image[r] EXCEPT !.offsets[i] = v]
        /\ r = "forward" => altered.reverse = image.reverse
        /\ r = "reverse" => altered.forward = image.forward
    BY <1>5 DEF Shaped
  <2>2. /\ DOMAIN image[r] = {"offsets", "edges"}
        /\ DOMAIN image[r].offsets = 1..(n + 1)
        /\ image[r].edges \in Seq(Nat)
        /\ \A k \in 1..(n + 1) : image[r].offsets[k] \in Nat
    BY DEF Shaped, Decoded, n
  <2>3. /\ altered[r].edges = image[r].edges
        /\ altered[r].offsets = [image[r].offsets EXCEPT ![i] = v]
    BY <2>1, <2>2
  <2>4. \A k \in 1..(n + 1) : altered[r].offsets[k] \in Nat
    BY <1>2, <2>2, <2>3
  <2>5. SourceIds(altered) = SourceIds(image) /\ altered.header.sources = n
    BY <2>1 DEF SourceIds, n
  <2>6. CASE r = "forward"
    BY <2>1, <2>2, <2>3, <2>4, <2>5, <2>6 DEF Decoded, n
  <2>7. CASE r = "reverse"
    BY <2>1, <2>2, <2>3, <2>4, <2>5, <2>7 DEF Decoded, n
  <2>8. QED
    BY <2>6, <2>7
<1>6. ASSUME \/ \E i, v : altered = [image EXCEPT !.roots[i] = v]
             \/ \E b, v : altered = [image EXCEPT !.index[b].id = v]
             \/ \E a, b : altered = Swapped(image, a, b)
      PROVE  Decoded(altered)
  <2>1. /\ altered.header = image.header /\ altered.bytes = image.bytes
        /\ altered.core = image.core
        /\ altered.forward = image.forward /\ altered.reverse = image.reverse
    BY <1>6 DEF Shaped, Swapped
  <2>2. SourceIds(altered) = SourceIds(image)
    BY <2>1 DEF SourceIds
  <2>3. QED
    BY <2>1, <2>2 DEF Decoded
<1>7. ASSUME NEW i, NEW v \in 0..(n + 1), altered = [image EXCEPT !.bytes[i] = v]
      PROVE  Decoded(altered)
  <2>1. /\ altered.header = image.header /\ altered.bytes = [image.bytes EXCEPT ![i] = v]
        /\ altered.core = image.core
        /\ altered.forward = image.forward /\ altered.reverse = image.reverse
    BY <1>7 DEF Shaped
  <2>2. SourceIds(altered) = SourceIds(image)
    BY <2>1 DEF SourceIds
  <2>3. altered.bytes \in Seq(Nat)
    <3>1. v \in Nat
      BY <1>1
    <3>2. QED
      BY <1>1, <2>1, <3>1, SequenceChanged, Zenon
  <2>4. QED
    BY <2>1, <2>2, <2>3 DEF Decoded
<1>8. ASSUME altered = Halved(image)
      PROVE  Decoded(altered)
  <2>1. /\ altered.header = [image.header EXCEPT !.capacity = image.header.capacity \div 2]
        /\ altered.bytes = image.bytes /\ altered.core = image.core
        /\ altered.forward = image.forward /\ altered.reverse = image.reverse
    BY <1>8 DEF Shaped, Halved
  <2>2. /\ altered.header.sources = image.header.sources
        /\ altered.header.capacity = image.header.capacity \div 2
    BY <2>1 DEF Shaped
  <2>3. image.header.capacity \div 2 \in Nat
    BY <1>1
  <2>4. SourceIds(altered) = SourceIds(image)
    BY <2>2 DEF SourceIds
  <2>5. QED
    BY <2>1, <2>2, <2>3, <2>4 DEF Decoded
<1>9. \/ \E i \in DOMAIN image.core : \E v \in 0..(n + 1) :
           \/ altered = [image EXCEPT !.core[i].offset = v]
           \/ altered = [image EXCEPT !.core[i].length = v]
      \/ \E i : \E v \in 0..(n + 1) : \E j : \E w \in 0..(n + 1) :
           altered = Redirected(image, i, v, j, w)
      \/ \E i : \E v \in 0..(n + 1) :
           \/ altered = [image EXCEPT !.forward.offsets[i] = v]
           \/ altered = [image EXCEPT !.reverse.offsets[i] = v]
           \/ altered = [image EXCEPT !.roots[i] = v]
           \/ altered = [image EXCEPT !.index[i].id = v]
           \/ altered = [image EXCEPT !.bytes[i] = v]
      \/ \E a, b : altered = Swapped(image, a, b)
      \/ altered = Halved(image)
  BY AlteredKinds, Zenon DEF n
<1>10. QED
  BY <1>3, <1>4, <1>5, <1>6, <1>7, <1>8, <1>9

-----------------------------------------------------------------------------
(* An image has these fields.                                              *)
LEMMA ImageShaped ==
  ASSUME NEW c, Saved(c)
  PROVE  Shaped(Image(c))
<1> DEFINE n == Len(c.sources)
           image == Image(c)
<1>1. /\ n \in Nat /\ image.header.sources = n
      /\ DOMAIN image.core = 1..n
      /\ \A i \in 1..n : image.core[i] = [offset |-> Len(Written(EncodedPaths(c))[i - 1]),
                                          length |-> Len(EncodedPaths(c)[i])]
      /\ image.forward = CompressedRows(c.includes)
      /\ image.reverse = CompressedRows(c.dependents)
  BY SavedPaths, ImageFields
<1>2. /\ DOMAIN image = {"header", "core", "physical", "forward", "reverse",
                         "roots", "index", "bytes"}
      /\ "capacity" \in DOMAIN image.header /\ "sources" \in DOMAIN image.header
  BY DEF Image
<1>3. ASSUME NEW rows \in {c.includes, c.dependents}
      PROVE  /\ DOMAIN CompressedRows(rows) = {"offsets", "edges"}
             /\ DOMAIN CompressedRows(rows).offsets = 1..(n + 1)
  <2>1. CompressedRows(rows).offsets \in Seq(Nat) /\ Len(CompressedRows(rows).offsets) = n + 1
    BY ImageRows
  <2>2. DOMAIN CompressedRows(rows).offsets = 1..(n + 1)
    <3> HIDE DEF n
    <3> QED
      BY <2>1
  <2>3. DOMAIN CompressedRows(rows) = {"offsets", "edges"}
    BY DEF CompressedRows
  <2>4. QED
    BY <2>2, <2>3
<1> HIDE DEF n, image
<1>4. \A i \in 1..n : DOMAIN image.core[i] = {"offset", "length"}
  <2> SUFFICES ASSUME NEW i \in 1..n
               PROVE  DOMAIN image.core[i] = {"offset", "length"}
    OBVIOUS
  <2>1. image.core[i] = [offset |-> Len(Written(EncodedPaths(c))[i - 1]),
                         length |-> Len(EncodedPaths(c)[i])]
    BY <1>1, Zenon
  <2>2. QED
    BY <2>1
<1>5. Shaped(image)
  BY <1>1, <1>2, <1>3, <1>4 DEF Shaped, SourceIds
<1>6. QED
  BY <1>5 DEF image

(* What is published can be saved.                                         *)
LEMMA CommittedSaved ==
  ASSUME IndInv
  PROVE  Saved(committed)
<1>1. /\ committed.sources \in Seq(Paths)
      /\ LET n == Len(committed.sources) IN
         /\ committed.physical \in [1..n -> Storages]
         /\ committed.includes \in [1..n -> SUBSET (1..n)]
         /\ committed.dependents \in [1..n -> SUBSET (1..n)]
         /\ committed.roots \subseteq 1..n
  BY DEF IndInv, CommittedTyped
<1> DEFINE n == Len(committed.sources)
<1>2. n \in Nat /\ DOMAIN committed.sources = 1..n
  BY <1>1
<1>3. \A i, j \in 1..n : committed.sources[i] = committed.sources[j] => i = j
  BY <1>2 DEF IndInv, IdsInv
<1>4. \A i, j \in 1..n : i \in committed.dependents[j] <=> j \in committed.includes[i]
  BY <1>2 DEF IndInv, GraphInv
<1>5. \A i \in 1..n : i \notin Reached(1..n, committed.includes, i)
  BY <1>2 DEF IndInv, GraphInv, CommittedAcyclic
<1>6. \A i \in 1..n : committed.physical[i].state \in States
  BY <1>1 DEF Storages
<1>7. Rows(committed.includes, n) /\ Rows(committed.dependents, n) /\ committed.roots \subseteq 1..n
  BY <1>1, <1>2 DEF Rows
<1> HIDE DEF n
<1>8. committed.sources \in Seq(Paths)
  BY <1>1
<1>9. QED
  BY <1>3, <1>4, <1>5, <1>6, <1>7, <1>8 DEF Saved, n

(* What is published is saved and read back as it is.                      *)
LEMMA IndInvRoundTrip == IndInv => CheckpointRoundTrip
<1> SUFFICES ASSUME IndInv
             PROVE  CheckpointRoundTrip
  OBVIOUS
<1>1. StrictValidate(Image(committed)) /\ ViewExact(committed, Image(committed))
  BY CommittedSaved, ImageValid, ImageExact
<1>2. QED
  BY <1>1, Zenon DEF CheckpointRoundTrip

(* What is saved and altered is consistent or refused.                     *)
LEMMA IndInvValidated ==
  ASSUME HashesAreNumbers
  PROVE  IndInv => ValidatedIsConsistent
<1> SUFFICES ASSUME IndInv, NEW image \in Altered(Image(committed))
             PROVE  /\ StrictValidate(image) => Consistent(image)
                    /\ DecodeContainer(image) =>
                         \A p \in Paths : FindInView(image, Encoded[p])
                           \in SourceIds(image) \cup {NotAvailable, Corrupt}
  BY Zenon DEF ValidatedIsConsistent
<1>1. Saved(committed)
  BY CommittedSaved
<1>2. Decoded(image)
  BY <1>1, ImageShaped, ImageDecoded, AlteredDecoded
<1>3. StrictValidate(image) => Consistent(image)
  BY <1>2, StrictValidateSound
<1>4. image.header.capacity \in Nat
  BY <1>2 DEF Decoded
<1>5. \A p \in Paths : FindInView(image, Encoded[p])
        \in SourceIds(image) \cup {NotAvailable, Corrupt}
  BY <1>4, FindAnswers
<1>6. QED
  BY <1>3, <1>5

(* A checkpoint of what is published passes strict_validate, and read back *)
(* it is what was published: ids, paths, states, includes, dependents and  *)
(* roots, whatever paths there are and however they collide in the hash    *)
(* index (write_source_manager_checkpoint, stable_source_manager_view).    *)
THEOREM CheckpointAlwaysRoundTrips == Spec => []CheckpointRoundTrip
<1>1. Spec => []IndInv
  BY IndInvAlways
<1>2. IndInv => CheckpointRoundTrip
  BY IndInvRoundTrip
<1>3. QED
  BY <1>1, <1>2, PTL

(* strict_validate is complete: every altered image of what is published   *)
(* that it accepts is a consistent Source Manager, and a view of any other *)
(* answers with an id, not_available or artifact_corrupt.                  *)
THEOREM ValidatedAlwaysConsistent ==
  ASSUME HashesAreNumbers
  PROVE  Spec => []ValidatedIsConsistent
<1>1. Spec => []IndInv
  BY IndInvAlways
<1>2. IndInv => ValidatedIsConsistent
  BY IndInvValidated
<1>3. QED
  BY <1>1, <1>2, PTL
=============================================================================
