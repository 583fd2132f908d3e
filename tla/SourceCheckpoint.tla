-------------------------- MODULE SourceCheckpoint --------------------------
(***************************************************************************)
(* The contents of a source checkpoint (source_manager_persistence.cpp):   *)
(* the image write_source_manager_checkpoint builds of the committed       *)
(* Source Manager, the queries stable_source_manager_view answers from it, *)
(* and the validators.  How the file itself is written, replaced and       *)
(* survives a crash is CheckpointFile.                                     *)
(*                                                                         *)
(* An image has a header with the number of entries of each section, and   *)
(* the sections: path records into one block of path bytes, physical       *)
(* records, include edges and their reverse in compressed rows, roots and  *)
(* an open-addressing index from path hashes to ids.  Byte offsets,        *)
(* alignment, padding, CRC and payload hash are left out: an image whose   *)
(* bytes changed after it was sealed is refused by them.                   *)
(***************************************************************************)
EXTENDS SourceManager, SequencesExt

CONSTANTS
  Encoded,         \* [Paths -> path bytes]: encode_checkpoint_path
  PathHash(_),     \* path bytes -> [bucket, fingerprint]: source_path_xxh64
  Corrupt,         \* status_code::artifact_corrupt
  NotAvailable     \* status_code::not_available

(* encode_checkpoint_path keeps the native representation: it loses        *)
(* nothing, and no path is empty.  A fingerprint is never 0, and a status  *)
(* is neither bytes nor an id.                                             *)
ASSUME EncodedAssumption ==
  /\ DOMAIN Encoded = Paths
  /\ \A p \in Paths :
       /\ Encoded[p] \in Seq(Nat) \ {<<>>}
       /\ PathHash(Encoded[p]).bucket \in Nat
       /\ PathHash(Encoded[p]).fingerprint # 0
  /\ \A p, q \in Paths : Encoded[p] = Encoded[q] => p = q
  /\ Corrupt \notin Seq(Nat) /\ Corrupt \notin Nat /\ NotAvailable \notin Nat
  /\ Corrupt # NotAvailable

-----------------------------------------------------------------------------
(* The writer.                                                             *)

(* The powers of two up to 2^n.                                            *)
Doubled(n) ==
  LET power[k \in 0..n] == IF k = 0 THEN 1 ELSE power[k - 1] * 2
  IN power

(* path_index_capacity: the smallest power of two that n entries fill to   *)
(* no more than seven tenths.                                              *)
PathIndexCapacity(n) ==
  LET required == (n * 10 + 6) \div 7
      capacity == Doubled(required)
      enough == {k \in 0..required : capacity[k] >= required}
  IN IF n = 0 THEN 0 ELSE capacity[CHOOSE k \in enough : \A l \in enough : k <= l]

(* The buckets a search visits, in order: from the hash upwards, around.   *)
Probe(capacity, hash, k) == (hash.bucket + k) % capacity

FreeBucket == [fingerprint |-> 0, id |-> 0]

(* write_path_index for one Source: the first free bucket.                 *)
IndexInsert(index, id, hash) ==
  LET capacity == Cardinality(DOMAIN index)
      free == {k \in 0..(capacity - 1) :
                 index[Probe(capacity, hash, k)].id = 0}
      first == CHOOSE k \in free : \A l \in free : k <= l
  IN [index EXCEPT ![Probe(capacity, hash, first)] =
        [fingerprint |-> hash.fingerprint, id |-> id]]

PathIndex(paths) ==
  LET n == Len(paths)
      index[id \in 0..n] ==
        IF id = 0 THEN [b \in 0..(PathIndexCapacity(n) - 1) |-> FreeBucket]
        ELSE IndexInsert(index[id - 1], id, PathHash(paths[id]))
  IN index[n]

(* What has been written after each of the parts, one after the other.     *)
Written(parts) ==
  LET bytes[i \in 0..Len(parts)] ==
        IF i = 0 THEN <<>> ELSE bytes[i - 1] \o parts[i]
  IN bytes

(* write_dependency_csr: the rows one after the other, each in some order, *)
(* and where each begins and the last one ends.                            *)
CompressedRows(rows) ==
  LET edges == Written([i \in DOMAIN rows |-> SetToSeq(rows[i])])
  IN [offsets |-> [i \in 1..(Len(rows) + 1) |-> Len(edges[i - 1])],
      edges |-> edges[Len(rows)]]

(* write_source_state.  A Source that is not present leaves its record     *)
(* zero, whether it is missing or was never read.                          *)
PhysicalRecord(state) ==
  IF state.presence = "present"
  THEN [flags |-> 1, observation |-> state.observation, hash |-> state.hash]
  ELSE [flags |-> 0, observation |-> 0, hash |-> NoHash]

PathRecords(paths) ==
  [i \in DOMAIN paths |->
     [offset |-> Len(Written(paths)[i - 1]), length |-> Len(paths[i])]]

(* write_source_manager_checkpoint                                         *)
Image(c) ==
  LET paths == [i \in DOMAIN c.sources |-> Encoded[c.sources[i]]]
      forward == CompressedRows(c.includes)
      reverse == CompressedRows(c.dependents)
      index == PathIndex(paths)
      bytes == Written(paths)[Len(paths)]
  IN [header |-> [sources |-> Len(c.sources), roots |-> Cardinality(c.roots),
                  forward |-> Len(forward.edges), reverse |-> Len(reverse.edges),
                  capacity |-> Cardinality(DOMAIN index), bytes |-> Len(bytes)],
      core |-> PathRecords(paths),
      physical |-> [i \in DOMAIN c.sources |-> PhysicalRecord(c.physical[i].state)],
      forward |-> forward, reverse |-> reverse,
      roots |-> SetToSeq(c.roots), index |-> index, bytes |-> bytes]

-----------------------------------------------------------------------------
(* The view.                                                               *)
SourceIds(image) == 1..image.header.sources

(* validate_container_shape and decode_sections                            *)
DecodeContainer(image) ==
  LET h == image.header IN
  /\ IF h.sources = 0
     THEN h.roots = 0 /\ h.forward = 0 /\ h.reverse = 0 /\ h.capacity = 0 /\ h.bytes = 0
     ELSE /\ \E k \in 0..h.capacity : Doubled(h.capacity)[k] = h.capacity
          /\ h.sources * 10 <= h.capacity * 7
  /\ Len(image.core) = h.sources /\ Len(image.physical) = h.sources
  /\ Len(image.forward.offsets) = h.sources + 1
  /\ Len(image.reverse.offsets) = h.sources + 1
  /\ Len(image.forward.edges) = h.forward /\ Len(image.reverse.edges) = h.reverse
  /\ Len(image.roots) = h.roots
  /\ DOMAIN image.index = 0..(h.capacity - 1)
  /\ Len(image.bytes) = h.bytes

(* checked_path_bytes                                                      *)
PathBytes(image, id) ==
  LET record == image.core[id] IN
  IF id \in SourceIds(image) /\ record.offset + record.length <= image.header.bytes
  THEN SubSeq(image.bytes, record.offset + 1, record.offset + record.length)
  ELSE Corrupt

(* checked_dependencies                                                    *)
Dependencies(image, rows, id) ==
  LET begin == rows.offsets[id]
      end == rows.offsets[id + 1]
      edges == SubSeq(rows.edges, begin + 1, end)
  IN IF \/ begin > end \/ end > Len(rows.edges)
        \/ \E i \in DOMAIN edges : edges[i] \notin SourceIds(image)
     THEN Corrupt ELSE edges

(* Mutant: an entry with the fingerprint looked for is taken for the path. *)
FindInView_ByFingerprint(image, bytes) ==
  LET capacity == image.header.capacity
      hash == PathHash(bytes)
      entry(k) == image.index[Probe(capacity, hash, k)]
      stop(k) == entry(k).id = 0 \/ entry(k).fingerprint = hash.fingerprint
      stops == {k \in 0..(capacity - 1) : stop(k)}
      first == CHOOSE k \in stops : \A l \in stops : k <= l
  IN CASE capacity = 0 -> NotAvailable
       [] capacity > 0 /\ stops = {} -> Corrupt
       [] OTHER -> IF entry(first).id = 0 THEN NotAvailable ELSE entry(first).id

(* stable_source_manager_view::find: the probe ends at a free bucket, at   *)
(* an entry that cannot be, or at the one with these bytes.                *)
FindInView(image, bytes) ==
  LET capacity == image.header.capacity
      hash == PathHash(bytes)
      entry(k) == image.index[Probe(capacity, hash, k)]
      bad(k) ==
        \/ entry(k).id = 0 /\ entry(k).fingerprint # 0
        \/ entry(k).id > image.header.sources
        \/ /\ entry(k).id \in SourceIds(image)
           /\ entry(k).fingerprint = hash.fingerprint
           /\ PathBytes(image, entry(k).id) = Corrupt
      hit(k) == /\ entry(k).id \in SourceIds(image)
                /\ entry(k).fingerprint = hash.fingerprint
                /\ PathBytes(image, entry(k).id) = bytes
      stops == {k \in 0..(capacity - 1) : entry(k).id = 0 \/ bad(k) \/ hit(k)}
      first == CHOOSE k \in stops : \A l \in stops : k <= l
  IN CASE capacity = 0 -> NotAvailable
       [] capacity > 0 /\ (stops = {} \/ bad(first)) -> Corrupt
       [] OTHER -> IF entry(first).id = 0 THEN NotAvailable ELSE entry(first).id

(* stable_source_manager_view::physical                                    *)
PhysicalInView(image, id) ==
  LET record == image.physical[id] IN
  IF record.flags = 1
  THEN [presence |-> "present", observation |-> record.observation, hash |-> record.hash]
  ELSE Missing

-----------------------------------------------------------------------------
(* The validators.                                                         *)

(* validate_paths_and_physical                                             *)
ValidatePathsAndPhysical(image) ==
  LET end(i) == image.core[i].offset + image.core[i].length
      path(i) == PathBytes(image, i)
  IN
  /\ \A i \in SourceIds(image) :
       /\ path(i) \notin {Corrupt, <<>>}
       /\ image.core[i].offset = (IF i = 1 THEN 0 ELSE end(i - 1))
       /\ \A j \in SourceIds(image) : path(i) = path(j) => i = j
       /\ image.physical[i].flags \in {0, 1}
       /\ image.physical[i].flags = 0 =>
            image.physical[i].observation = 0 /\ image.physical[i].hash = NoHash
  /\ image.header.bytes =
       (IF image.header.sources = 0 THEN 0 ELSE end(image.header.sources))

(* validate_csr                                                            *)
ValidateRows(image, rows) ==
  /\ rows.offsets[1] = 0
  /\ rows.offsets[image.header.sources + 1] = Len(rows.edges)
  /\ \A id \in SourceIds(image) : Dependencies(image, rows, id) # Corrupt

(* validate_roots                                                          *)
ValidateRoots(image) ==
  \A i \in DOMAIN image.roots : image.roots[i] \in SourceIds(image)

(* Mutant: an entry need not be where a search finds it.                   *)
ValidatePathIndex_NotReachable(image) ==
  /\ \A b \in DOMAIN image.index :
       LET entry == image.index[b]
           bytes == PathBytes(image, entry.id)
       IN IF entry.id = 0 THEN entry.fingerprint = 0
          ELSE /\ entry.id \in SourceIds(image)
               /\ bytes # Corrupt /\ PathHash(bytes).fingerprint = entry.fingerprint
  /\ \A id \in SourceIds(image) :
       Cardinality({b \in DOMAIN image.index : image.index[b].id = id}) = 1

(* validate_path_index: every Source has one entry, with its fingerprint,  *)
(* and no free bucket lies between its hash and the entry.                 *)
ValidatePathIndex(image) ==
  LET capacity == image.header.capacity IN
  /\ \A b \in DOMAIN image.index :
       LET entry == image.index[b]
           bytes == PathBytes(image, entry.id)
           hash == PathHash(bytes)
       IN IF entry.id = 0 THEN entry.fingerprint = 0
          ELSE /\ entry.id \in SourceIds(image)
               /\ bytes # Corrupt /\ hash.fingerprint = entry.fingerprint
               /\ \E k \in 0..(capacity - 1) :
                    /\ Probe(capacity, hash, k) = b
                    /\ \A l \in 0..k : image.index[Probe(capacity, hash, l)].id # 0
  /\ \A id \in SourceIds(image) :
       Cardinality({b \in DOMAIN image.index : image.index[b].id = id}) = 1

EdgesOf(image, rows) ==
  {e \in SourceIds(image) \X (1..Len(rows.edges)) :
     e[2] > rows.offsets[e[1]] /\ e[2] <= rows.offsets[e[1] + 1]}

(* validate_dependency_symmetry: no include edge twice, and the reverse    *)
(* edges take each of them away once.                                      *)
ValidateSymmetry(image) ==
  LET forward == EdgesOf(image, image.forward)
      reverse == EdgesOf(image, image.reverse)
      pairs == {<<e[1], image.forward.edges[e[2]]>> : e \in forward}
      turned == {<<image.reverse.edges[e[2]], e[1]>> : e \in reverse}
  IN /\ image.header.forward = image.header.reverse
     /\ Cardinality(pairs) = Cardinality(forward)
     /\ Cardinality(turned) = Cardinality(reverse)
     /\ pairs = turned

IncludesInView(image) ==
  [id \in SourceIds(image) |-> ToSet(Dependencies(image, image.forward, id))]

(* validate_acyclic_from_roots                                             *)
ValidateAcyclic(image) ==
  LET includes == IncludesInView(image)
      reached(id) == {id} \cup Reached(SourceIds(image), includes, id)
  IN \A root \in ToSet(image.roots) : \A id \in reached(root) :
       id \notin Reached(SourceIds(image), includes, id)

(* open, validate_artifact and strict_validate                             *)
StrictValidate(image) ==
  /\ DecodeContainer(image)
  /\ ValidatePathsAndPhysical(image)
  /\ ValidateRows(image, image.forward) /\ ValidateRows(image, image.reverse)
  /\ ValidateRoots(image)
  /\ ValidatePathIndex(image)
  /\ ValidateSymmetry(image)
  /\ ValidateAcyclic(image)
-----------------------------------------------------------------------------
(* What the view says of the saved Source Manager: the same ids and paths  *)
(* in both directions, states, includes, dependents and roots; and nothing *)
(* about a path that has no Source.                                        *)
ViewExact(c, image) ==
  /\ image.header.sources = Len(c.sources)
  /\ ToSet(image.roots) = c.roots
  /\ \A id \in DOMAIN c.sources :
       /\ PathBytes(image, id) = Encoded[c.sources[id]]
       /\ FindInView(image, Encoded[c.sources[id]]) = id
       /\ ToSet(Dependencies(image, image.forward, id)) = c.includes[id]
       /\ ToSet(Dependencies(image, image.reverse, id)) = c.dependents[id]
       /\ PhysicalInView(image, id) =
            (IF c.physical[id].state.presence = "present"
             THEN c.physical[id].state ELSE Missing)
  /\ \A p \in Paths \ ToSet(c.sources) : FindInView(image, Encoded[p]) = NotAvailable

(* A checkpoint of what is published passes strict_validate, and     *)
(* read back it is what was published, although paths collide in the hash  *)
(* index (write_source_manager_checkpoint, stable_source_manager_view).    *)
CheckpointRoundTrip ==
  update.status = "closed" =>
    LET image == Image(committed) IN
    StrictValidate(image) /\ ViewExact(committed, image)

(* What a faulty writer would have sealed: an edge rewritten in both       *)
(* directions, two buckets swapped, half an index, or another number in    *)
(* one place.  Numbers go one past the ids.                                *)
Redirected(image, i, v, j, w) ==
  [image EXCEPT !.forward.edges[i] = v, !.reverse.edges[j] = w]

Swapped(image, a, b) ==
  [image EXCEPT !.index[a] = image.index[b], !.index[b] = image.index[a]]

Halved(image) ==
  LET half == image.header.capacity \div 2
  IN [image EXCEPT !.header.capacity = half,
                   !.index = [b \in 0..(half - 1) |-> image.index[b]]]

Altered(image) ==
  LET numbers == 0..(image.header.sources + 1)
      edges == DOMAIN image.forward.edges
      buckets == DOMAIN image.index
  IN {[image EXCEPT !.core[i].offset = v] : i \in DOMAIN image.core, v \in numbers}
       \cup {[image EXCEPT !.core[i].length = v] : i \in DOMAIN image.core, v \in numbers}
       \cup {Redirected(image, i, v, j, w) :
               i \in edges, v \in numbers, j \in edges, w \in numbers}
       \cup {[image EXCEPT !.forward.offsets[i] = v] :
               i \in DOMAIN image.forward.offsets, v \in numbers}
       \cup {[image EXCEPT !.reverse.offsets[i] = v] :
               i \in DOMAIN image.reverse.offsets, v \in numbers}
       \cup {[image EXCEPT !.roots[i] = v] : i \in DOMAIN image.roots, v \in numbers}
       \cup {[image EXCEPT !.index[b].id = v] : b \in buckets, v \in numbers}
       \cup {Swapped(image, a, b) : a \in buckets, b \in buckets}
       \cup {[image EXCEPT !.bytes[i] = v] :
               i \in DOMAIN image.bytes, v \in numbers \ {0}}
       \cup {Halved(image)}

(* What the rest of the Source Manager relies on: an id for every path and *)
(* a path for every id, dependents that are the reverse of the includes,   *)
(* and no cycle below a root.                                              *)
Consistent(image) ==
  /\ \A id \in SourceIds(image) : FindInView(image, PathBytes(image, id)) = id
  /\ \A p \in Paths :
       FindInView(image, Encoded[p]) \in SourceIds(image) \cup {NotAvailable}
  /\ \A parent, child \in SourceIds(image) :
       child \in ToSet(Dependencies(image, image.forward, parent))
         <=> parent \in ToSet(Dependencies(image, image.reverse, child))
  /\ LET reached(id) == Reached(SourceIds(image), IncludesInView(image), id) IN
     \A root \in ToSet(image.roots) : \A id \in reached(root) \cup {root} :
       id \notin reached(id)

(* strict_validate is complete: every altered image it accepts is still a  *)
(* consistent Source Manager, and a view of one it refuses answers each    *)
(* query with an id, not_available or artifact_corrupt.                    *)
ValidatedIsConsistent ==
  update.status = "closed" =>
    \A image \in Altered(Image(committed)) :
      /\ StrictValidate(image) => Consistent(image)
      /\ DecodeContainer(image) =>
           \A p \in Paths : FindInView(image, Encoded[p])
             \in SourceIds(image) \cup {NotAvailable, Corrupt}
=============================================================================
