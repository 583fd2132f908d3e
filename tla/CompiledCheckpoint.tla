------------------------- MODULE CompiledCheckpoint -------------------------
(***************************************************************************)
(* The contents of a compiled checkpoint (graph/compiled_persistence.cpp   *)
(* and import_compiled, export_compiled, rebuild_dependency_index of       *)
(* graph.cpp): what is written of the committed Graph, what a load checks  *)
(* and what it rebuilds.  The free list, the dependency indexes and the    *)
(* next stable_id are not in the file: a load derives them.  The file      *)
(* protocol is CheckpointFile, the strings that must come with it and the  *)
(* swap into the Graph Manager are GraphTransaction.                       *)
(*                                                                         *)
(* As in CanonicalGraph, the arenas of members and enumerators and the     *)
(* TypeRef table are folded into the member sets of the types, and the     *)
(* kind an Entity repeats from its type is left out.                       *)
(***************************************************************************)
EXTENDS CanonicalGraph

(* graph::export_compiled and write_graph_sections.  entities has as many  *)
(* slots as ids were ever given out, or more: an update that was cancelled *)
(* may have lengthened candidate_entities, and the next one lengthens      *)
(* entities to that.                                                       *)
ExportCompiled(g, size) ==
  [identities |-> g.identity,
   entities |-> [id \in 1..(size - 1) |-> g.entities[id]],
   types |-> [h \in 1..g.slots |-> g.types[h]]]

LiveSlots(c) == {h \in DOMAIN c.types : c.types[h].kind # "none"}
LiveEntities(c) == {id \in DOMAIN c.entities : c.entities[id].name # 0}

DefinedMembers(c, h) ==
  IF c.types[h].kind = "aggregate" /\ c.types[h].defined THEN c.types[h].members ELSE {}

(* decode_graph_sections: a dead record is all zeros.                      *)
DecodeAccepts(c) ==
  /\ \A id \in DOMAIN c.entities \ LiveEntities(c) : c.entities[id].type = 0
  /\ \A h \in DOMAIN c.types \ LiveSlots(c) : c.types[h] = NoType

(* The checks of import_compiled: an Entity has a live type, an id belongs *)
(* to one name and a live Entity to the name that has its id, a definition *)
(* has live member types.                                                  *)
ImportAccepts(c) ==
  /\ \A id \in LiveEntities(c) : c.entities[id].type \in LiveSlots(c)
  /\ \A n \in Names : c.identities[n] # 0 =>
       /\ c.identities[n] \in DOMAIN c.entities
       /\ \A m \in Names : c.identities[m] = c.identities[n] => m = n
       /\ c.entities[c.identities[n]].name \in {0, n}
  /\ \A h \in LiveSlots(c) : DefinedMembers(c, h) \subseteq LiveSlots(c)

(* Mutant: the next id is counted from the live Entities.                  *)
NextStableId_Live(c) == Cardinality(LiveEntities(c)) + 1

(* next_stable_id follows the last slot, live or not.                      *)
NextStableId(c) == Cardinality(DOMAIN c.entities) + 1

(* rebuild_dependency_index: what every type slot depends on, and by what  *)
(* it is depended on.                                                      *)
RebuildDependencyIndex(c) ==
  LET dependencies(h) == IF h \in LiveSlots(c) THEN DefinedMembers(c, h) ELSE {} IN
  [deps |-> [h \in Handles |-> dependencies(h)],
   dependents |-> [h \in Handles |-> {g \in LiveSlots(c) : h \in dependencies(g)}]]

(* import_compiled.  The contributions do not come with the file           *)
(* (graph_manager invalidates the cache).                                  *)
ImportCompiled(c) ==
  LET index == RebuildDependencyIndex(c) IN
  [EmptyGraph EXCEPT
     !.identity = c.identities,
     !.next = NextStableId(c),
     !.entities = [id \in Ids |-> IF id \in LiveEntities(c) THEN c.entities[id]
                                                            ELSE NoEntity],
     !.types = [h \in Handles |-> IF h \in LiveSlots(c) THEN c.types[h] ELSE NoType],
     !.slots = Len(c.types),
     !.free = DOMAIN c.types \ LiveSlots(c),
     !.deps = index.deps,
     !.dependents = index.dependents]

(* REPAIR_STATUS.md: "Canonical TypeRef indices are preserved exactly      *)
(* across checkpoint round-trip."  Every committed Graph, after any        *)
(* sequence of rebuilds, incremental and cancelled updates, can be loaded  *)
(* again, and the loaded Graph has the same names, ids, types and handles, *)
(* the same free slots and the same dependency indexes, and gives out no   *)
(* id that was ever given out.                                             *)
CompiledRoundTrip ==
  phase = "idle" =>
    \A size \in graph.next..(Cardinality(Names) + 1) :
      LET c == ExportCompiled(graph, size)
          loaded == ImportCompiled(c)
      IN
      /\ DecodeAccepts(c) /\ ImportAccepts(c)
      /\ loaded = [graph EXCEPT !.next = loaded.next,
                                !.named = EmptyGraph.named,
                                !.anonymous = EmptyGraph.anonymous,
                                !.counts = EmptyGraph.counts]
      /\ loaded.next >= graph.next
=============================================================================
