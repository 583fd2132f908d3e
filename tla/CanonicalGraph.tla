---------------------------- MODULE CanonicalGraph ----------------------------
(***************************************************************************)
(* The canonical Graph and its Source contributions (graph.cpp in          *)
(* project/graph, source_contribution_cache.cpp in project/builder), as    *)
(* they are changed by one graph_update at a time: the single-writer build *)
(* contract of graph_manager.hpp.                                          *)
(*                                                                         *)
(* A Source contributes facts: declarations and definitions of named       *)
(* aggregates and enums, and anonymous enums.  An update replaces the      *)
(* facts of some Sources; the Graph keeps, for every canonical name, one   *)
(* stable_id, and for every live name one Entity with one type_handle.     *)
(*                                                                         *)
(* The code keeps the candidate as generation-stamped slots that overlay   *)
(* the committed ones; `draft` is the overlaid value, and a rebuild (G0)   *)
(* starts from an empty one.  Abstractions:                                *)
(*  - a name is its rank in byte order, 0 for an anonymous type;           *)
(*  - the members of an aggregate are the named types they are made of:    *)
(*    builtin members and the modifiers of a derived TypeRef add no        *)
(*    dependency, and a named TypeRef stands one to one for its handle;    *)
(*  - the (scoped, fixed, underlying) properties of an enum are one        *)
(*    flavour.  add_delta keeps all live declarations of an enum in one    *)
(*    flavour, so its counters are a count for each flavour;               *)
(*  - free_type_slots is a set: which free slot is claimed is left open.   *)
(***************************************************************************)
EXTENDS Integers, Sequences, FiniteSets

CONSTANTS
  Sources,    \* source_id values
  Names,      \* canonical names, by rank
  Flavours,   \* enum properties
  Usages,     \* the facts that Sources may contain, with the build modes used
  MaxFacts,   \* bound: facts in one Source
  MaxHandles  \* bound: type slots

Fact == [kind : {"aggregate"}, name : Names, defined : BOOLEAN,
         members : SUBSET Names, flavour : {"none"}]
        \cup [kind : {"enum"}, name : Names, defined : BOOLEAN,
              members : {{}}, flavour : Flavours]
        \cup [kind : {"anonymous"}, name : {0}, defined : {TRUE},
              members : {{}}, flavour : Flavours]

ASSUME CanonicalGraphAssumption ==
  /\ Sources \subseteq Nat \ {0} /\ IsFiniteSet(Sources)
  /\ Names \subseteq Nat \ {0} /\ IsFiniteSet(Names)
  /\ "none" \notin Flavours
  /\ \A u \in Usages :
       u.facts \subseteq Fact /\ u.modes \subseteq {"rebuild", "incremental"}
  /\ MaxFacts \in Nat
  /\ MaxHandles \in Nat

VARIABLES
  usage,      \* one of Usages
  graph,      \* the committed Graph and contribution cache
  draft,      \* the candidate of the update in progress
  phase       \* of that update: "idle", "building", "prepared"

vars == <<usage, graph, draft, phase>>

Ids == 1..Cardinality(Names)
Handles == 1..MaxHandles

NoEntity == [name |-> 0, type |-> 0]
NoType == [kind |-> "none", defined |-> FALSE, pending |-> {},
           members |-> {}, flavour |-> "none"]

(* canonical_entity_construction_state: what the Sources say of an Entity. *)
(* A definition is the Source that holds it, 0 when there is none.         *)
NoCount == [decls |-> 0, definition |-> 0,
            enums |-> [f \in Flavours |-> 0], enumDefinition |-> 0]

Entity(id, d) == d.entities[id]
Live(h, d) == h \in Handles /\ d.types[h].kind # "none"

EmptyGraph ==
  [identity |-> [n \in Names |-> 0],          \* name -> stable_id
   next |-> 1,                                \* next_stable_id
   entities |-> [id \in Ids |-> NoEntity],
   types |-> [h \in Handles |-> NoType],
   slots |-> 0,                               \* types.size()
   free |-> {},                               \* free_type_slots
   deps |-> [h \in Handles |-> {}],           \* type_dependencies
   dependents |-> [h \in Handles |-> {}],     \* reverse_type_dependents
   named |-> [s \in Sources |-> <<>>],        \* contributions of a Source
   anonymous |-> [s \in Sources |-> {}],      \* its anonymous_types
   counts |-> [id \in Ids |-> NoCount]]       \* entity_states

NoDraft == [full |-> FALSE]

Init ==
  /\ usage \in Usages
  /\ graph = EmptyGraph
  /\ draft = NoDraft
  /\ phase = "idle"

-------------------------------------------------------------------------------
(* graph::begin_update.  An incremental update sees the committed Graph; a *)
(* rebuild keeps only the names, their ids and the free list.              *)
BeginUpdate(mode) ==
  LET from == IF mode = "rebuild" THEN EmptyGraph ELSE graph IN
  /\ phase = "idle"
  /\ phase' = "building"
  /\ draft' = [full |-> mode = "rebuild",
               identity |-> graph.identity,
               next |-> graph.next,
               entities |-> from.entities,
               types |-> from.types,
               slots |-> from.slots,
               named |-> from.named,
               anonymous |-> from.anonymous,
               counts |-> from.counts,
               touched |-> {},       \* changed_types
               claimed |-> {},       \* claimed_free_type_slots
               source |-> 0]         \* the Source being replaced
  /\ UNCHANGED graph

(* The contributions in `list` that are about `id` and satisfy a condition.*)
CountIn(list, id, kind, defined, flavours) ==
  Cardinality({i \in DOMAIN list :
    /\ list[i].id = id
    /\ list[i].fact.kind = kind
    /\ list[i].fact.defined \in defined
    /\ list[i].fact.flavour \in flavours})

(* Mutant: the definition's Source is not reset with its last declaration. *)
Removed_KeepsDefinition(count, list, id) ==
  [count EXCEPT
     !.decls = @ - CountIn(list, id, "aggregate", {FALSE}, {"none"}),
     !.enums = [f \in Flavours |->
                  @[f] - CountIn(list, id, "enum", BOOLEAN, {f})],
     !.enumDefinition = IF CountIn(list, id, "enum", {TRUE}, Flavours) > 0
                        THEN 0 ELSE @]

(* graph_update::remove_delta for every contribution in `list`.            *)
Removed(count, list, id) ==
  [decls |-> count.decls - CountIn(list, id, "aggregate", {FALSE}, {"none"}),
   definition |-> IF CountIn(list, id, "aggregate", {TRUE}, {"none"}) > 0
                  THEN 0 ELSE count.definition,
   enums |-> [f \in Flavours |->
                count.enums[f] - CountIn(list, id, "enum", BOOLEAN, {f})],
   enumDefinition |-> IF CountIn(list, id, "enum", {TRUE}, Flavours) > 0
                      THEN 0 ELSE count.enumDefinition]

(* graph_update::materialize for an Entity with live contributions: the    *)
(* type record is made anew, and only member facts published earlier in    *)
(* the same update are carried over.                                       *)
Materialized(count, pending) ==
  IF count.decls > 0 \/ count.definition # 0
  THEN [kind |-> "aggregate", defined |-> count.definition # 0,
        pending |-> pending, members |-> {}, flavour |-> "none"]
  ELSE [kind |-> "enum", defined |-> count.enumDefinition # 0,
        pending |-> {}, members |-> {},
        flavour |-> CHOOSE f \in Flavours : count.enums[f] > 0]

PendingOf(h) == IF h \in draft.touched THEN draft.types[h].pending ELSE {}

(* graph_update::replace_source: the Source's previous contributions are   *)
(* taken back, its anonymous types are removed.  Sources are published in  *)
(* the order of their ids.                                                 *)
ReplaceSource(s) ==
  LET old == draft.named[s]
      gone == {old[i].id : i \in DOMAIN old}
      counts == [id \in Ids |-> Removed(draft.counts[id], old, id)]
      dead == {id \in gone : counts[id] = NoCount}
      removed == {Entity(id, draft).type : id \in dead} \cup draft.anonymous[s]
      changed == {Entity(id, draft).type : id \in gone \ dead}
      owner(h) == CHOOSE id \in gone : Entity(id, draft).type = h
  IN
  /\ phase = "building"
  /\ s > draft.source
  /\ draft' = [draft EXCEPT
       !.source = s,
       !.counts = counts,
       !.entities = [id \in Ids |-> IF id \in dead THEN NoEntity ELSE @[id]],
       !.types = [h \in Handles |->
                    IF h \in removed THEN NoType
                    ELSE IF h \in changed
                    THEN Materialized(counts[owner(h)], PendingOf(h))
                    ELSE @[h]],
       !.touched = @ \cup removed \cup changed,
       !.named[s] = <<>>,
       !.anonymous[s] = {}]
  /\ UNCHANGED <<graph, phase>>

(* graph_update::add_delta refuses a second definition, an aggregate that  *)
(* is also an enum, and enum declarations that disagree.                   *)
Accepts(count, f) ==
  IF f.kind = "aggregate"
  THEN /\ \A g \in Flavours : count.enums[g] = 0
       /\ f.defined => count.definition = 0
  ELSE /\ count.decls = 0 /\ count.definition = 0
       /\ \A g \in Flavours : count.enums[g] > 0 => g = f.flavour
       /\ f.defined => count.enumDefinition = 0

Added(count, s, f) ==
  IF f.kind = "aggregate"
  THEN IF f.defined THEN [count EXCEPT !.definition = s]
                    ELSE [count EXCEPT !.decls = @ + 1]
  ELSE [count EXCEPT !.enums[f.flavour] = @ + 1,
                     !.enumDefinition = IF f.defined THEN s ELSE @]

(* The slots a new type may get: a free slot of the committed Graph if one *)
(* is left, else the next new one.                                         *)
FreeSlots == graph.free \ draft.claimed
NewSlot == {draft.slots + 1}
ClaimedSlot == IF FreeSlots # {} THEN FreeSlots ELSE NewSlot

(* project_builder publishes the enums of a Source before its aggregates.  *)
InBuilderOrder(s, f) ==
  /\ Len(draft.named[s]) + Cardinality(draft.anonymous[s]) < MaxFacts
  /\ f.kind # "aggregate" =>
       \A i \in DOMAIN draft.named[s] : draft.named[s][i].fact.kind = "enum"

(* An update that fails or is cancelled leaves the Graph as it was.        *)
Discard ==
  /\ phase' = "idle"
  /\ draft' = NoDraft
  /\ UNCHANGED graph

(* declare_named_type (with define_members) and declare_named_enum.        *)
Declare(f) ==
  LET s == draft.source
      known == draft.identity[f.name]
      id == IF known # 0 THEN known ELSE draft.next
      count == Added(draft.counts[id], s, f)
      retained == IF Entity(id, draft).type # 0 THEN Entity(id, draft).type
                  ELSE IF draft.full THEN 0 ELSE Entity(id, graph).type
      slots == IF retained # 0 THEN {retained}
               ELSE IF draft.full THEN NewSlot ELSE ClaimedSlot
  IN
  /\ phase = "building"
  /\ s # 0
  /\ f.kind # "anonymous"
  /\ InBuilderOrder(s, f)
  /\ \/ /\ ~Accepts(draft.counts[id], f)
        /\ Discard
     \/ /\ Accepts(draft.counts[id], f)
        /\ \E h \in slots \cap Handles :
             draft' = [draft EXCEPT
               !.identity[f.name] = id,
               !.next = IF known # 0 THEN @ ELSE @ + 1,
               !.counts[id] = count,
               !.named[s] = Append(@, [id |-> id, fact |-> f]),
               !.entities[id] = [name |-> f.name, type |-> h],
               !.types[h] = Materialized(count,
                              IF f.kind = "aggregate" /\ f.defined
                              THEN f.members ELSE PendingOf(h)),
               !.touched = @ \cup {h},
               !.claimed = @ \cup (slots \cap FreeSlots \cap {h}),
               !.slots = IF h > @ THEN h ELSE @]
        /\ UNCHANGED <<graph, phase>>

(* add_anonymous_enum.  It claims a free slot of the committed Graph in a  *)
(* rebuild too.                                                            *)
AddAnonymous(f) ==
  LET s == draft.source IN
  /\ phase = "building"
  /\ s # 0
  /\ f.kind = "anonymous"
  /\ InBuilderOrder(s, f)
  /\ \E h \in ClaimedSlot \cap Handles :
       draft' = [draft EXCEPT
         !.types[h] = [kind |-> "enum", defined |-> TRUE, pending |-> {},
                       members |-> {}, flavour |-> f.flavour],
         !.touched = @ \cup {h},
         !.claimed = @ \cup (FreeSlots \cap {h}),
         !.slots = IF FreeSlots = {} THEN h ELSE @,
         !.anonymous[s] = @ \cup {h}]
  /\ UNCHANGED <<graph, phase>>

-------------------------------------------------------------------------------
(* Mutant: ids stay in the order in which the Sources named them.          *)
Remap_Unsorted(id) == id

(* canonicalize_new_stable_ids: the ids handed out in this update are      *)
(* permuted into the byte order of their names.                            *)
Remap(id) ==
  IF id < graph.next THEN id
  ELSE graph.next + Cardinality({other \in graph.next..(draft.next - 1) :
         Entity(other, draft).name < Entity(id, draft).name})

Provisional(id) ==
  IF id \in graph.next..(draft.next - 1)
  THEN CHOOSE old \in graph.next..(draft.next - 1) : Remap(old) = id
  ELSE id

(* The contributions of a Source, by their canonical ids.                  *)
CanonicalNamed(s) ==
  [i \in DOMAIN draft.named[s] |-> [draft.named[s][i] EXCEPT !.id = Remap(@)]]

(* Mutant: the Entities are permuted but the names keep provisional ids.   *)
Canonicalized_IdentityKept ==
  [draft EXCEPT
    !.entities = [id \in Ids |-> @[Provisional(id)]],
    !.counts = [id \in Ids |-> @[Provisional(id)]],
    !.named = [s \in Sources |-> CanonicalNamed(s)]]

Canonicalized ==
  [draft EXCEPT
    !.identity = [n \in Names |-> IF @[n] = 0 THEN 0 ELSE Remap(@[n])],
    !.entities = [id \in Ids |-> @[Provisional(id)]],
    !.counts = [id \in Ids |-> @[Provisional(id)]],
    !.named = [s \in Sources |-> CanonicalNamed(s)]]

NameType(n, d) == IF d.identity[n] = 0 THEN 0 ELSE Entity(d.identity[n], d).type

(* resolve_pending_members: every type named by a member published in this *)
(* update must be live when all Sources are in.                            *)
Resolvable(d) ==
  \A h \in d.touched : \A n \in d.types[h].pending : NameType(n, d) # 0

Resolved(d) ==
  [d EXCEPT !.types = [h \in Handles |->
     IF h \in d.touched
     THEN [@[h] EXCEPT !.members = {NameType(n, d) : n \in d.types[h].pending},
                       !.pending = {}]
     ELSE @[h]]]

(* Mutant: only the types of this update are validated.                    *)
MembersLive_TouchedOnly(d) ==
  \A h \in d.touched : \A m \in d.types[h].members : Live(m, d)

(* validate_live_member_type_refs: the types this update touched, and the  *)
(* committed types that depend on one, have live member types.  (The code  *)
(* walks on to the dependents of those, whose members it did not touch.)   *)
MembersLive(d) ==
  LET suspects == d.touched \cup
        (IF d.full THEN {} ELSE UNION {graph.dependents[h] : h \in d.touched})
  IN  \A h \in suspects : \A m \in d.types[h].members : Live(m, d)

PreparePublish ==
  LET d == Canonicalized IN
  /\ phase = "building"
  /\ \/ /\ Resolvable(d) /\ MembersLive(Resolved(d))
        /\ draft' = Resolved(d)
        /\ phase' = "prepared"
        /\ UNCHANGED graph
     \/ /\ ~(Resolvable(d) /\ MembersLive(Resolved(d)))
        /\ Discard

(* prepare_dependency_index_updates and build_rebuild_dependency_index.    *)
DependenciesOf(h) ==
  IF draft.types[h].kind = "aggregate" /\ draft.types[h].defined
  THEN draft.types[h].members ELSE {}

(* Mutant: an edge that a type no longer has is not taken out.             *)
UpdatedDependents_Stale(h) ==
  graph.dependents[h] \cup {g \in draft.touched : h \in DependenciesOf(g)}

UpdatedDependents(h) ==
  {g \in graph.dependents[h] :
     g \notin draft.touched \/ h \notin graph.deps[g] \cup DependenciesOf(g)}
  \cup {g \in draft.touched : h \in DependenciesOf(g)}

(* publish_prepared, of the Graph and of the contribution cache.  A        *)
(* rebuild swaps in storage for the slots it allocated itself.             *)
PublishPrepared ==
  LET kept == {h \in Handles : draft.full => h <= draft.slots}
      types == [h \in Handles |-> IF h \in kept THEN draft.types[h] ELSE NoType]
      emptied == {h \in draft.touched : types[h] = NoType}
  IN
  /\ phase = "prepared"
  /\ graph' =
       [identity |-> draft.identity,
        next |-> draft.next,
        entities |-> draft.entities,
        types |-> types,
        slots |-> draft.slots,
        free |-> IF draft.full
                 THEN {h \in 1..draft.slots : types[h] = NoType}
                 ELSE (graph.free \ draft.claimed) \cup emptied,
        deps |-> [h \in Handles |->
                    IF draft.full \/ h \in draft.touched
                    THEN IF h \in kept THEN DependenciesOf(h) ELSE {}
                    ELSE graph.deps[h]],
        dependents |-> [h \in Handles |->
                    IF draft.full
                    THEN {g \in kept : h \in DependenciesOf(g)}
                    ELSE UpdatedDependents(h)],
        named |-> draft.named,
        anonymous |-> draft.anonymous,
        counts |-> draft.counts]
  /\ phase' = "idle"
  /\ draft' = NoDraft

(* graph_update::cancel: a failure of another layer, or of an allocation.  *)
Cancel == phase # "idle" /\ Discard

Step ==
  \/ \E mode \in usage.modes : BeginUpdate(mode)
  \/ \E s \in Sources : ReplaceSource(s)
  \/ \E f \in usage.facts : Declare(f)
  \/ \E f \in usage.facts : AddAnonymous(f)
  \/ PreparePublish
  \/ PublishPrepared
  \/ Cancel

Next == Step /\ UNCHANGED usage

Spec == Init /\ [][Next]_vars

-------------------------------------------------------------------------------
Count == [decls : Nat, definition : Sources \cup {0},
          enums : [Flavours -> Nat], enumDefinition : Sources \cup {0}]
EntityRecord == [name : Names \cup {0}, type : Handles \cup {0}]
TypeRecord == [kind : {"none", "aggregate", "enum"}, defined : BOOLEAN,
               pending : SUBSET Names, members : SUBSET Handles,
               flavour : Flavours \cup {"none"}]
Contribution == [id : Ids, fact : Fact]

(* The fields that the committed Graph and a candidate have in common.     *)
StateOK(d) ==
  /\ d.identity \in [Names -> Ids \cup {0}]
  /\ d.next \in 1..(Cardinality(Names) + 1)
  /\ d.entities \in [Ids -> EntityRecord]
  /\ d.types \in [Handles -> TypeRecord]
  /\ d.slots \in 0..MaxHandles
  /\ d.named \in [Sources -> Seq(Contribution)]
  /\ d.anonymous \in [Sources -> SUBSET Handles]
  /\ d.counts \in [Ids -> Count]

(* The variables have their types; no committed type has a member name     *)
(* that is still to be resolved (resolve_pending_members), and an update   *)
(* claims only slots that were free in the committed Graph.                *)
TypeOK ==
  /\ StateOK(graph)
  /\ \A h \in Handles : graph.types[h].pending = {}
  /\ graph.free \subseteq Handles
  /\ graph.deps \in [Handles -> SUBSET Handles]
  /\ graph.dependents \in [Handles -> SUBSET Handles]
  /\ phase \in {"idle", "building", "prepared"}
  /\ phase # "idle" =>
       /\ StateOK(draft)
       /\ draft.full \in BOOLEAN
       /\ draft.touched \subseteq Handles
       /\ draft.claimed \subseteq graph.free
       /\ draft.source \in Sources \cup {0}

(* A stable_id belongs to one name: ids are given once, densely, and an    *)
(* Entity is filed under the id of its own name (ARCHITECTURE_V2, G0 rule  *)
(* 7: "never reuse a historical stable_id for a different Entity").        *)
StableIdsUnique ==
  /\ \A m, n \in Names : graph.identity[m] = graph.identity[n]
                         /\ graph.identity[m] # 0 => m = n
  /\ {graph.identity[n] : n \in Names} \ {0} = 1..(graph.next - 1)
  /\ \A id \in Ids : Entity(id, graph) # NoEntity =>
       graph.identity[Entity(id, graph).name] = id

(* A name keeps its stable_id for ever, through incremental updates,       *)
(* rebuilds and the death of its Entity, and the names first seen in one   *)
(* update get ids in the order of their bytes, whatever the order in which *)
(* the Sources named them.                                                 *)
StableIdsPersist ==
  [][/\ \A n \in Names : graph.identity[n] # 0 =>
           graph'.identity[n] = graph.identity[n]
     /\ \A m, n \in Names :
           m < n /\ graph.identity[m] = 0 /\ graph'.identity[m] # 0
                 /\ graph.identity[n] = 0 /\ graph'.identity[n] # 0
           => graph'.identity[m] < graph'.identity[n]]_graph

(* The live types of the committed Graph: every live Entity has a live     *)
(* type of its own, every live type belongs to one Entity or to one        *)
(* Source's anonymous enums, and the free list is exactly the other slots, *)
(* so that no slot is lost and none is handed out while it is in use.      *)
SlotsPartitioned ==
  LET entityTypes == {Entity(id, graph).type : id \in Ids} \ {0}
      anonymousTypes == UNION {graph.anonymous[s] : s \in Sources}
  IN
  /\ \A i, j \in Ids : Entity(i, graph).type = Entity(j, graph).type
                       /\ Entity(i, graph).type # 0 => i = j
  /\ \A s, t \in Sources : s # t => graph.anonymous[s] \cap graph.anonymous[t] = {}
  /\ entityTypes \cap anonymousTypes = {}
  /\ {h \in Handles : Live(h, graph)} = entityTypes \cup anonymousTypes
  /\ graph.free = (1..graph.slots) \ (entityTypes \cup anonymousTypes)

(* What the contributions of all Sources say of an Entity.                 *)
Total(id, kind, defined, flavours) ==
  Cardinality({p \in Sources \X (1..MaxFacts) :
    /\ p[2] \in DOMAIN graph.named[p[1]]
    /\ CountIn(<<graph.named[p[1]][p[2]]>>, id, kind, defined, flavours) = 1})

Definers(id, kind) ==
  {s \in Sources : \E i \in DOMAIN graph.named[s] :
     graph.named[s][i].id = id /\ graph.named[s][i].fact.kind = kind
                               /\ graph.named[s][i].fact.defined}

(* The counters that incremental updates add to and subtract from are the  *)
(* ones a rebuild would count, and no definition is held twice.            *)
CountsExact ==
  \A id \in Ids :
    /\ graph.counts[id].decls = Total(id, "aggregate", {FALSE}, {"none"})
    /\ \A f \in Flavours :
         graph.counts[id].enums[f] = Total(id, "enum", BOOLEAN, {f})
    /\ {graph.counts[id].definition} \ {0} = Definers(id, "aggregate")
    /\ {graph.counts[id].enumDefinition} \ {0} = Definers(id, "enum")

(* Incremental updates and rebuilds agree: whatever led to it, the         *)
(* committed Graph has a live Entity for exactly the names that some       *)
(* committed Source contributes, of the kind, flavour and definedness that *)
(* the contributions give it.                                              *)
MeaningExact ==
  \A n \in Names :
    LET about == {p \in Sources \X (1..MaxFacts) :
                    /\ p[2] \in DOMAIN graph.named[p[1]]
                    /\ graph.named[p[1]][p[2]].fact.name = n}
        fact(p) == graph.named[p[1]][p[2]].fact
        h == NameType(n, graph)
    IN
    /\ h # 0 <=> about # {}
    /\ h # 0 =>
         /\ \A p \in about : /\ graph.types[h].kind = fact(p).kind
                             /\ graph.types[h].flavour = fact(p).flavour
                             /\ graph.named[p[1]][p[2]].id = graph.identity[n]
         /\ graph.types[h].defined <=> \E p \in about : fact(p).defined

(* The committed Graph is well formed and is what the contributions of its *)
(* Sources call for, counter by counter and name by name.                  *)
ContributionsExact == TypeOK /\ CountsExact /\ MeaningExact

(* No committed aggregate has a member of a removed type, even when the    *)
(* type was removed by a Source that does not mention the aggregate        *)
(* (validate_live_member_type_refs).                                       *)
NoDanglingMember ==
  \A h \in Handles : \A m \in graph.types[h].members : Live(m, graph)

(* The dependency indexes that validation relies on are exactly the edges  *)
(* of the committed member tables, in both directions.                     *)
DependencyIndexExact ==
  \A h \in Handles :
    /\ graph.deps[h] = graph.types[h].members
    /\ graph.dependents[h] = {g \in Handles : h \in graph.types[g].members}

(* The member types a definition in a committed Source asks for.           *)
MembersOf(n) ==
  UNION {{NameType(m, graph) : m \in graph.named[p[1]][p[2]].fact.members} :
           p \in {q \in Sources \X (1..MaxFacts) :
                    /\ q[2] \in DOMAIN graph.named[q[1]]
                    /\ graph.named[q[1]][q[2]].fact.name = n}}

(* A member never comes to name another type than its definition does,     *)
(* though slots are removed, reused and renumbered around it.              *)
MembersNeverStray ==
  \A n \in Names : NameType(n, graph) # 0 =>
    graph.types[NameType(n, graph)].members \subseteq MembersOf(n)

(* "for the same complete Project Sources, Rebuild/G0 and the equivalent   *)
(* sequence of valid incremental changes must represent the same canonical *)
(* program": the members of every aggregate are those of its definition.   *)
DefinitionsFaithful ==
  \A n \in Names : NameType(n, graph) # 0 =>
    graph.types[NameType(n, graph)].members = MembersOf(n)

(* "allocate a fresh generation-local type_handle namespace beginning at   *)
(* 1": every anonymous enum of a committed Source has a slot of the        *)
(* current namespace that holds it.                                        *)
AnonymousTypesLive ==
  \A s \in Sources : \A h \in graph.anonymous[s] :
    h <= graph.slots /\ graph.types[h].kind = "enum"

(* The type table has no loose ends: a slot has exactly one owner or is    *)
(* free, those of anonymous enums too, and a member of an aggregate is a   *)
(* live type, and one that the definition names.                           *)
TablesSound ==
  SlotsPartitioned /\ AnonymousTypesLive /\ NoDanglingMember /\ MembersNeverStray

===============================================================================
