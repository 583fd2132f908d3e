------------------------- MODULE CanonicalGraphProofs -------------------------
(***************************************************************************)
(* Proofs about the canonical Graph and its compiled checkpoint, for any   *)
(* Sources, names and contributions, and any sequence of rebuilds and of   *)
(* incremental, failed and cancelled updates.                              *)
(*                                                                         *)
(* BaseInv is about names, contributions and counters, and holds whatever  *)
(* Sources contain.  A counter is the number of places of the              *)
(* contributions it counts (Places), so that what remove_delta takes off   *)
(* is what add_delta put on, and an Entity is dead just when nobody        *)
(* contributes its name any more.  The new ids are the ranks of the new    *)
(* names (Ranking), and there is an id left for each name (FreshId).       *)
(*                                                                         *)
(* TablesInv is about the type table: a slot has one owner or is empty     *)
(* (Partitioned), members are live types that a definition names (Linked). *)
(* An update keeps it because a slot it claims was nobody's, and whatever  *)
(* it does not touch is as committed (Overlay), so that the committed      *)
(* dependency index finds everyone who depends on what it does touch.  A   *)
(* rebuild that meets an anonymous enum breaks it                          *)
(* (CanonicalGraphRebuildSlots.cfg shows how): the theorems about types    *)
(* assume that rebuilds are only asked of Sources without any              *)
(* (NamedRebuilds).                                                        *)
(***************************************************************************)
EXTENDS CompiledCheckpoint, FiniteSetTheorems, SequenceTheorems, TLAPS

(* The fields of the committed Graph and of a candidate.                   *)
GraphFields ==
  {"identity", "next", "entities", "types", "slots", "free", "deps",
   "dependents", "named", "anonymous", "counts"}
DraftFields ==
  {"full", "identity", "next", "entities", "types", "slots", "named",
   "anonymous", "counts", "touched", "claimed", "source"}

(* An update is open.                                                      *)
Open == phase # "idle"

(* Ids are given densely and one to a name, and an Entity is filed under   *)
(* the id of its name.                                                     *)
Identities(d) ==
  /\ \A m, n \in Names : d.identity[m] = d.identity[n] /\ d.identity[m] # 0 => m = n
  /\ \A n \in Names : d.identity[n] < d.next
  /\ \A id \in 1..(d.next - 1) : \E n \in Names : d.identity[n] = id
  /\ \A id \in Ids : d.entities[id] # NoEntity =>
       /\ d.entities[id].name \in Names /\ d.entities[id].type # 0
       /\ d.identity[d.entities[id].name] = id

(* What contribution c says, as CountIn counts it.                         *)
Says(c, id, kind, defined, flavours) ==
  /\ c.id = id
  /\ c.fact.kind = kind
  /\ c.fact.defined \in defined
  /\ c.fact.flavour \in flavours

(* The places of the contributions that say so.                            *)
Places(named, id, kind, defined, flavours) ==
  {p \in Sources \X (1..MaxFacts) :
     /\ p[2] \in DOMAIN named[p[1]]
     /\ Says(named[p[1]][p[2]], id, kind, defined, flavours)}

(* The Sources that hold a definition about id.                            *)
DefinersIn(named, id, kind) ==
  {s \in Sources : \E i \in DOMAIN named[s] :
     named[s][i].id = id /\ named[s][i].fact.kind = kind
                         /\ named[s][i].fact.defined}

(* A contribution is filed under the id of its name, and those of one name *)
(* are of one kind and flavour.                                            *)
Contributed(d) ==
  /\ \A s \in Sources : Len(d.named[s]) <= MaxFacts
  /\ \A s \in Sources : \A i \in DOMAIN d.named[s] :
       /\ d.named[s][i].fact.kind # "anonymous"
       /\ d.identity[d.named[s][i].fact.name] = d.named[s][i].id
  /\ \A s, t \in Sources : \A i \in DOMAIN d.named[s], j \in DOMAIN d.named[t] :
       d.named[s][i].id = d.named[t][j].id =>
         /\ d.named[s][i].fact.kind = d.named[t][j].fact.kind
         /\ d.named[s][i].fact.flavour = d.named[t][j].fact.flavour

(* A counter counts the contributions about id.                            *)
CountedBy(named, count, id) ==
  /\ count.decls = Cardinality(Places(named, id, "aggregate", {FALSE}, {"none"}))
  /\ \A f \in Flavours :
       count.enums[f] = Cardinality(Places(named, id, "enum", BOOLEAN, {f}))
  /\ {count.definition} \ {0} = DefinersIn(named, id, "aggregate")
  /\ {count.enumDefinition} \ {0} = DefinersIn(named, id, "enum")

(* An Entity is there as long as it has a contribution.                    *)
Counted(d) ==
  \A id \in Ids :
    /\ CountedBy(d.named, d.counts[id], id)
    /\ d.entities[id] = NoEntity <=> d.counts[id] = NoCount

(* Names, contributions and counters agree.                                *)
Sound(d) == Identities(d) /\ Contributed(d) /\ Counted(d)

(* The ids that an open update has given out.                              *)
NewIds == graph.next..(draft.next - 1)

(* The committed Graph.                                                    *)
GraphOK ==
  /\ DOMAIN graph = GraphFields
  /\ StateOK(graph) /\ Sound(graph)
  /\ \A h \in Handles : graph.types[h].pending = {}
  /\ graph.free \subseteq Handles
  /\ graph.deps \in [Handles -> SUBSET Handles]
  /\ graph.dependents \in [Handles -> SUBSET Handles]

(* An open update d in phase ph adds names and keeps the ids of those that *)
(* there are; a Source it has not come to yet is as it was; and only types *)
(* it touches have members that wait to be resolved.                       *)
DraftOK(d, ph) ==
  /\ DOMAIN d = DraftFields
  /\ d.full \in BOOLEAN /\ (d.full => "rebuild" \in usage.modes)
  /\ StateOK(d) /\ Sound(d)
  /\ d.touched \subseteq Handles /\ d.claimed \subseteq graph.free
  /\ d.source \in Sources \cup {0}
  /\ graph.next <= d.next
  /\ \A n \in Names : graph.identity[n] # 0 => d.identity[n] = graph.identity[n]
  /\ \A id \in graph.next..(d.next - 1) : d.entities[id] # NoEntity
  /\ ph = "building" => \A s \in Sources : s > d.source =>
       d.named[s] = IF d.full THEN <<>> ELSE graph.named[s]
  /\ ph = "prepared" => \A m, n \in Names :
       /\ m < n
       /\ graph.identity[m] = 0 /\ d.identity[m] # 0
       /\ graph.identity[n] = 0 /\ d.identity[n] # 0
       => d.identity[m] < d.identity[n]
  /\ \A h \in Handles : h \notin d.touched \/ ph = "prepared" => d.types[h].pending = {}

(* What holds whatever Sources contain: of names, contributions, counters. *)
BaseInv ==
  /\ usage \in Usages /\ phase \in {"idle", "building", "prepared"}
  /\ GraphOK
  /\ Open => DraftOK(draft, phase)

-------------------------------------------------------------------------------
(* The slots of Entities and of anonymous enums.                           *)
EntityTypes(d) == {d.entities[id].type : id \in Ids} \ {0}
AnonymousTypes(d) == UNION {d.anonymous[s] : s \in Sources}
Owned(d) == EntityTypes(d) \cup AnonymousTypes(d)

(* A type record is the one that materialize makes, but for its members.   *)
SameShape(t, u) == t.kind = u.kind /\ t.defined = u.defined /\ t.flavour = u.flavour

(* A slot has one owner and says what the owner's counters say, or it has  *)
(* none and is empty.                                                      *)
Partitioned(d) ==
  /\ \A i, j \in Ids : d.entities[i].type = d.entities[j].type
                       /\ d.entities[i].type # 0 => i = j
  /\ \A s, t \in Sources : s # t => d.anonymous[s] \cap d.anonymous[t] = {}
  /\ EntityTypes(d) \cap AnonymousTypes(d) = {}
  /\ \A h \in Owned(d) : h <= d.slots /\ d.types[h].kind # "none"
  /\ \A h \in Handles \ Owned(d) : d.types[h] = NoType
  /\ \A h \in AnonymousTypes(d) : d.types[h].kind = "enum"
  /\ \A id \in Ids : d.entities[id].type # 0 =>
       SameShape(d.types[d.entities[id].type], Materialized(d.counts[id], {}))
  /\ \A h \in Handles : d.types[h].members # {} \/ d.types[h].pending # {} =>
       d.types[h].kind = "aggregate" /\ d.types[h].defined

(* Members are live, and those that a contribution of their name asks for. *)
Linked(d) ==
  \A h \in Handles : \A m \in d.types[h].members :
    /\ Live(m, d)
    /\ \A id \in Ids : d.entities[id].type = h =>
         \E s \in Sources : \E i \in DOMAIN d.named[s] :
           /\ d.named[s][i].id = id
           /\ \E n \in d.named[s][i].fact.members : NameType(n, d) = m

(* The type table and the dependency indexes of the committed Graph.       *)
CommittedInv ==
  /\ Partitioned(graph)
  /\ Linked(graph)
  /\ graph.free = (1..graph.slots) \ Owned(graph)
  /\ DependencyIndexExact
  /\ "rebuild" \in usage.modes => AnonymousTypes(graph) = {}

(* An incremental update takes a slot that nobody has, or that of the same *)
(* owner; a type it does not touch is as it was, and so are the            *)
(* contributions to it.                                                    *)
Overlay(d) ==
  /\ graph.slots <= d.slots
  /\ \A h \in Handles \ d.touched : d.types[h] = graph.types[h]
  /\ \A id \in Ids :
       IF graph.entities[id].type = 0 THEN d.entities[id].type \notin Owned(graph)
       ELSE d.entities[id].type \in {0, graph.entities[id].type}
  /\ \A s \in Sources : \A h \in d.anonymous[s] :
       h \in graph.anonymous[s] \/ h \notin Owned(graph)
  /\ d.touched \cap (graph.free \ d.claimed) = {}
  /\ d.claimed \subseteq d.touched
  /\ (graph.slots + 1)..d.slots \subseteq d.touched
  /\ \A s \in Sources : s = d.source \/ d.named[s] # graph.named[s] =>
       \A i \in DOMAIN graph.named[s] :
         graph.entities[graph.named[s][i].id].type \in d.touched

(* A rebuild has only the types that it made.                              *)
Rebuilt(d) ==
  /\ \A h \in Handles \ d.touched : d.types[h] = NoType
  /\ AnonymousTypes(d) = {}

(* Members that wait to be resolved are those of a definition published in *)
(* this update.                                                            *)
PendingFrom(d, id) ==
  LET h == d.entities[id].type
      s == d.counts[id].definition
  IN
  h # 0 /\ d.types[h].pending # {} =>
    /\ s \in Sources /\ s <= d.source
    /\ \E i \in DOMAIN d.named[s] :
         /\ d.named[s][i].id = id
         /\ d.types[h].pending \subseteq d.named[s][i].fact.members

(* The type table of an open update d in phase ph.                         *)
UpdateOK(d, ph) ==
  /\ Partitioned(d)
  /\ d.touched \subseteq 1..d.slots
  /\ d.full => Rebuilt(d)
  /\ ~d.full => Overlay(d)
  /\ "rebuild" \in usage.modes => AnonymousTypes(d) = {}
  /\ ph = "building" =>
       /\ \A h \in d.touched : d.types[h].members = {}
       /\ \A id \in Ids : PendingFrom(d, id)
  /\ ph = "prepared" => Linked(d)

(* What holds of the type tables.                                          *)
TablesInv == CommittedInv /\ (Open => UpdateOK(draft, phase))

(* A rebuild is only asked of Sources without anonymous enums.             *)
NamedRebuilds ==
  \A u \in Usages : "rebuild" \in u.modes => \A f \in u.facts : f.kind # "anonymous"

-------------------------------------------------------------------------------
(* The contributions of all Sources.                                       *)
Nameds == [Sources -> Seq(Contribution)]

(* What the assumption says of ids, Sources and names.                     *)
LEMMA ConstantFacts ==
  /\ Cardinality(Names) \in Nat
  /\ \A id \in Ids : id \in Nat \ {0}
  /\ \A s \in Sources : s \in Nat \ {0}
  /\ MaxFacts \in Nat /\ MaxHandles \in Nat
  /\ \A n \in Names : n \in Nat \ {0}
  /\ Names \subseteq Nat \ {0}
<1>1. Cardinality(Names) \in Nat
  BY CanonicalGraphAssumption, FS_CardinalityType
<1>2. QED
  BY <1>1, CanonicalGraphAssumption DEF Ids

(* The places of contributions are finitely many.                          *)
LEMMA PlacesFinite ==
  ASSUME NEW named, NEW id, NEW kind, NEW defined, NEW flavours
  PROVE  /\ IsFiniteSet(Places(named, id, kind, defined, flavours))
         /\ Cardinality(Places(named, id, kind, defined, flavours)) \in Nat
<1> DEFINE P == Places(named, id, kind, defined, flavours)
<1>1. IsFiniteSet(1..MaxFacts)
  BY ConstantFacts, FS_Interval
<1>2. IsFiniteSet(Sources \X (1..MaxFacts))
  BY <1>1, CanonicalGraphAssumption, FS_Product
<1>3. P \in SUBSET (Sources \X (1..MaxFacts))
  BY DEF Places
<1> HIDE DEF P
<1>4. IsFiniteSet(P)
  BY <1>2, <1>3, FS_Subset
<1>5. QED
  BY <1>4, FS_CardinalityType DEF P

(* A contribution in a list of its own is counted once or not at all.      *)
LEMMA CountOne ==
  ASSUME NEW c, NEW id, NEW kind, NEW defined, NEW flavours
  PROVE  CountIn(<<c>>, id, kind, defined, flavours) = 1
           <=> Says(c, id, kind, defined, flavours)
<1> DEFINE S == {i \in DOMAIN <<c>> :
                   /\ <<c>>[i].id = id
                   /\ <<c>>[i].fact.kind = kind
                   /\ <<c>>[i].fact.defined \in defined
                   /\ <<c>>[i].fact.flavour \in flavours}
<1>1. DOMAIN <<c>> = {1} /\ <<c>>[1] = c
  OBVIOUS
<1>2. S = IF Says(c, id, kind, defined, flavours) THEN {1} ELSE {}
  BY <1>1 DEF Says
<1>3. Cardinality({1}) = 1 /\ Cardinality({}) = 0
  BY FS_Singleton, FS_EmptySet
<1>4. CountIn(<<c>>, id, kind, defined, flavours) = Cardinality(S)
  BY DEF CountIn
<1> HIDE DEF S
<1>5. QED
  BY <1>2, <1>3, <1>4

(* Total counts the places of the committed contributions.                 *)
LEMMA TotalIsPlaces ==
  ASSUME NEW id, NEW kind, NEW defined, NEW flavours
  PROVE  Total(id, kind, defined, flavours)
           = Cardinality(Places(graph.named, id, kind, defined, flavours))
BY CountOne DEF Total, Places

(* The places of one Source are as many as its list counts.                *)
LEMMA CountIsPlaces ==
  ASSUME NEW named \in Nameds, NEW s \in Sources, Len(named[s]) <= MaxFacts,
         NEW id, NEW kind, NEW defined, NEW flavours
  PROVE  LET P == {p \in Places(named, id, kind, defined, flavours) : p[1] = s}
         IN  /\ CountIn(named[s], id, kind, defined, flavours) = Cardinality(P)
             /\ IsFiniteSet(P) /\ Cardinality(P) \in Nat
<1> DEFINE P == {p \in Places(named, id, kind, defined, flavours) : p[1] = s}
           S == {i \in DOMAIN named[s] : Says(named[s][i], id, kind, defined, flavours)}
           f == [i \in S |-> <<s, i>>]
<1>1. CountIn(named[s], id, kind, defined, flavours) = Cardinality(S)
  BY DEF CountIn, Says
<1>2. DOMAIN named[s] \subseteq 1..MaxFacts
  <2>1. named[s] \in Seq(Contribution)
    BY DEF Nameds
  <2>2. DOMAIN named[s] = 1..Len(named[s]) /\ Len(named[s]) \in Nat
    BY <2>1, LenProperties
  <2>3. QED
    BY <2>2, ConstantFacts
<1>3. IsFiniteSet(S)
  <2>1. IsFiniteSet(1..MaxFacts)
    BY ConstantFacts, FS_Interval
  <2>2. S \in SUBSET (1..MaxFacts)
    BY <1>2
  <2>3. QED
    BY <2>1, <2>2, FS_Subset
<1>4. f \in Bijection(S, P)
  <2>1. f \in [S -> P]
    BY <1>2 DEF Places
  <2>2. \A i, j \in S : f[i] = f[j] => i = j
    OBVIOUS
  <2>3. \A p \in P : \E i \in S : f[i] = p
    <3> TAKE p \in P
    <3>1. p \in Sources \X (1..MaxFacts) /\ p[1] = s /\ p[2] \in S
      BY DEF Places
    <3>2. p = <<p[1], p[2]>>
      BY <3>1
    <3>3. f[p[2]] = p
      BY <3>1, <3>2
    <3>4. QED
      BY <3>1, <3>3
  <2> HIDE DEF f, S, P
  <2>4. f \in Injection(S, P)
    BY <2>1, <2>2 DEF Injection, IsInjective
  <2>5. f \in Surjection(S, P)
    BY <2>1, <2>3 DEF Surjection
  <2>6. QED
    BY <2>4, <2>5 DEF Bijection
<1> HIDE DEF f, S
<1>5. ExistsBijection(S, P)
  BY <1>4 DEF ExistsBijection
<1>6. IsFiniteSet(P) /\ Cardinality(P) = Cardinality(S)
  BY <1>3, <1>5, FS_Bijection
<1>7. Cardinality(P) \in Nat
  BY <1>6, FS_CardinalityType
<1>8. QED
  BY <1>1, <1>6, <1>7

(* Taking a Source's contributions out takes off what its list counts.     *)
LEMMA PlacesEmptied ==
  ASSUME NEW named \in Nameds, NEW s \in Sources, Len(named[s]) <= MaxFacts,
         NEW id, NEW kind, NEW defined, NEW flavours
  PROVE  Cardinality(Places([named EXCEPT ![s] = <<>>], id, kind, defined, flavours))
           = Cardinality(Places(named, id, kind, defined, flavours))
             - CountIn(named[s], id, kind, defined, flavours)
<1> DEFINE P == Places(named, id, kind, defined, flavours)
           Q == {p \in P : p[1] = s}
           after == Places([named EXCEPT ![s] = <<>>], id, kind, defined, flavours)
<1>1. after = P \ Q
  <2>1. DOMAIN named = Sources
    BY DEF Nameds
  <2>2. [named EXCEPT ![s] = <<>>][s] = <<>> /\ DOMAIN <<>> = {}
    BY <2>1
  <2>3. \A t \in Sources : t # s => [named EXCEPT ![s] = <<>>][t] = named[t]
    BY <2>1
  <2>4. QED
    BY <2>2, <2>3 DEF Places
<1>2. CountIn(named[s], id, kind, defined, flavours) = Cardinality(Q)
  BY CountIsPlaces
<1>3. IsFiniteSet(P) /\ P \cap Q = Q
  BY PlacesFinite
<1> HIDE DEF P, Q, after
<1>4. Cardinality(P \ Q) = Cardinality(P) - Cardinality(P \cap Q)
  BY <1>3, FS_Difference
<1>5. QED
  BY <1>1, <1>2, <1>3, <1>4 DEF P, after

(* Nothing is counted when no contribution says so.                        *)
LEMMA PlacesNone ==
  ASSUME NEW named, NEW id, NEW kind, NEW defined, NEW flavours
  PROVE  Cardinality(Places(named, id, kind, defined, flavours)) = 0
           <=> Places(named, id, kind, defined, flavours) = {}
BY PlacesFinite, FS_EmptySet

(* What a fact is, by its kind.                                            *)
LEMMA FactFacts ==
  ASSUME NEW f \in Fact
  PROVE  /\ f.kind \in {"aggregate", "enum", "anonymous"}
         /\ f.defined \in BOOLEAN
         /\ f.members \subseteq Names
         /\ f.kind = "aggregate" => f.flavour = "none" /\ f.name \in Names
         /\ f.kind = "enum" => f.flavour \in Flavours /\ f.name \in Names /\ f.members = {}
         /\ f.kind = "anonymous" => f.flavour \in Flavours
BY DEF Fact

(* The elements of a Source's list of contributions.                       *)
LEMMA NamedFacts ==
  ASSUME NEW named \in Nameds, NEW s \in Sources
  PROVE  /\ named[s] \in Seq(Contribution)
         /\ DOMAIN named = Sources
         /\ DOMAIN named[s] = 1..Len(named[s]) /\ Len(named[s]) \in Nat
         /\ \A i \in DOMAIN named[s] :
              /\ named[s][i] \in Contribution
              /\ named[s][i].id \in Ids /\ named[s][i].fact \in Fact
<1>1. named[s] \in Seq(Contribution) /\ DOMAIN named = Sources
  BY DEF Nameds
<1>2. DOMAIN named[s] = 1..Len(named[s]) /\ Len(named[s]) \in Nat
  BY <1>1, LenProperties
<1>3. \A i \in DOMAIN named[s] : named[s][i] \in Contribution
  BY <1>1, <1>2, ElementOfSeq
<1>4. QED
  BY <1>1, <1>2, <1>3 DEF Contribution

(* A Source is counted for a definition exactly when it holds one.         *)
LEMMA CountPositive ==
  ASSUME NEW named \in Nameds, NEW s \in Sources, Len(named[s]) <= MaxFacts,
         NEW id, NEW kind, NEW defined, NEW flavours
  PROVE  /\ CountIn(named[s], id, kind, defined, flavours) \in Nat
         /\ CountIn(named[s], id, kind, defined, flavours) > 0
              <=> \E i \in DOMAIN named[s] : Says(named[s][i], id, kind, defined, flavours)
<1> DEFINE Q == {p \in Places(named, id, kind, defined, flavours) : p[1] = s}
<1>1. /\ CountIn(named[s], id, kind, defined, flavours) = Cardinality(Q)
      /\ IsFiniteSet(Q) /\ Cardinality(Q) \in Nat
  BY CountIsPlaces
<1>2. Q # {} <=> \E i \in DOMAIN named[s] : Says(named[s][i], id, kind, defined, flavours)
  <2>1. ASSUME NEW i \in DOMAIN named[s], Says(named[s][i], id, kind, defined, flavours)
        PROVE  <<s, i>> \in Q
    <3>1. i \in 1..MaxFacts
      BY NamedFacts, ConstantFacts
    <3>2. QED
      BY <2>1, <3>1 DEF Places
  <2>2. QED
    BY <2>1 DEF Places
<1> HIDE DEF Q
<1>3. Cardinality(Q) = 0 <=> Q = {}
  BY <1>1, FS_EmptySet
<1>4. QED
  BY <1>1, <1>2, <1>3

(* A Source that a condition does not reach is counted as nothing.         *)
LEMMA CountUnmentioned ==
  ASSUME NEW named \in Nameds, NEW s \in Sources, Len(named[s]) <= MaxFacts,
         NEW id, \A i \in DOMAIN named[s] : named[s][i].id # id,
         NEW kind, NEW defined, NEW flavours
  PROVE  CountIn(named[s], id, kind, defined, flavours) = 0
<1>1. \A i \in DOMAIN named[s] : ~Says(named[s][i], id, kind, defined, flavours)
  BY DEF Says
<1>2. /\ CountIn(named[s], id, kind, defined, flavours) \in Nat
      /\ CountIn(named[s], id, kind, defined, flavours) > 0
           <=> \E i \in DOMAIN named[s] : Says(named[s][i], id, kind, defined, flavours)
  BY CountPositive
<1>3. QED
  BY <1>1, <1>2

(* Who holds a definition.                                                 *)
LEMMA DefinerSays ==
  ASSUME NEW named \in Nameds, NEW s \in Sources, NEW id, NEW i \in DOMAIN named[s]
  PROVE  /\ Says(named[s][i], id, "aggregate", {TRUE}, {"none"})
              <=> named[s][i].id = id /\ named[s][i].fact.kind = "aggregate"
                                      /\ named[s][i].fact.defined
         /\ Says(named[s][i], id, "enum", {TRUE}, Flavours)
              <=> named[s][i].id = id /\ named[s][i].fact.kind = "enum"
                                      /\ named[s][i].fact.defined
BY NamedFacts, FactFacts DEF Says

(* remove_delta counts what is left when a Source's contributions go.      *)
LEMMA RemovedCounts ==
  ASSUME NEW named \in Nameds, NEW s \in Sources, Len(named[s]) <= MaxFacts,
         NEW id \in Ids, NEW count \in Count, CountedBy(named, count, id)
  PROVE  /\ CountedBy([named EXCEPT ![s] = <<>>], Removed(count, named[s], id), id)
         /\ Removed(count, named[s], id) \in Count
<1> DEFINE after == [named EXCEPT ![s] = <<>>]
           rest == Removed(count, named[s], id)
<1>1. rest.decls = Cardinality(Places(after, id, "aggregate", {FALSE}, {"none"}))
  BY PlacesEmptied DEF CountedBy, Removed
<1>2. ASSUME NEW f \in Flavours
      PROVE  rest.enums[f] = Cardinality(Places(after, id, "enum", BOOLEAN, {f}))
  <2>1. rest.enums[f] = count.enums[f] - CountIn(named[s], id, "enum", BOOLEAN, {f})
    BY DEF Removed
  <2>2. count.enums[f] = Cardinality(Places(named, id, "enum", BOOLEAN, {f}))
    BY DEF CountedBy
  <2>3. Cardinality(Places(after, id, "enum", BOOLEAN, {f}))
          = Cardinality(Places(named, id, "enum", BOOLEAN, {f}))
            - CountIn(named[s], id, "enum", BOOLEAN, {f})
    BY PlacesEmptied
  <2>4. QED
    BY <2>1, <2>2, <2>3
<1>3. after[s] = <<>> /\ \A t \in Sources : t # s => after[t] = named[t]
  BY NamedFacts
<1>4. ASSUME NEW kind
      PROVE  DefinersIn(after, id, kind) = DefinersIn(named, id, kind) \ {s}
  BY <1>3 DEF DefinersIn
<1>5. s # 0
  BY ConstantFacts
<1>6. {rest.definition} \ {0} = DefinersIn(after, id, "aggregate")
  <2>1. CountIn(named[s], id, "aggregate", {TRUE}, {"none"}) > 0
          <=> s \in DefinersIn(named, id, "aggregate")
    <3>1. CountIn(named[s], id, "aggregate", {TRUE}, {"none"}) > 0
            <=> \E i \in DOMAIN named[s] : Says(named[s][i], id, "aggregate", {TRUE}, {"none"})
      BY CountPositive
    <3>2. QED
      BY <3>1, DefinerSays DEF DefinersIn
  <2>2. rest.definition = IF s \in DefinersIn(named, id, "aggregate") THEN 0 ELSE count.definition
    BY <2>1 DEF Removed
  <2>3. {count.definition} \ {0} = DefinersIn(named, id, "aggregate")
    BY DEF CountedBy
  <2> HIDE DEF after, rest
  <2>4. QED
    BY <2>2, <2>3, <1>4, <1>5
<1>7. {rest.enumDefinition} \ {0} = DefinersIn(after, id, "enum")
  <2>1. CountIn(named[s], id, "enum", {TRUE}, Flavours) > 0
          <=> s \in DefinersIn(named, id, "enum")
    <3>1. CountIn(named[s], id, "enum", {TRUE}, Flavours) > 0
            <=> \E i \in DOMAIN named[s] : Says(named[s][i], id, "enum", {TRUE}, Flavours)
      BY CountPositive
    <3>2. QED
      BY <3>1, DefinerSays DEF DefinersIn
  <2>2. rest.enumDefinition = IF s \in DefinersIn(named, id, "enum") THEN 0 ELSE count.enumDefinition
    BY <2>1 DEF Removed
  <2>3. {count.enumDefinition} \ {0} = DefinersIn(named, id, "enum")
    BY DEF CountedBy
  <2> HIDE DEF after, rest
  <2>4. QED
    BY <2>2, <2>3, <1>4, <1>5
<1>8. rest \in Count
  <2>1. rest.decls \in Nat /\ \A f \in Flavours : rest.enums[f] \in Nat
    <3> HIDE DEF after, rest
    <3>1. rest.decls \in Nat
      BY <1>1, PlacesFinite
    <3>2. ASSUME NEW f \in Flavours
          PROVE  rest.enums[f] \in Nat
      <4>1. Cardinality(Places(after, id, "enum", BOOLEAN, {f})) \in Nat
        BY PlacesFinite
      <4>2. QED
        BY <1>2, <4>1
    <3>3. QED
      BY <3>1, <3>2
  <2>2. rest.definition \in Sources \cup {0} /\ rest.enumDefinition \in Sources \cup {0}
    BY DEF Removed, Count
  <2>3. rest.enums = [f \in Flavours |-> rest.enums[f]]
    BY DEF Removed
  <2>4. rest = [decls |-> rest.decls, definition |-> rest.definition,
                enums |-> rest.enums, enumDefinition |-> rest.enumDefinition]
    BY DEF Removed
  <2> HIDE DEF rest
  <2>5. rest.enums \in [Flavours -> Nat]
    BY <2>1, <2>3
  <2>6. QED
    BY <2>1, <2>2, <2>4, <2>5 DEF Count
<1>9. QED
  BY <1>1, <1>2, <1>6, <1>7, <1>8 DEF CountedBy

(* A record that is counted is empty when no contribution is about id.     *)
LEMMA NoCountMeans ==
  ASSUME NEW named \in Nameds, \A s \in Sources : Len(named[s]) <= MaxFacts,
         \A s \in Sources : \A i \in DOMAIN named[s] : named[s][i].fact.kind # "anonymous",
         NEW id \in Ids, NEW count \in Count, CountedBy(named, count, id)
  PROVE  count = NoCount
           <=> \A s \in Sources : \A i \in DOMAIN named[s] : named[s][i].id # id
<1>1. ASSUME \A s \in Sources : \A i \in DOMAIN named[s] : named[s][i].id # id
      PROVE  count = NoCount
  <2>1. \A kind, defined, flavours : Places(named, id, kind, defined, flavours) = {}
    BY <1>1 DEF Places, Says
  <2>2. \A kind : DefinersIn(named, id, kind) = {}
    BY <1>1 DEF DefinersIn
  <2>3. count.decls = 0 /\ \A f \in Flavours : count.enums[f] = 0
    BY <2>1, FS_EmptySet DEF CountedBy
  <2>4. count.definition = 0 /\ count.enumDefinition = 0
    BY <2>2 DEF CountedBy
  <2>5. count.enums = [f \in Flavours |-> 0]
    BY <2>3 DEF Count
  <2>6. QED
    BY <2>3, <2>4, <2>5 DEF Count, NoCount
<1>2. ASSUME count = NoCount, NEW s \in Sources, NEW i \in DOMAIN named[s],
             named[s][i].id = id
      PROVE  FALSE
  <2> DEFINE c == named[s][i]
             P(kind, defined, flavours) == Places(named, id, kind, defined, flavours)
  <2>1. c.fact \in Fact /\ <<s, i>> \in Sources \X (1..MaxFacts)
    BY NamedFacts, ConstantFacts
  <2>2. \A kind, defined, flavours :
          Says(c, id, kind, defined, flavours) => P(kind, defined, flavours) # {}
    BY <2>1, <1>2 DEF Places
  <2>3. CASE c.fact.kind = "aggregate" /\ ~c.fact.defined
    <3>1. Says(c, id, "aggregate", {FALSE}, {"none"})
      BY <2>1, <2>3, <1>2, FactFacts DEF Says
    <3>2. count.decls # 0
      BY <2>2, <3>1, PlacesNone DEF CountedBy
    <3>3. QED
      BY <3>2, <1>2 DEF NoCount
  <2>4. CASE c.fact.kind = "aggregate" /\ c.fact.defined
    <3>1. s \in DefinersIn(named, id, "aggregate")
      BY <2>4, <1>2 DEF DefinersIn
    <3>2. QED
      BY <3>1, <1>2 DEF CountedBy, NoCount
  <2>5. CASE c.fact.kind = "enum"
    <3>1. c.fact.flavour \in Flavours
      BY <2>1, <2>5, FactFacts
    <3>2. Says(c, id, "enum", BOOLEAN, {c.fact.flavour})
      BY <2>1, <2>5, <1>2, FactFacts DEF Says
    <3>3. count.enums[c.fact.flavour] # 0
      BY <2>2, <3>1, <3>2, PlacesNone DEF CountedBy
    <3>4. QED
      BY <3>1, <3>3, <1>2 DEF NoCount
  <2>6. QED
    BY <2>1, <2>3, <2>4, <2>5, <1>2, FactFacts
<1>3. QED
  BY <1>1, <1>2

(* A contribution more, of a Source that has room for one.                 *)
Contributing(named, s, id, f) ==
  [named EXCEPT ![s] = Append(@, [id |-> id, fact |-> f])]

(* Appending leaves the other lists and the earlier contributions alone.   *)
LEMMA ContributingFacts ==
  ASSUME NEW named \in Nameds, NEW s \in Sources, Len(named[s]) < MaxFacts,
         NEW id \in Ids, NEW f \in Fact
  PROVE  /\ Contributing(named, s, id, f) \in Nameds
         /\ \A t \in Sources : t # s => Contributing(named, s, id, f)[t] = named[t]
         /\ DOMAIN Contributing(named, s, id, f)[s] = 1..(Len(named[s]) + 1)
         /\ Len(Contributing(named, s, id, f)[s]) = Len(named[s]) + 1
         /\ \A i \in DOMAIN named[s] : Contributing(named, s, id, f)[s][i] = named[s][i]
         /\ Contributing(named, s, id, f)[s][Len(named[s]) + 1] = [id |-> id, fact |-> f]
<1> DEFINE c == [id |-> id, fact |-> f]
           after == [named EXCEPT ![s] = Append(@, c)]
<1>1. named[s] \in Seq(Contribution) /\ DOMAIN named = Sources /\ c \in Contribution
  BY DEF Nameds, Contribution
<1> HIDE DEF c
<1>2. /\ DOMAIN named[s] = 1..Len(named[s]) /\ Len(named[s]) \in Nat
      /\ Append(named[s], c) \in Seq(Contribution)
      /\ Len(Append(named[s], c)) = Len(named[s]) + 1
      /\ DOMAIN Append(named[s], c) = 1..(Len(named[s]) + 1)
      /\ \A i \in 1..Len(named[s]) : Append(named[s], c)[i] = named[s][i]
      /\ Append(named[s], c)[Len(named[s]) + 1] = c
  BY <1>1, LenProperties, AppendProperties
<1>3. after \in [Sources -> Seq(Contribution)]
  BY <1>1, <1>2 DEF Nameds
<1>4. after[s] = Append(named[s], c) /\ \A t \in Sources : t # s => after[t] = named[t]
  BY <1>1
<1> HIDE DEF after
<1>5. after = Contributing(named, s, id, f)
  BY DEF after, c, Contributing
<1>6. QED
  BY <1>2, <1>3, <1>4, <1>5 DEF Nameds, c

(* Appending a contribution adds one to what it says.                      *)
Grows(named, after, c) ==
  \A id, kind, defined, flavours :
    LET before == Cardinality(Places(named, id, kind, defined, flavours))
        now == Cardinality(Places(after, id, kind, defined, flavours))
    IN  now = IF Says(c, id, kind, defined, flavours) THEN before + 1 ELSE before

(* One contribution more is one more to count if it says so, none          *)
(* otherwise.                                                              *)
LEMMA PlacesContributing ==
  ASSUME NEW named \in Nameds, NEW s \in Sources, Len(named[s]) < MaxFacts,
         NEW of \in Ids, NEW f \in Fact
  PROVE  Grows(named, Contributing(named, s, of, f), [id |-> of, fact |-> f])
<1> SUFFICES ASSUME NEW id, NEW kind, NEW defined, NEW flavours
             PROVE  LET before == Cardinality(Places(named, id, kind, defined, flavours))
                        after == Contributing(named, s, of, f)
                        now == Cardinality(Places(after, id, kind, defined, flavours))
                    IN  now = IF Says([id |-> of, fact |-> f], id, kind, defined, flavours)
                              THEN before + 1 ELSE before
  BY DEF Grows
<1> DEFINE c == [id |-> of, fact |-> f]
           new == Contributing(named, s, of, f)
           P == Places(named, id, kind, defined, flavours)
           p == <<s, Len(named[s]) + 1>>
           after == Places(new, id, kind, defined, flavours)
<1>2. /\ DOMAIN named[s] = 1..Len(named[s]) /\ Len(named[s]) \in Nat
      /\ DOMAIN new[s] = 1..(Len(named[s]) + 1)
      /\ \A i \in 1..Len(named[s]) : new[s][i] = named[s][i]
      /\ new[s][Len(named[s]) + 1] = c
      /\ \A t \in Sources : t # s => new[t] = named[t]
  BY NamedFacts, ContributingFacts
<1>3. \A t \in Sources : t # s => new[t] = named[t]
  BY <1>2
<1> HIDE DEF c, new
<1>4. p \in Sources \X (1..MaxFacts) /\ p[1] = s /\ p[2] = Len(named[s]) + 1
  BY <1>2, ConstantFacts
<1>5. p \notin P
  BY <1>2, <1>4 DEF Places
<1>6. after = IF Says(c, id, kind, defined, flavours) THEN P \cup {p} ELSE P
  <2>1. ASSUME NEW q \in Sources \X (1..MaxFacts), q # p
        PROVE  q \in after <=> q \in P
    <3>1. CASE q[1] # s
      BY <3>1, <1>3 DEF Places
    <3>2. CASE q[1] = s
      <4>1. q[2] # Len(named[s]) + 1
        BY <3>2, <2>1
      <4>2. q[2] \in DOMAIN new[s] <=> q[2] \in DOMAIN named[s]
        BY <4>1, <1>2, <1>3
      <4>3. q[2] \in DOMAIN named[s] => new[s][q[2]] = named[s][q[2]]
        BY <1>2, <1>3
      <4>4. QED
        BY <3>2, <4>2, <4>3 DEF Places
    <3>3. QED
      BY <3>1, <3>2
  <2>2. p \in after <=> Says(c, id, kind, defined, flavours)
    BY <1>2, <1>3, <1>4 DEF Places
  <2>3. P \subseteq Sources \X (1..MaxFacts) /\ after \subseteq Sources \X (1..MaxFacts)
    BY DEF Places
  <2> HIDE DEF P, p, after
  <2>4. CASE Says(c, id, kind, defined, flavours)
    BY <1>4, <2>1, <2>2, <2>3, <2>4
  <2>5. CASE ~Says(c, id, kind, defined, flavours)
    <3>1. \A q \in Sources \X (1..MaxFacts) : q \in after <=> q \in P
      BY <1>5, <2>1, <2>2, <2>5
    <3>2. QED
      BY <2>3, <2>5, <3>1
  <2>6. QED
    BY <2>4, <2>5
<1>7. IsFiniteSet(P) /\ Cardinality(P) \in Nat
  BY PlacesFinite
<1> HIDE DEF P, p, after
<1>8. Cardinality(P \cup {p}) = Cardinality(P) + 1
  BY <1>5, <1>7, FS_AddElement
<1>9. QED
  BY <1>6, <1>7, <1>8 DEF after, P, new, c

(* A definition makes its Source a definer of its name, and of no other.   *)
LEMMA ContributingDefiners ==
  ASSUME NEW named \in Nameds, NEW s \in Sources, Len(named[s]) < MaxFacts,
         NEW id \in Ids, NEW f \in Fact, NEW other \in Ids, NEW kind
  PROVE  DefinersIn(Contributing(named, s, id, f), other, kind)
           = IF other = id /\ f.kind = kind /\ f.defined
             THEN DefinersIn(named, other, kind) \cup {s}
             ELSE DefinersIn(named, other, kind)
<1> DEFINE after == Contributing(named, s, id, f)
           Holds(list) == \E i \in DOMAIN list : list[i].id = other /\ list[i].fact.kind = kind
                                                 /\ list[i].fact.defined
           new == other = id /\ f.kind = kind /\ f.defined
           n == Len(named[s]) + 1
<1>1. /\ \A t \in Sources : t # s => after[t] = named[t]
      /\ DOMAIN after[s] = 1..n
      /\ \A i \in DOMAIN named[s] : after[s][i] = named[s][i]
      /\ after[s][n] = [id |-> id, fact |-> f]
  BY ContributingFacts
<1>2. DOMAIN named[s] = 1..Len(named[s]) /\ Len(named[s]) \in Nat
  BY NamedFacts
<1> HIDE DEF after
<1>3. Holds(after[s]) <=> Holds(named[s]) \/ new
  <2>1. after[s][n].id = id /\ after[s][n].fact = f
    BY <1>1
  <2>2. n \in DOMAIN after[s] /\ \A i \in DOMAIN after[s] : i = n \/ i \in DOMAIN named[s]
    BY <1>1, <1>2
  <2>3. DOMAIN named[s] \subseteq DOMAIN after[s]
    BY <1>1, <1>2
  <2> HIDE DEF n
  <2>4. ASSUME Holds(after[s]) PROVE Holds(named[s]) \/ new
    BY <2>1, <2>2, <2>4, <1>1
  <2>5. ASSUME Holds(named[s]) PROVE Holds(after[s])
    BY <2>3, <2>5, <1>1
  <2>6. ASSUME new PROVE Holds(after[s])
    BY <2>1, <2>2, <2>6
  <2>7. QED
    BY <2>4, <2>5, <2>6
<1>4. \A t \in Sources : t # s => (Holds(after[t]) <=> Holds(named[t]))
  BY <1>1
<1>5. /\ DefinersIn(after, other, kind) = {t \in Sources : Holds(after[t])}
      /\ DefinersIn(named, other, kind) = {t \in Sources : Holds(named[t])}
  BY DEF DefinersIn
<1> HIDE DEF Holds, new
<1>6. DefinersIn(after, other, kind)
        = IF new THEN DefinersIn(named, other, kind) \cup {s} ELSE DefinersIn(named, other, kind)
  <2>1. CASE new
    BY <1>3, <1>4, <1>5, <2>1
  <2>2. CASE ~new
    BY <1>3, <1>4, <1>5, <2>2
  <2>3. QED
    BY <2>1, <2>2
<1>7. QED
  BY <1>6 DEF after, new

(* add_delta counts a contribution that it accepts.                        *)
LEMMA AddedCounts ==
  ASSUME NEW named \in Nameds, NEW s \in Sources, Len(named[s]) < MaxFacts,
         NEW id \in Ids, NEW f \in Fact, f.kind # "anonymous",
         NEW count \in Count, CountedBy(named, count, id), Accepts(count, f)
  PROVE  /\ CountedBy(Contributing(named, s, id, f), Added(count, s, f), id)
         /\ Added(count, s, f) \in Count
<1> DEFINE after == Contributing(named, s, id, f)
           c == [id |-> id, fact |-> f]
           sum == Added(count, s, f)
<1>1. ASSUME NEW kind, NEW defined, NEW flavours
      PROVE  LET says == f.kind = kind /\ f.defined \in defined /\ f.flavour \in flavours
                 m == Cardinality(Places(named, id, kind, defined, flavours))
                 n == Cardinality(Places(after, id, kind, defined, flavours))
             IN  (says => n = m + 1) /\ (~says => n = m)
  <2>1. Grows(named, after, c)
    BY PlacesContributing
  <2>2. Says(c, id, kind, defined, flavours)
          <=> f.kind = kind /\ f.defined \in defined /\ f.flavour \in flavours
    BY DEF Says
  <2> HIDE DEF c, after
  <2>3. QED
    BY <2>1, <2>2 DEF Grows
<1>2. f.kind \in {"aggregate", "enum"} /\ f.defined \in BOOLEAN
      /\ (f.kind = "aggregate" => f.flavour = "none") /\ (f.kind = "enum" => f.flavour \in Flavours)
  BY FactFacts
<1>3. sum = [decls |-> IF f.kind = "aggregate" /\ ~f.defined THEN count.decls + 1 ELSE count.decls,
             definition |-> IF f.kind = "aggregate" /\ f.defined THEN s ELSE count.definition,
             enums |-> [g \in Flavours |-> IF f.kind = "enum" /\ g = f.flavour
                                           THEN count.enums[g] + 1 ELSE count.enums[g]],
             enumDefinition |-> IF f.kind = "enum" /\ f.defined THEN s ELSE count.enumDefinition]
  <2>1. CASE f.kind = "aggregate"
    BY <2>1, <1>2 DEF Added, Count
  <2>2. CASE f.kind = "enum"
    BY <2>2, <1>2 DEF Added, Count
  <2>3. QED
    BY <1>2, <2>1, <2>2
<1> HIDE DEF sum, after
<1>4. sum.decls = Cardinality(Places(after, id, "aggregate", {FALSE}, {"none"}))
  <2>1. f.kind = "aggregate" /\ f.defined \in {FALSE} /\ f.flavour \in {"none"}
          <=> f.kind = "aggregate" /\ ~f.defined
    BY <1>2
  <2>2. count.decls = Cardinality(Places(named, id, "aggregate", {FALSE}, {"none"}))
        /\ count.decls \in Nat
    BY DEF CountedBy, Count
  <2>3. Cardinality(Places(after, id, "aggregate", {FALSE}, {"none"}))
          = IF f.kind = "aggregate" /\ ~f.defined
            THEN Cardinality(Places(named, id, "aggregate", {FALSE}, {"none"})) + 1
            ELSE Cardinality(Places(named, id, "aggregate", {FALSE}, {"none"}))
    BY <2>1, <1>1
  <2>4. sum.decls = IF f.kind = "aggregate" /\ ~f.defined THEN count.decls + 1 ELSE count.decls
    BY <1>3
  <2>5. QED
    BY <2>2, <2>3, <2>4
<1>5. ASSUME NEW g \in Flavours
      PROVE  sum.enums[g] = Cardinality(Places(after, id, "enum", BOOLEAN, {g}))
  <2>1. f.kind = "enum" /\ f.defined \in BOOLEAN /\ f.flavour \in {g}
          <=> f.kind = "enum" /\ g = f.flavour
    BY <1>2
  <2>2. count.enums[g] = Cardinality(Places(named, id, "enum", BOOLEAN, {g}))
        /\ count.enums[g] \in Nat
    BY DEF CountedBy, Count
  <2>3. sum.enums[g] = IF f.kind = "enum" /\ g = f.flavour THEN count.enums[g] + 1 ELSE count.enums[g]
    BY <1>3
  <2>4. QED
    BY <2>1, <2>2, <2>3, <1>1
<1>6. s # 0
  BY ConstantFacts
<1>7. {sum.definition} \ {0} = DefinersIn(after, id, "aggregate")
  <2>1. {count.definition} \ {0} = DefinersIn(named, id, "aggregate")
    BY DEF CountedBy
  <2>2. f.kind = "aggregate" /\ f.defined => count.definition = 0
    BY DEF Accepts
  <2>3. DefinersIn(after, id, "aggregate")
          = IF f.kind = "aggregate" /\ f.defined THEN DefinersIn(named, id, "aggregate") \cup {s}
            ELSE DefinersIn(named, id, "aggregate")
    BY ContributingDefiners DEF after
  <2>4. sum.definition = IF f.kind = "aggregate" /\ f.defined THEN s ELSE count.definition
    BY <1>3
  <2>5. QED
    BY <2>1, <2>2, <2>3, <2>4, <1>6
<1>8. {sum.enumDefinition} \ {0} = DefinersIn(after, id, "enum")
  <2>1. {count.enumDefinition} \ {0} = DefinersIn(named, id, "enum")
    BY DEF CountedBy
  <2>2. f.kind = "enum" /\ f.defined => count.enumDefinition = 0
    BY DEF Accepts
  <2>3. DefinersIn(after, id, "enum")
          = IF f.kind = "enum" /\ f.defined THEN DefinersIn(named, id, "enum") \cup {s}
            ELSE DefinersIn(named, id, "enum")
    BY ContributingDefiners DEF after
  <2>4. sum.enumDefinition = IF f.kind = "enum" /\ f.defined THEN s ELSE count.enumDefinition
    BY <1>3
  <2>5. QED
    BY <2>1, <2>2, <2>3, <2>4, <1>6
<1>9. sum \in Count
  <2>1. [g \in Flavours |-> IF f.kind = "enum" /\ g = f.flavour
                            THEN count.enums[g] + 1 ELSE count.enums[g]] \in [Flavours -> Nat]
    BY DEF Count
  <2>2. (IF f.kind = "aggregate" /\ ~f.defined THEN count.decls + 1 ELSE count.decls) \in Nat
    BY DEF Count
  <2>3. QED
    BY <2>1, <2>2, <1>3 DEF Count
<1>10. QED
  BY <1>4, <1>5, <1>7, <1>8, <1>9 DEF CountedBy, sum, after

(* ... and nothing else.                                                   *)
LEMMA AddedElsewhere ==
  ASSUME NEW named \in Nameds, NEW s \in Sources, Len(named[s]) < MaxFacts,
         NEW id \in Ids, NEW f \in Fact, NEW other \in Ids, other # id,
         NEW count, CountedBy(named, count, other)
  PROVE  CountedBy(Contributing(named, s, id, f), count, other)
<1> DEFINE after == Contributing(named, s, id, f)
           c == [id |-> id, fact |-> f]
<1>1. ASSUME NEW kind, NEW defined, NEW flavours
      PROVE  Cardinality(Places(after, other, kind, defined, flavours))
               = Cardinality(Places(named, other, kind, defined, flavours))
  <2>1. Grows(named, after, c)
    BY PlacesContributing
  <2>2. ~Says(c, other, kind, defined, flavours)
    BY DEF Says
  <2> HIDE DEF c, after
  <2>3. QED
    BY <2>1, <2>2 DEF Grows
<1>2. \A kind : DefinersIn(after, other, kind) = DefinersIn(named, other, kind)
  BY ContributingDefiners
<1> HIDE DEF after
<1>3. QED
  BY <1>1, <1>2 DEF CountedBy, after

(* What add_delta accepts agrees with what there is.                       *)
LEMMA AcceptedAgrees ==
  ASSUME NEW named \in Nameds, NEW t \in Sources, Len(named[t]) <= MaxFacts,
         NEW i \in DOMAIN named[t], named[t][i].fact.kind # "anonymous",
         NEW f \in Fact, f.kind # "anonymous",
         NEW count \in Count, CountedBy(named, count, named[t][i].id), Accepts(count, f)
  PROVE  named[t][i].fact.kind = f.kind /\ named[t][i].fact.flavour = f.flavour
<1> DEFINE c == named[t][i]
           P(kind, defined, flavours) == Places(named, c.id, kind, defined, flavours)
<1>1. c.fact \in Fact /\ <<t, i>> \in Sources \X (1..MaxFacts)
  BY NamedFacts, ConstantFacts
<1>2. \A kind, defined, flavours :
        Says(c, c.id, kind, defined, flavours) => P(kind, defined, flavours) # {}
  BY <1>1 DEF Places
<1>3. /\ c.fact.kind \in {"aggregate", "enum"} /\ f.kind \in {"aggregate", "enum"}
      /\ c.fact.kind = "aggregate" => c.fact.flavour = "none"
      /\ f.kind = "aggregate" => f.flavour = "none"
      /\ c.fact.kind = "enum" => c.fact.flavour \in Flavours
      /\ c.fact.defined \in BOOLEAN
  BY <1>1, FactFacts
<1>4. CASE c.fact.kind = "aggregate"
  <2>1. count.decls # 0 \/ count.definition # 0
    <3>1. CASE ~c.fact.defined
      <4>1. Says(c, c.id, "aggregate", {FALSE}, {"none"})
        BY <1>3, <1>4, <3>1 DEF Says
      <4>2. count.decls = Cardinality(P("aggregate", {FALSE}, {"none"}))
        BY DEF CountedBy
      <4>3. QED
        BY <1>2, <4>1, <4>2, PlacesNone
    <3>2. CASE c.fact.defined
      <4>1. t \in DefinersIn(named, c.id, "aggregate")
        BY <1>4, <3>2 DEF DefinersIn
      <4>2. QED
        BY <4>1 DEF CountedBy
    <3>3. QED
      BY <3>1, <3>2
  <2>2. QED
    BY <2>1, <1>3, <1>4 DEF Accepts
<1>5. CASE c.fact.kind = "enum"
  <2>1. Says(c, c.id, "enum", BOOLEAN, {c.fact.flavour})
    BY <1>3, <1>5 DEF Says
  <2>2. count.enums[c.fact.flavour] = Cardinality(P("enum", BOOLEAN, {c.fact.flavour}))
    BY <1>3, <1>5 DEF CountedBy
  <2>3. count.enums[c.fact.flavour] > 0
    <3>1. count.enums[c.fact.flavour] \in Nat
      BY <1>3, <1>5 DEF Count
    <3>2. QED
      BY <1>2, <2>1, <2>2, <3>1, PlacesNone
  <2>4. QED
    BY <2>3, <1>3, <1>5 DEF Accepts
<1>6. QED
  BY <1>3, <1>4, <1>5

-------------------------------------------------------------------------------
(* The rank of a key among those of an interval numbers the interval anew. *)
LEMMA SubsetSize ==
  ASSUME NEW S, IsFiniteSet(S), NEW T, T \subseteq S, NEW x \in S, x \notin T
  PROVE  /\ IsFiniteSet(T)
         /\ Cardinality(T) \in Nat /\ Cardinality(S) \in Nat
         /\ Cardinality(T) < Cardinality(S)
<1>1. IsFiniteSet(T) /\ Cardinality(T) <= Cardinality(S)
      /\ (Cardinality(S) = Cardinality(T) => S = T)
  BY FS_Subset
<1>2. Cardinality(T) \in Nat /\ Cardinality(S) \in Nat
  BY <1>1, FS_CardinalityType
<1>3. QED
  BY <1>1, <1>2

Ranked(a, b, key, below, rank) ==
  /\ a \in Nat /\ b \in Int
  /\ key \in [a..b -> Nat]
  /\ \A i, j \in a..b : key[i] = key[j] => i = j
  /\ below \in [a..b -> SUBSET (a..b)]
  /\ \A i, j \in a..b : j \in below[i] <=> key[j] < key[i]
  /\ rank \in [a..b -> Int]
  /\ \A i \in a..b : rank[i] = a + Cardinality(below[i])

Renumbers(a, b, key, rank) ==
  /\ \A i \in a..b : rank[i] \in a..b
  /\ \A i, j \in a..b : key[i] < key[j] => rank[i] < rank[j]
  /\ \A i, j \in a..b : rank[i] = rank[j] => i = j
  /\ \A i \in a..b : \E o \in a..b : rank[o] = i

(* Counting the smaller keys numbers any interval in the order of distinct *)
(* keys, without gaps.                                                     *)
LEMMA Ranking ==
  ASSUME NEW a, NEW b, NEW key, NEW below, NEW rank, Ranked(a, b, key, below, rank)
  PROVE  Renumbers(a, b, key, rank)
<1> USE DEF Ranked
<1>1. IsFiniteSet(a..b) /\ Cardinality(a..b) = IF a > b THEN 0 ELSE b - a + 1
  BY FS_Interval
<1>2. /\ \A i \in a..b : below[i] \subseteq a..b /\ i \notin below[i]
      /\ \A i, j \in a..b : key[i] < key[j] => i \in below[j] /\ below[i] \subseteq below[j]
  <2>1. \A o \in a..b : key[o] \in Nat
    OBVIOUS
  <2>2. \A i \in a..b : below[i] \subseteq a..b
    OBVIOUS
  <2>3. QED
    BY <2>1, <2>2
<1>4. ASSUME NEW i \in a..b
      PROVE  IsFiniteSet(below[i]) /\ Cardinality(below[i]) \in Nat /\ rank[i] \in a..b
  <2> DEFINE S == a..b
             T == below[i]
             m == Cardinality(S)
             k == Cardinality(T)
  <2>1. T \subseteq S /\ i \in S /\ i \notin T /\ IsFiniteSet(S)
    BY <1>1, <1>2
  <2> HIDE DEF S, T
  <2>2. IsFiniteSet(T) /\ k \in Nat /\ m \in Nat /\ k < m
    BY <2>1, SubsetSize
  <2>3. a <= b
    OBVIOUS
  <2>4. m = b - a + 1
    BY <1>1, <2>3 DEF S
  <2>5. rank[i] = a + k
    BY DEF T
  <2> HIDE DEF m, k
  <2>6. rank[i] \in a..b
    BY <2>2, <2>3, <2>4, <2>5
  <2>7. QED
    BY <2>2, <2>6 DEF T, k
<1>5. ASSUME NEW i \in a..b, NEW j \in a..b, key[i] < key[j]
      PROVE  rank[i] < rank[j]
  <2> DEFINE S == below[j]
             T == below[i]
  <2>1. T \subseteq S /\ i \in S /\ i \notin T /\ IsFiniteSet(S)
    BY <1>2, <1>4, <1>5
  <2> HIDE DEF S, T
  <2>2. Cardinality(T) \in Nat /\ Cardinality(S) \in Nat /\ Cardinality(T) < Cardinality(S)
    BY <2>1, SubsetSize
  <2>3. rank[i] = a + Cardinality(T) /\ rank[j] = a + Cardinality(S)
    BY DEF S, T
  <2>4. QED
    BY <2>2, <2>3
<1>6. ASSUME NEW i \in a..b, NEW j \in a..b, rank[i] = rank[j]
      PROVE  i = j
  <2>1. key[i] \in Nat /\ key[j] \in Nat /\ rank[i] \in Int /\ rank[j] \in Int
    BY <1>4
  <2>2. ~(rank[i] < rank[j]) /\ ~(rank[j] < rank[i])
    BY <1>6, <2>1
  <2>3. ~(key[i] < key[j]) /\ ~(key[j] < key[i])
    BY <1>5, <2>2
  <2>4. key[i] = key[j]
    BY <2>1, <2>3
  <2>5. QED
    BY <2>4
<1>7. rank \in [a..b -> a..b]
  BY <1>4
<1>8. rank \in Injection(a..b, a..b)
  BY <1>6, <1>7 DEF Injection, IsInjective
<1>9. rank \in Surjection(a..b, a..b)
  BY <1>1, <1>8, FS_Injection
<1>10. \A i \in a..b : \E o \in a..b : rank[o] = i
  BY <1>9 DEF Surjection
<1>11. QED
  BY <1>4, <1>5, <1>6, <1>10 DEF Renumbers

(* The parts of TypeOK, for any of the two.                                *)
LEMMA StateFacts ==
  ASSUME NEW d, StateOK(d)
  PROVE  /\ d.named \in Nameds
         /\ d.next \in Nat /\ d.next \in 1..(Cardinality(Names) + 1)
         /\ \A n \in Names : d.identity[n] \in Ids \cup {0} /\ d.identity[n] \in Nat
         /\ \A id \in Ids : d.counts[id] \in Count /\ d.entities[id] \in EntityRecord
                            /\ d.entities[id].type \in Handles \cup {0}
         /\ \A h \in Handles : d.types[h] \in TypeRecord
         /\ \A id \in 1..(d.next - 1) : id \in Ids
<1>1. /\ d.identity \in [Names -> Ids \cup {0}]
      /\ d.next \in 1..(Cardinality(Names) + 1)
      /\ d.entities \in [Ids -> EntityRecord]
      /\ d.types \in [Handles -> TypeRecord]
      /\ d.named \in [Sources -> Seq(Contribution)]
      /\ d.counts \in [Ids -> Count]
  BY DEF StateOK
<1>2. \A e \in EntityRecord : e.type \in Handles \cup {0}
  BY DEF EntityRecord
<1>3. QED
  BY <1>1, <1>2, ConstantFacts DEF Nameds, Ids

(* canonicalize_new_stable_ids permutes the new ids into the order of the  *)
(* names, and leaves the others.                                           *)
LEMMA RemapFacts ==
  ASSUME StateOK(graph), StateOK(draft), Identities(graph), Identities(draft),
         DraftOK(draft, "building")
  PROVE  /\ \A id \in NewIds : Remap(id) \in NewIds
         /\ \A i, j \in NewIds :
              draft.entities[i].name < draft.entities[j].name => Remap(i) < Remap(j)
         /\ \A i, j \in NewIds : Remap(i) = Remap(j) => i = j
         /\ \A id \in NewIds : \E old \in NewIds : Remap(old) = id
         /\ \A id \in 1..(graph.next - 1) : Remap(id) = id
<1> DEFINE a == graph.next
           b == draft.next - 1
           key == [i \in a..b |-> draft.entities[i].name]
           below == [i \in a..b |-> {o \in a..b : key[o] < key[i]}]
           rank == [i \in a..b |-> Remap(i)]
<1>1. a \in Nat /\ b \in Int /\ a..b \subseteq 1..(draft.next - 1)
  BY StateFacts, ConstantFacts
<1>2. \A i \in a..b : i \in Ids /\ draft.entities[i] # NoEntity
  BY <1>1, StateFacts DEF DraftOK, NewIds
<1>3. \A i \in a..b : draft.entities[i].name \in Names
                      /\ draft.identity[draft.entities[i].name] = i
  BY <1>2 DEF Identities
<1>4. key \in [a..b -> Nat] /\ \A i, j \in a..b : key[i] = key[j] => i = j
  BY <1>3, ConstantFacts
<1>5. \A i \in a..b : rank[i] = a + Cardinality(below[i])
  <2>1. \A i \in a..b : ~(i < graph.next)
    BY <1>1
  <2>2. \A i \in a..b : below[i]
          = {o \in a..b : draft.entities[o].name < draft.entities[i].name}
    OBVIOUS
  <2> HIDE DEF below
  <2>3. QED
    BY <2>1, <2>2 DEF Remap, Entity
<1>6. /\ \A i \in a..b : rank[i] \in a..b
      /\ \A i, j \in a..b : key[i] < key[j] => rank[i] < rank[j]
      /\ \A i, j \in a..b : rank[i] = rank[j] => i = j
      /\ \A i \in a..b : \E o \in a..b : rank[o] = i
  <2>1. /\ below \in [a..b -> SUBSET (a..b)]
        /\ \A i, j \in a..b : j \in below[i] <=> key[j] < key[i]
    OBVIOUS
  <2>2. rank \in [a..b -> Int]
    <3>1. IsFiniteSet(a..b)
      BY <1>1, FS_Interval
    <3>2. \A i \in a..b : below[i] \subseteq a..b
      OBVIOUS
    <3> HIDE DEF below
    <3>3. ASSUME NEW i \in a..b
          PROVE  rank[i] \in Int
      <4>1. Cardinality(below[i]) \in Nat
        BY <3>1, <3>2, FS_Subset, FS_CardinalityType
      <4>2. rank[i] = a + Cardinality(below[i])
        BY <1>5
      <4> HIDE DEF rank
      <4>3. QED
        BY <1>1, <4>1, <4>2
    <3>4. QED
      BY <3>3
  <2> HIDE DEF key, below, rank, a, b
  <2>3. Ranked(a, b, key, below, rank)
    BY <1>1, <1>4, <1>5, <2>1, <2>2 DEF Ranked
  <2>4. QED
    BY <2>3, Ranking DEF Renumbers
<1>7. \A id \in 1..(graph.next - 1) : Remap(id) = id
  BY StateFacts DEF Remap
<1>8. \A i \in a..b : key[i] = draft.entities[i].name /\ rank[i] = Remap(i)
  OBVIOUS
<1>9. NewIds = a..b
  BY DEF NewIds
<1> HIDE DEF key, rank, a, b
<1>10. \A i \in NewIds : Remap(i) \in NewIds
  BY <1>6, <1>8, <1>9
<1>11. \A i, j \in NewIds :
         draft.entities[i].name < draft.entities[j].name => Remap(i) < Remap(j)
  <2> SUFFICES ASSUME NEW i \in a..b, NEW j \in a..b,
                      draft.entities[i].name < draft.entities[j].name
               PROVE  Remap(i) < Remap(j)
    BY <1>9
  <2>1. key[i] < key[j]
    BY <1>8
  <2>2. rank[i] < rank[j]
    BY <2>1, <1>6
  <2>3. QED
    BY <2>2, <1>8
<1>12. \A i, j \in NewIds : Remap(i) = Remap(j) => i = j
  <2> SUFFICES ASSUME NEW i \in a..b, NEW j \in a..b, Remap(i) = Remap(j)
               PROVE  i = j
    BY <1>9
  <2>1. rank[i] = rank[j]
    BY <1>8
  <2>2. QED
    BY <2>1, <1>6
<1>13. \A id \in NewIds : \E old \in NewIds : Remap(old) = id
  BY <1>6, <1>8, <1>9
<1>14. QED
  BY <1>7, <1>10, <1>11, <1>12, <1>13

(* Remap permutes the ids handed out in an update, and Provisional undoes  *)
(* it.                                                                     *)
LEMMA ProvisionalFacts ==
  ASSUME StateOK(graph), StateOK(draft), Identities(graph), Identities(draft),
         DraftOK(draft, "building")
  PROVE  /\ \A id \in Ids : Provisional(id) \in Ids
         /\ \A id \in Ids : id \notin NewIds => Provisional(id) = id
         /\ \A id \in NewIds : Provisional(id) \in NewIds
         /\ \A id \in Ids : Provisional(id) < draft.next =>
              id < draft.next /\ Remap(Provisional(id)) = id
         /\ \A id \in 1..(draft.next - 1) :
              Remap(id) \in 1..(draft.next - 1) /\ Provisional(Remap(id)) = id
         /\ \A i, j \in Ids : Provisional(i) = Provisional(j) => i = j
<1>1. /\ \A id \in NewIds : Remap(id) \in NewIds
      /\ \A i, j \in NewIds : Remap(i) = Remap(j) => i = j
      /\ \A id \in NewIds : \E old \in NewIds : Remap(old) = id
      /\ \A id \in 1..(graph.next - 1) : Remap(id) = id
  BY RemapFacts
<1>2. /\ graph.next \in Nat \ {0} /\ draft.next \in Nat \ {0} /\ graph.next <= draft.next
      /\ NewIds = graph.next..(draft.next - 1)
      /\ NewIds \subseteq 1..(draft.next - 1) /\ 1..(draft.next - 1) \subseteq Ids
      /\ \A id \in Ids : id \in Nat \ {0}
  BY StateFacts, ConstantFacts DEF DraftOK, NewIds
<1>3. \A id \in NewIds : Provisional(id) \in NewIds /\ Remap(Provisional(id)) = id
  <2> TAKE id \in NewIds
  <2>1. \E old \in NewIds : Remap(old) = id
    BY <1>1
  <2>2. Provisional(id) = CHOOSE old \in NewIds : Remap(old) = id
    BY DEF Provisional, NewIds
  <2>3. QED
    BY <2>1, <2>2
<1>4. \A id \in Ids : id \notin NewIds => Provisional(id) = id
  BY DEF Provisional, NewIds
<1>5. \A id \in NewIds : Provisional(Remap(id)) = id
  BY <1>1, <1>3
<1>6. \A id \in Ids : Provisional(id) \in Ids
  BY <1>2, <1>3, <1>4
<1>7. \A id \in 1..(draft.next - 1) : id \in NewIds \/ id \in 1..(graph.next - 1)
  BY <1>2
<1>8. \A id \in 1..(graph.next - 1) : id \notin NewIds /\ id \in Ids
  BY <1>2
<1>9. \A id \in Ids : Provisional(id) < draft.next =>
        id < draft.next /\ Remap(Provisional(id)) = id
  <2> SUFFICES ASSUME NEW id \in Ids, Provisional(id) < draft.next
               PROVE  id < draft.next /\ Remap(Provisional(id)) = id
    OBVIOUS
  <2>1. CASE id \in NewIds
    BY <2>1, <1>2, <1>3
  <2>2. CASE id \notin NewIds
    <3>1. Provisional(id) = id
      BY <2>2, <1>4
    <3>2. id \in 1..(draft.next - 1)
      BY <3>1, <1>2
    <3>3. Remap(id) = id
      BY <3>2, <2>2, <1>1, <1>7
    <3>4. QED
      BY <3>1, <3>3
  <2>3. QED
    BY <2>1, <2>2
<1>10. \A id \in 1..(draft.next - 1) :
         Remap(id) \in 1..(draft.next - 1) /\ Provisional(Remap(id)) = id
  <2> TAKE id \in 1..(draft.next - 1)
  <2>1. CASE id \in NewIds
    BY <2>1, <1>1, <1>2, <1>5
  <2>2. CASE id \in 1..(graph.next - 1)
    BY <2>2, <1>1, <1>4, <1>8
  <2>3. QED
    BY <2>1, <2>2, <1>7
<1>11. \A i, j \in Ids : Provisional(i) = Provisional(j) => i = j
  <2> SUFFICES ASSUME NEW i \in Ids, NEW j \in Ids, Provisional(i) = Provisional(j)
               PROVE  i = j
    OBVIOUS
  <2>1. CASE i \in NewIds /\ j \in NewIds
    BY <2>1, <1>3
  <2>2. CASE i \notin NewIds /\ j \notin NewIds
    BY <2>2, <1>4
  <2>3. ASSUME NEW k \in NewIds, NEW l \in Ids, l \notin NewIds
        PROVE  Provisional(k) # Provisional(l)
    BY <2>3, <1>3, <1>4
  <2>4. QED
    BY <2>1, <2>2, <2>3
<1>12. QED
  BY <1>3, <1>4, <1>6, <1>9, <1>10, <1>11

(* The fields of the canonicalized candidate.                              *)
CanonicalDraft(d) ==
  /\ DOMAIN d = DraftFields
  /\ d.full = draft.full /\ d.next = draft.next /\ d.types = draft.types
  /\ d.slots = draft.slots /\ d.anonymous = draft.anonymous
  /\ d.touched = draft.touched /\ d.claimed = draft.claimed /\ d.source = draft.source
  /\ d.identity = [n \in Names |-> IF draft.identity[n] = 0 THEN 0
                                   ELSE Remap(draft.identity[n])]
  /\ d.entities = [id \in Ids |-> draft.entities[Provisional(id)]]
  /\ d.counts = [id \in Ids |-> draft.counts[Provisional(id)]]
  /\ \A s \in Sources :
       /\ DOMAIN d.named[s] = DOMAIN draft.named[s]
       /\ d.named[s] = [i \in DOMAIN draft.named[s] |-> d.named[s][i]]
       /\ \A i \in DOMAIN draft.named[s] :
            d.named[s][i] = [id |-> Remap(draft.named[s][i].id),
                             fact |-> draft.named[s][i].fact]
  /\ d.named = [s \in Sources |-> d.named[s]]

(* The fields of the candidate after canonicalize_new_stable_ids.          *)
LEMMA CanonicalFields ==
  ASSUME StateOK(draft), DOMAIN draft = DraftFields
  PROVE  CanonicalDraft(Canonicalized)
<1>1. DOMAIN draft = DraftFields
  OBVIOUS
<1>2. \A s \in Sources : \A i \in DOMAIN draft.named[s] :
        [draft.named[s][i] EXCEPT !.id = Remap(@)]
          = [id |-> Remap(draft.named[s][i].id), fact |-> draft.named[s][i].fact]
  <2> TAKE s \in Sources
  <2> TAKE i \in DOMAIN draft.named[s]
  <2>1. draft.named[s][i] \in Contribution
    BY StateFacts, NamedFacts
  <2>2. QED
    BY <2>1 DEF Contribution
<1> DEFINE d == Canonicalized
<1>3. d.named = [s \in Sources |-> CanonicalNamed(s)]
  BY <1>1 DEF Canonicalized, DraftFields
<1>4. /\ DOMAIN d = DraftFields
      /\ d.full = draft.full /\ d.next = draft.next /\ d.types = draft.types
      /\ d.slots = draft.slots /\ d.anonymous = draft.anonymous
      /\ d.touched = draft.touched /\ d.claimed = draft.claimed /\ d.source = draft.source
  BY <1>1 DEF Canonicalized, DraftFields
<1>5. /\ d.identity = [n \in Names |-> IF draft.identity[n] = 0 THEN 0
                                        ELSE Remap(draft.identity[n])]
      /\ d.entities = [id \in Ids |-> draft.entities[Provisional(id)]]
      /\ d.counts = [id \in Ids |-> draft.counts[Provisional(id)]]
  BY <1>1 DEF Canonicalized, DraftFields
<1> HIDE DEF d
<1>6. /\ \A s \in Sources :
              /\ DOMAIN d.named[s] = DOMAIN draft.named[s]
              /\ d.named[s] = [i \in DOMAIN draft.named[s] |-> d.named[s][i]]
              /\ \A i \in DOMAIN draft.named[s] :
                   d.named[s][i] = [id |-> Remap(draft.named[s][i].id),
                                    fact |-> draft.named[s][i].fact]
      /\ d.named = [s \in Sources |-> d.named[s]]
  <2>1. \A s \in Sources : d.named[s] = CanonicalNamed(s)
    BY <1>3
  <2>2. d.named = [s \in Sources |-> d.named[s]]
    BY <1>3
  <2>3. ASSUME NEW s \in Sources
        PROVE  /\ DOMAIN CanonicalNamed(s) = DOMAIN draft.named[s]
               /\ CanonicalNamed(s) = [i \in DOMAIN draft.named[s] |-> CanonicalNamed(s)[i]]
               /\ \A i \in DOMAIN draft.named[s] : CanonicalNamed(s)[i]
                    = [id |-> Remap(draft.named[s][i].id), fact |-> draft.named[s][i].fact]
    <3>1. \A i \in DOMAIN draft.named[s] :
            CanonicalNamed(s)[i] = [draft.named[s][i] EXCEPT !.id = Remap(@)]
      BY DEF CanonicalNamed
    <3>2. DOMAIN CanonicalNamed(s) = DOMAIN draft.named[s]
      BY DEF CanonicalNamed
    <3>3. CanonicalNamed(s) = [i \in DOMAIN draft.named[s] |-> CanonicalNamed(s)[i]]
      BY DEF CanonicalNamed
    <3>4. QED
      BY <1>2, <3>1, <3>2, <3>3
  <2>4. ASSUME NEW s \in Sources
        PROVE  /\ DOMAIN d.named[s] = DOMAIN draft.named[s]
               /\ d.named[s] = [i \in DOMAIN draft.named[s] |-> d.named[s][i]]
               /\ \A i \in DOMAIN draft.named[s] :
                    d.named[s][i] = [id |-> Remap(draft.named[s][i].id),
                                     fact |-> draft.named[s][i].fact]
    <3>1. d.named[s] = CanonicalNamed(s)
      BY <2>1
    <3> HIDE DEF d
    <3>2. QED
      BY <3>1, <2>3
  <2>5. QED
    BY <2>2, <2>4
<1>7. QED
  BY <1>4, <1>5, <1>6 DEF d, CanonicalDraft

(* Renumbering keeps names, contributions and counters in agreement, and   *)
(* orders the new ids.                                                     *)
LEMMA CanonicalSound ==
  ASSUME GraphOK, DraftOK(draft, "building"), NEW d, CanonicalDraft(d)
  PROVE  /\ StateOK(d) /\ Sound(d)
         /\ \A n \in Names : graph.identity[n] # 0 => d.identity[n] = graph.identity[n]
         /\ \A id \in NewIds : d.entities[id] # NoEntity
         /\ \A m, n \in Names :
              /\ m < n
              /\ graph.identity[m] = 0 /\ d.identity[m] # 0
              /\ graph.identity[n] = 0 /\ d.identity[n] # 0
              => d.identity[m] < d.identity[n]
<1>0. /\ StateOK(graph) /\ StateOK(draft) /\ Sound(graph) /\ Sound(draft)
      /\ DraftOK(draft, "building")
  BY DEF GraphOK, DraftOK
<1>1. /\ \A id \in Ids : Provisional(id) \in Ids
      /\ \A id \in Ids : id \notin NewIds => Provisional(id) = id
      /\ \A id \in NewIds : Provisional(id) \in NewIds
      /\ \A id \in Ids : Provisional(id) < draft.next =>
           id < draft.next /\ Remap(Provisional(id)) = id
      /\ \A id \in 1..(draft.next - 1) :
           Remap(id) \in 1..(draft.next - 1) /\ Provisional(Remap(id)) = id
      /\ \A i, j \in Ids : Provisional(i) = Provisional(j) => i = j
  BY <1>0, ProvisionalFacts DEF Sound
<1>2. /\ draft.next \in Nat \ {0} /\ graph.next \in Nat \ {0}
      /\ draft.next \in 1..(Cardinality(Names) + 1)
      /\ 1..(draft.next - 1) \subseteq Ids /\ \A id \in Ids : id \in Nat \ {0}
  BY <1>0, StateFacts, ConstantFacts
<1>3. \A n \in Names : /\ draft.identity[n] \in Nat /\ draft.identity[n] < draft.next
                       /\ draft.identity[n] # 0 => draft.identity[n] \in 1..(draft.next - 1)
  BY <1>0, <1>2, StateFacts DEF Sound, Identities
<1>4. \A n \in Names : /\ d.identity[n] = IF draft.identity[n] = 0 THEN 0
                                         ELSE Remap(draft.identity[n])
                       /\ d.identity[n] \in 0..(draft.next - 1)
                       /\ d.identity[n] = 0 <=> draft.identity[n] = 0
  BY <1>1, <1>2, <1>3 DEF CanonicalDraft
<1>5. \A id \in Ids : /\ d.entities[id] = draft.entities[Provisional(id)]
                      /\ d.counts[id] = draft.counts[Provisional(id)]
  BY DEF CanonicalDraft
<1>6. \A s \in Sources :
        /\ DOMAIN d.named[s] = DOMAIN draft.named[s]
        /\ \A i \in DOMAIN draft.named[s] :
             d.named[s][i] = [id |-> Remap(draft.named[s][i].id),
                              fact |-> draft.named[s][i].fact]
  BY DEF CanonicalDraft
<1>7. \A s \in Sources : \A i \in DOMAIN draft.named[s] :
        /\ draft.named[s][i] \in Contribution
        /\ draft.named[s][i].fact.name \in Names
        /\ draft.named[s][i].id = draft.identity[draft.named[s][i].fact.name]
        /\ draft.named[s][i].id \in 1..(draft.next - 1)
  <2> SUFFICES ASSUME NEW s \in Sources, NEW i \in DOMAIN draft.named[s]
               PROVE  /\ draft.named[s][i] \in Contribution
                      /\ draft.named[s][i].fact.name \in Names
                      /\ draft.named[s][i].id = draft.identity[draft.named[s][i].fact.name]
                      /\ draft.named[s][i].id \in 1..(draft.next - 1)
    OBVIOUS
  <2>1. /\ draft.named[s][i] \in Contribution
        /\ draft.named[s][i].id \in Ids /\ draft.named[s][i].fact \in Fact
    BY <1>0, StateFacts, NamedFacts
  <2>2. /\ draft.named[s][i].fact.kind # "anonymous"
        /\ draft.identity[draft.named[s][i].fact.name] = draft.named[s][i].id
    BY <1>0 DEF Sound, Contributed
  <2>3. draft.named[s][i].fact.name \in Names
    BY <2>1, <2>2, FactFacts
  <2>4. draft.named[s][i].id # 0
    BY <1>2, <2>1
  <2>5. QED
    BY <1>3, <2>1, <2>2, <2>3, <2>4
<1>8. StateOK(d)
  <2>1. d.identity \in [Names -> Ids \cup {0}]
    <3>1. d.identity = [n \in Names |-> d.identity[n]]
      BY DEF CanonicalDraft
    <3>2. \A n \in Names : d.identity[n] \in Ids \cup {0}
      BY <1>2, <1>4
    <3>3. QED
      BY <3>1, <3>2
  <2>2. d.next \in 1..(Cardinality(Names) + 1) /\ d.slots \in 0..MaxHandles
        /\ d.types \in [Handles -> TypeRecord] /\ d.anonymous \in [Sources -> SUBSET Handles]
    BY <1>0 DEF CanonicalDraft, StateOK
  <2>3. d.entities \in [Ids -> EntityRecord] /\ d.counts \in [Ids -> Count]
    <3>1. d.entities = [id \in Ids |-> d.entities[id]] /\ d.counts = [id \in Ids |-> d.counts[id]]
      BY DEF CanonicalDraft
    <3>2. \A id \in Ids : d.entities[id] \in EntityRecord /\ d.counts[id] \in Count
      BY <1>0, <1>1, <1>5, StateFacts
    <3>3. QED
      BY <3>1, <3>2
  <2>4. d.named \in [Sources -> Seq(Contribution)]
    <3>1. d.named = [s \in Sources |-> d.named[s]]
      BY DEF CanonicalDraft
    <3>2. ASSUME NEW s \in Sources
          PROVE  d.named[s] \in Seq(Contribution)
      <4>1. DOMAIN draft.named[s] = 1..Len(draft.named[s]) /\ Len(draft.named[s]) \in Nat
        BY <1>0, StateFacts, NamedFacts
      <4>2. \A i \in DOMAIN draft.named[s] :
              [id |-> Remap(draft.named[s][i].id), fact |-> draft.named[s][i].fact]
                \in Contribution
        BY <1>1, <1>2, <1>7 DEF Contribution
      <4>3. \A i \in DOMAIN draft.named[s] : d.named[s][i] \in Contribution
        BY <1>6, <4>2
      <4>4. DOMAIN d.named[s] = 1..Len(draft.named[s])
        BY <1>6, <4>1
      <4>5. d.named[s] = [i \in 1..Len(draft.named[s]) |-> d.named[s][i]]
        BY <4>1 DEF CanonicalDraft
      <4>6. QED
        BY <4>1, <4>3, <4>5
    <3>3. QED
      BY <3>1, <3>2
  <2>5. QED
    BY <2>1, <2>2, <2>3, <2>4 DEF StateOK
<1>9. \A id \in Ids, x \in 1..(draft.next - 1) : Remap(x) = id <=> x = Provisional(id)
  <2> SUFFICES ASSUME NEW id \in Ids, NEW x \in 1..(draft.next - 1)
               PROVE  Remap(x) = id <=> x = Provisional(id)
    OBVIOUS
  <2>1. ASSUME Remap(x) = id PROVE x = Provisional(id)
    BY <2>1, <1>1
  <2>2. ASSUME x = Provisional(id) PROVE Remap(x) = id
    <3>1. x < draft.next
      BY <1>2
    <3>2. QED
      BY <3>1, <2>2, <1>1
  <2>3. QED
    BY <2>1, <2>2
<1>10. Identities(d)
  <2>1. ASSUME NEW m \in Names, NEW n \in Names, d.identity[m] = d.identity[n],
               d.identity[m] # 0
        PROVE  m = n
    <3>1. /\ draft.identity[m] \in 1..(draft.next - 1) /\ draft.identity[n] \in 1..(draft.next - 1)
          /\ Remap(draft.identity[m]) = Remap(draft.identity[n])
      BY <2>1, <1>3, <1>4
    <3>2. draft.identity[m] = draft.identity[n]
      BY <3>1, <1>1
    <3>3. QED
      BY <3>1, <3>2, <1>0 DEF Sound, Identities
  <2>2. \A n \in Names : d.identity[n] < d.next
    BY <1>2, <1>4 DEF CanonicalDraft
  <2>3. ASSUME NEW id \in 1..(d.next - 1)
        PROVE  \E n \in Names : d.identity[n] = id
    <3>1. id \in 1..(draft.next - 1) /\ id \in Ids
      BY <1>2 DEF CanonicalDraft
    <3>2. Provisional(id) \in 1..(draft.next - 1)
      BY <3>1, <1>1, <1>2 DEF NewIds
    <3>3. PICK n \in Names : draft.identity[n] = Provisional(id)
      BY <3>2, <1>0 DEF Sound, Identities
    <3>4. d.identity[n] = Remap(Provisional(id)) /\ Remap(Provisional(id)) = id
      BY <3>1, <3>2, <3>3, <1>2, <1>4, <1>9
    <3>5. QED
      BY <3>4
  <2>4. ASSUME NEW id \in Ids, d.entities[id] # NoEntity
        PROVE  /\ d.entities[id].name \in Names /\ d.entities[id].type # 0
               /\ d.identity[d.entities[id].name] = id
    <3> DEFINE old == Provisional(id)
               name == draft.entities[old].name
    <3>1. old \in Ids /\ d.entities[id] = draft.entities[old]
      BY <1>1, <1>5
    <3>2. /\ name \in Names /\ draft.entities[old].type # 0
          /\ draft.identity[name] = old
      BY <3>1, <2>4, <1>0 DEF Sound, Identities
    <3>3. old \in 1..(draft.next - 1) /\ old # 0
      BY <3>1, <3>2, <1>2, <1>3
    <3>4. d.identity[name] = Remap(old) /\ Remap(old) = id
      BY <3>1, <3>2, <3>3, <1>4, <1>9
    <3>5. QED
      BY <3>1, <3>2, <3>4
  <2>5. QED
    BY <2>1, <2>2, <2>3, <2>4 DEF Identities
<1>11. Contributed(d)
  <2>1. ASSUME NEW s \in Sources
        PROVE  Len(d.named[s]) <= MaxFacts
    <3>1. DOMAIN draft.named[s] = 1..Len(draft.named[s]) /\ Len(draft.named[s]) \in Nat
      BY <1>0, StateFacts, NamedFacts
    <3>2. DOMAIN d.named[s] = 1..Len(d.named[s]) /\ Len(d.named[s]) \in Nat
      BY <1>8, StateFacts, NamedFacts
    <3>3. Len(draft.named[s]) <= MaxFacts
      BY <1>0 DEF Sound, Contributed
    <3>4. Len(d.named[s]) = Len(draft.named[s])
      BY <3>1, <3>2, <1>6
    <3>5. QED
      BY <3>3, <3>4
  <2>2. ASSUME NEW s \in Sources, NEW i \in DOMAIN d.named[s]
        PROVE  /\ i \in DOMAIN draft.named[s]
               /\ d.named[s][i].fact = draft.named[s][i].fact
               /\ d.named[s][i].id = Remap(draft.named[s][i].id)
    <3>1. i \in DOMAIN draft.named[s]
      BY <1>6
    <3>2. d.named[s][i] = [id |-> Remap(draft.named[s][i].id),
                           fact |-> draft.named[s][i].fact]
      BY <3>1, <1>6
    <3>3. QED
      BY <3>1, <3>2
  <2>3. ASSUME NEW s \in Sources, NEW i \in DOMAIN d.named[s]
        PROVE  /\ d.named[s][i].fact.kind # "anonymous"
               /\ d.identity[d.named[s][i].fact.name] = d.named[s][i].id
    <3>1. draft.named[s][i].fact.kind # "anonymous"
      BY <2>2, <1>0 DEF Sound, Contributed
    <3>2. draft.named[s][i].id # 0
      BY <2>2, <1>2, <1>7
    <3>3. d.identity[draft.named[s][i].fact.name] = Remap(draft.named[s][i].id)
      BY <2>2, <3>2, <1>4, <1>7
    <3>4. QED
      BY <2>2, <3>1, <3>3
  <2>4. ASSUME NEW s \in Sources, NEW t \in Sources, NEW i \in DOMAIN d.named[s],
               NEW j \in DOMAIN d.named[t], d.named[s][i].id = d.named[t][j].id
        PROVE  /\ d.named[s][i].fact.kind = d.named[t][j].fact.kind
               /\ d.named[s][i].fact.flavour = d.named[t][j].fact.flavour
    <3>1. draft.named[s][i].id = draft.named[t][j].id
      <4>1. Remap(draft.named[s][i].id) = Remap(draft.named[t][j].id)
        BY <2>2, <2>4
      <4>2. draft.named[s][i].id \in 1..(draft.next - 1)
            /\ draft.named[t][j].id \in 1..(draft.next - 1)
        BY <2>2, <1>7
      <4>3. QED
        BY <4>1, <4>2, <1>1
    <3>2. i \in DOMAIN draft.named[s] /\ j \in DOMAIN draft.named[t]
      BY <2>2
    <3>3. /\ draft.named[s][i].fact.kind = draft.named[t][j].fact.kind
          /\ draft.named[s][i].fact.flavour = draft.named[t][j].fact.flavour
      BY <3>1, <3>2, <1>0 DEF Sound, Contributed
    <3>4. QED
      BY <3>3, <2>2
  <2>5. QED
    BY <2>1, <2>3, <2>4 DEF Contributed
<1>12. ASSUME NEW id \in Ids, NEW kind, NEW defined, NEW flavours
       PROVE  Places(d.named, id, kind, defined, flavours)
                = Places(draft.named, Provisional(id), kind, defined, flavours)
  <2>1. ASSUME NEW p \in Sources \X (1..MaxFacts), p[2] \in DOMAIN draft.named[p[1]]
        PROVE  Says(d.named[p[1]][p[2]], id, kind, defined, flavours)
                 <=> Says(draft.named[p[1]][p[2]], Provisional(id), kind, defined, flavours)
    <3> DEFINE c == draft.named[p[1]][p[2]]
    <3>1. p[1] \in Sources
      OBVIOUS
    <3>2. /\ d.named[p[1]][p[2]] = [id |-> Remap(c.id), fact |-> c.fact]
          /\ c.id \in 1..(draft.next - 1)
      BY <2>1, <3>1, <1>6, <1>7
    <3>3. Remap(c.id) = id <=> c.id = Provisional(id)
      BY <3>2, <1>9
    <3> HIDE DEF c
    <3>4. QED
      BY <3>2, <3>3 DEF Says, c
  <2>2. \A p \in Sources \X (1..MaxFacts) :
          p[2] \in DOMAIN d.named[p[1]] <=> p[2] \in DOMAIN draft.named[p[1]]
    BY <1>6
  <2>3. QED
    BY <2>1, <2>2 DEF Places
<1>13. ASSUME NEW id \in Ids, NEW kind
       PROVE  DefinersIn(d.named, id, kind) = DefinersIn(draft.named, Provisional(id), kind)
  <2>1. ASSUME NEW s \in Sources, NEW i \in DOMAIN draft.named[s]
        PROVE  /\ d.named[s][i].id = id <=> draft.named[s][i].id = Provisional(id)
               /\ d.named[s][i].fact = draft.named[s][i].fact
    <3>1. /\ d.named[s][i] = [id |-> Remap(draft.named[s][i].id),
                              fact |-> draft.named[s][i].fact]
          /\ draft.named[s][i].id \in 1..(draft.next - 1)
      BY <1>6, <1>7
    <3>2. Remap(draft.named[s][i].id) = id <=> draft.named[s][i].id = Provisional(id)
      BY <3>1, <1>9
    <3>3. QED
      BY <3>1, <3>2
  <2>2. QED
    BY <2>1, <1>6 DEF DefinersIn
<1>14. Counted(d)
  <2> SUFFICES ASSUME NEW id \in Ids
               PROVE  /\ CountedBy(d.named, d.counts[id], id)
                      /\ d.entities[id] = NoEntity <=> d.counts[id] = NoCount
    BY DEF Counted
  <2>1. Provisional(id) \in Ids
    BY <1>1
  <2>2. /\ CountedBy(draft.named, draft.counts[Provisional(id)], Provisional(id))
        /\ draft.entities[Provisional(id)] = NoEntity <=> draft.counts[Provisional(id)] = NoCount
    BY <2>1, <1>0 DEF Sound, Counted
  <2>3. QED
    BY <2>2, <1>5, <1>12, <1>13 DEF CountedBy
<1>15. \A n \in Names : graph.identity[n] # 0 => d.identity[n] = graph.identity[n]
  <2> SUFFICES ASSUME NEW n \in Names, graph.identity[n] # 0
               PROVE  d.identity[n] = graph.identity[n]
    OBVIOUS
  <2>1. draft.identity[n] = graph.identity[n] /\ graph.identity[n] < graph.next
        /\ graph.identity[n] \in Nat
    BY <1>0, StateFacts DEF DraftOK, Sound, Identities
  <2>2. Remap(draft.identity[n]) = graph.identity[n]
    BY <2>1 DEF Remap
  <2>3. QED
    BY <2>1, <2>2, <1>4
<1>16. \A id \in NewIds : d.entities[id] # NoEntity
  <2>1. NewIds \subseteq Ids
    BY <1>2 DEF NewIds
  <2>2. QED
    BY <2>1, <1>0, <1>1, <1>5 DEF DraftOK, NewIds
<1>17. ASSUME NEW m \in Names, NEW n \in Names, m < n,
              graph.identity[m] = 0, d.identity[m] # 0,
              graph.identity[n] = 0, d.identity[n] # 0
       PROVE  d.identity[m] < d.identity[n]
  <2>1. ASSUME NEW k \in Names, graph.identity[k] = 0, d.identity[k] # 0
        PROVE  /\ draft.identity[k] \in NewIds
               /\ draft.entities[draft.identity[k]].name = k
               /\ d.identity[k] = Remap(draft.identity[k])
    <3>1. draft.identity[k] # 0 /\ draft.identity[k] \in 1..(draft.next - 1)
      BY <2>1, <1>3, <1>4
    <3>2. draft.identity[k] \in NewIds
      <4>1. ASSUME draft.identity[k] < graph.next
            PROVE  FALSE
        <5>1. draft.identity[k] \in 1..(graph.next - 1)
          BY <3>1, <4>1, <1>2
        <5>2. PICK o \in Names : graph.identity[o] = draft.identity[k]
          BY <5>1, <1>0 DEF Sound, Identities
        <5>3. draft.identity[o] = draft.identity[k]
          BY <5>2, <3>1, <1>0 DEF DraftOK
        <5>4. o = k
          BY <5>3, <3>1, <1>0 DEF Sound, Identities
        <5>5. QED
          BY <5>2, <5>4, <2>1, <3>1
      <4>2. QED
        BY <4>1, <3>1, <1>2 DEF NewIds
    <3>3. draft.entities[draft.identity[k]] # NoEntity /\ draft.identity[k] \in Ids
      BY <3>1, <3>2, <1>0, <1>2 DEF DraftOK, NewIds
    <3>4. draft.entities[draft.identity[k]].name = k
      <4>1. /\ draft.entities[draft.identity[k]].name \in Names
            /\ draft.identity[draft.entities[draft.identity[k]].name] = draft.identity[k]
        BY <3>3, <1>0 DEF Sound, Identities
      <4>2. QED
        BY <4>1, <3>1, <1>0 DEF Sound, Identities
    <3>5. QED
      BY <3>1, <3>2, <3>4, <1>4
  <2>2. \A i, j \in NewIds :
          draft.entities[i].name < draft.entities[j].name => Remap(i) < Remap(j)
    BY <1>0, RemapFacts DEF Sound
  <2> DEFINE i == draft.identity[m]
             j == draft.identity[n]
  <2>3. i \in NewIds /\ draft.entities[i].name = m /\ d.identity[m] = Remap(i)
    BY <2>1, <1>17
  <2>4. j \in NewIds /\ draft.entities[j].name = n /\ d.identity[n] = Remap(j)
    BY <2>1, <1>17
  <2> HIDE DEF i, j
  <2>5. Remap(i) < Remap(j)
    BY <2>2, <2>3, <2>4, <1>17
  <2>6. QED
    BY <2>3, <2>4, <2>5
<1>18. QED
  BY <1>8, <1>10, <1>11, <1>14, <1>15, <1>16, <1>17 DEF Sound

-------------------------------------------------------------------------------
(* The candidate that begin_update makes.                                  *)
BegunDraft(d, mode) ==
  /\ DOMAIN d = DraftFields
  /\ d.full = (mode = "rebuild")
  /\ d.identity = graph.identity /\ d.next = graph.next
  /\ d.touched = {} /\ d.claimed = {} /\ d.source = 0
  /\ mode = "rebuild" =>
       /\ d.entities = EmptyGraph.entities /\ d.types = EmptyGraph.types
       /\ d.slots = 0 /\ d.named = EmptyGraph.named
       /\ d.anonymous = EmptyGraph.anonymous /\ d.counts = EmptyGraph.counts
  /\ mode # "rebuild" =>
       /\ d.entities = graph.entities /\ d.types = graph.types
       /\ d.slots = graph.slots /\ d.named = graph.named
       /\ d.anonymous = graph.anonymous /\ d.counts = graph.counts

(* That is what begin_update makes.                                        *)
LEMMA BegunFields ==
  ASSUME NEW mode, BeginUpdate(mode)
  PROVE  BegunDraft(draft', mode) /\ phase = "idle" /\ phase' = "building" /\ graph' = graph
<1>1. CASE mode = "rebuild"
  BY <1>1 DEF BeginUpdate, BegunDraft, DraftFields, EmptyGraph
<1>2. CASE mode # "rebuild"
  BY <1>2 DEF BeginUpdate, BegunDraft, DraftFields
<1>3. QED
  BY <1>1, <1>2

(* What replace_source takes away.                                         *)
Gone(s) == {draft.named[s][i].id : i \in DOMAIN draft.named[s]}
CountsLeft(s) == [id \in Ids |-> Removed(draft.counts[id], draft.named[s], id)]
Dead(s) == {id \in Gone(s) : CountsLeft(s)[id] = NoCount}
RemovedTypes(s) == {draft.entities[id].type : id \in Dead(s)} \cup draft.anonymous[s]
ChangedTypes(s) == {draft.entities[id].type : id \in Gone(s) \ Dead(s)}
OwnerIn(s, h) == CHOOSE id \in Gone(s) : draft.entities[id].type = h

ReplacedDraft(d, s) ==
  /\ DOMAIN d = DraftFields
  /\ d.full = draft.full /\ d.identity = draft.identity /\ d.next = draft.next
  /\ d.slots = draft.slots /\ d.claimed = draft.claimed
  /\ d.source = s
  /\ d.counts = CountsLeft(s)
  /\ d.entities = [id \in Ids |-> IF id \in Dead(s) THEN NoEntity ELSE draft.entities[id]]
  /\ d.types = [h \in Handles |->
                  IF h \in RemovedTypes(s) THEN NoType
                  ELSE IF h \in ChangedTypes(s)
                  THEN Materialized(CountsLeft(s)[OwnerIn(s, h)], PendingOf(h))
                  ELSE draft.types[h]]
  /\ d.touched = draft.touched \cup RemovedTypes(s) \cup ChangedTypes(s)
  /\ d.named = [draft.named EXCEPT ![s] = <<>>]
  /\ d.anonymous = [draft.anonymous EXCEPT ![s] = {}]

(* That is what replace_source does to the candidate.                      *)
LEMMA ReplacedFields ==
  ASSUME DOMAIN draft = DraftFields, NEW s, ReplaceSource(s)
  PROVE  /\ ReplacedDraft(draft', s)
         /\ phase = "building" /\ phase' = phase /\ graph' = graph /\ s > draft.source
<1>1. /\ CountsLeft(s) = [id \in Ids |-> Removed(draft.counts[id], draft.named[s], id)]
      /\ phase = "building" /\ phase' = phase /\ graph' = graph /\ s > draft.source
  BY DEF CountsLeft, ReplaceSource
<1>2. draft' = [draft EXCEPT
       !.source = s,
       !.counts = CountsLeft(s),
       !.entities = [id \in Ids |-> IF id \in Dead(s) THEN NoEntity ELSE @[id]],
       !.types = [h \in Handles |->
                    IF h \in RemovedTypes(s) THEN NoType
                    ELSE IF h \in ChangedTypes(s)
                    THEN Materialized(CountsLeft(s)[OwnerIn(s, h)], PendingOf(h))
                    ELSE @[h]],
       !.touched = @ \cup RemovedTypes(s) \cup ChangedTypes(s),
       !.named[s] = <<>>,
       !.anonymous[s] = {}]
  BY DEF ReplaceSource, CountsLeft, Gone, Dead, RemovedTypes, ChangedTypes, OwnerIn, Entity
<1>3. ReplacedDraft(draft', s)
  BY <1>2 DEF ReplacedDraft, DraftFields
<1>4. QED
  BY <1>1, <1>3

(* What declare_named_type and declare_named_enum add.                     *)
IdFor(f) == IF draft.identity[f.name] # 0 THEN draft.identity[f.name] ELSE draft.next
Retained(f) ==
  IF draft.entities[IdFor(f)].type # 0 THEN draft.entities[IdFor(f)].type
  ELSE IF draft.full THEN 0 ELSE graph.entities[IdFor(f)].type
SlotsFor(f) ==
  IF Retained(f) # 0 THEN {Retained(f)} ELSE IF draft.full THEN NewSlot ELSE ClaimedSlot

DeclaredDraft(d, f, h) ==
  LET s == draft.source
      id == IdFor(f)
      count == Added(draft.counts[id], s, f)
  IN
  /\ DOMAIN d = DraftFields
  /\ d.full = draft.full /\ d.anonymous = draft.anonymous /\ d.source = s
  /\ d.identity = [draft.identity EXCEPT ![f.name] = id]
  /\ d.next = IF draft.identity[f.name] # 0 THEN draft.next ELSE draft.next + 1
  /\ d.counts = [draft.counts EXCEPT ![id] = count]
  /\ d.named = Contributing(draft.named, s, id, f)
  /\ d.entities = [draft.entities EXCEPT ![id] = [name |-> f.name, type |-> h]]
  /\ d.types = [draft.types EXCEPT ![h] = Materialized(count,
                  IF f.kind = "aggregate" /\ f.defined THEN f.members ELSE PendingOf(h))]
  /\ d.touched = draft.touched \cup {h}
  /\ d.claimed = draft.claimed \cup (SlotsFor(f) \cap FreeSlots \cap {h})
  /\ d.slots = IF h > draft.slots THEN h ELSE draft.slots

(* That is what a declaration does to the candidate, unless it discards    *)
(* it.                                                                     *)
LEMMA DeclaredFields ==
  ASSUME DOMAIN draft = DraftFields, NEW f, Declare(f)
  PROVE  /\ phase = "building" /\ graph' = graph
         /\ draft.source # 0 /\ f.kind # "anonymous" /\ InBuilderOrder(draft.source, f)
         /\ \/ Discard
            \/ /\ phase' = phase
               /\ Accepts(draft.counts[IdFor(f)], f)
               /\ \E h \in SlotsFor(f) \cap Handles : DeclaredDraft(draft', f, h)
<1> DEFINE s == draft.source
           id == IdFor(f)
           count == Added(draft.counts[id], s, f)
<1>1. /\ phase = "building" /\ graph' = graph
      /\ draft.source # 0 /\ f.kind # "anonymous" /\ InBuilderOrder(draft.source, f)
  BY Zenon DEF Declare, Discard
<1>2. \/ Discard
      \/ /\ phase' = phase
         /\ Accepts(draft.counts[id], f)
         /\ \E h \in SlotsFor(f) \cap Handles :
             draft' = [draft EXCEPT
               !.identity[f.name] = id,
               !.next = IF draft.identity[f.name] # 0 THEN @ ELSE @ + 1,
               !.counts[id] = count,
               !.named[s] = Append(@, [id |-> id, fact |-> f]),
               !.entities[id] = [name |-> f.name, type |-> h],
               !.types[h] = Materialized(count,
                              IF f.kind = "aggregate" /\ f.defined
                              THEN f.members ELSE PendingOf(h)),
               !.touched = @ \cup {h},
               !.claimed = @ \cup (SlotsFor(f) \cap FreeSlots \cap {h}),
               !.slots = IF h > @ THEN h ELSE @]
  BY Zenon DEF Declare, IdFor, Retained, SlotsFor, Entity
<1>3. CASE Discard
  BY <1>1, <1>3
<1>4. ASSUME NEW h \in SlotsFor(f) \cap Handles,
             draft' = [draft EXCEPT
               !.identity[f.name] = id,
               !.next = IF draft.identity[f.name] # 0 THEN @ ELSE @ + 1,
               !.counts[id] = count,
               !.named[s] = Append(@, [id |-> id, fact |-> f]),
               !.entities[id] = [name |-> f.name, type |-> h],
               !.types[h] = Materialized(count,
                              IF f.kind = "aggregate" /\ f.defined
                              THEN f.members ELSE PendingOf(h)),
               !.touched = @ \cup {h},
               !.claimed = @ \cup (SlotsFor(f) \cap FreeSlots \cap {h}),
               !.slots = IF h > @ THEN h ELSE @]
      PROVE  DeclaredDraft(draft', f, h)
  BY <1>4, Zenon DEF DeclaredDraft, DraftFields, Contributing
<1>5. QED
  BY <1>1, <1>2, <1>3, <1>4, Zenon

(* What add_anonymous_enum adds.                                           *)
AnonymousDraft(d, f, h) ==
  /\ DOMAIN d = DraftFields
  /\ d.full = draft.full /\ d.identity = draft.identity /\ d.next = draft.next
  /\ d.entities = draft.entities /\ d.counts = draft.counts /\ d.named = draft.named
  /\ d.source = draft.source
  /\ d.types = [draft.types EXCEPT ![h] =
                  [kind |-> "enum", defined |-> TRUE, pending |-> {},
                   members |-> {}, flavour |-> f.flavour]]
  /\ d.touched = draft.touched \cup {h}
  /\ d.claimed = draft.claimed \cup (FreeSlots \cap {h})
  /\ d.slots = IF FreeSlots = {} THEN h ELSE draft.slots
  /\ d.anonymous = [draft.anonymous EXCEPT ![draft.source] = @ \cup {h}]

(* That is what add_anonymous_enum does to the candidate.                  *)
LEMMA AnonymousFields ==
  ASSUME DOMAIN draft = DraftFields, NEW f, AddAnonymous(f)
  PROVE  /\ phase = "building" /\ phase' = phase /\ graph' = graph
         /\ draft.source # 0 /\ f.kind = "anonymous"
         /\ \E h \in ClaimedSlot \cap Handles : AnonymousDraft(draft', f, h)
<1>1. /\ phase = "building" /\ phase' = phase /\ graph' = graph
      /\ draft.source # 0 /\ f.kind = "anonymous"
  BY DEF AddAnonymous
<1>2. PICK h \in ClaimedSlot \cap Handles :
       draft' = [draft EXCEPT
         !.types[h] = [kind |-> "enum", defined |-> TRUE, pending |-> {},
                       members |-> {}, flavour |-> f.flavour],
         !.touched = @ \cup {h},
         !.claimed = @ \cup (FreeSlots \cap {h}),
         !.slots = IF FreeSlots = {} THEN h ELSE @,
         !.anonymous[draft.source] = @ \cup {h}]
  BY DEF AddAnonymous
<1>3. AnonymousDraft(draft', f, h)
  BY <1>2 DEF AnonymousDraft, DraftFields
<1>4. QED
  BY <1>1, <1>3

(* What resolve_pending_members does to a candidate.                       *)
ResolvedDraft(r, d) ==
  /\ DOMAIN r = DraftFields
  /\ r.full = d.full /\ r.identity = d.identity /\ r.next = d.next
  /\ r.entities = d.entities /\ r.slots = d.slots /\ r.named = d.named
  /\ r.anonymous = d.anonymous /\ r.counts = d.counts
  /\ r.touched = d.touched /\ r.claimed = d.claimed /\ r.source = d.source
  /\ r.types = [h \in Handles |->
       IF h \in d.touched
       THEN [d.types[h] EXCEPT !.members = {NameType(n, d) : n \in d.types[h].pending},
                               !.pending = {}]
       ELSE d.types[h]]

(* That is what resolve_pending_members does to the candidate.             *)
LEMMA ResolvedFields ==
  ASSUME NEW d, DOMAIN d = DraftFields
  PROVE  ResolvedDraft(Resolved(d), d)
BY DEF Resolved, ResolvedDraft, DraftFields

(* What publish_prepared commits.                                          *)
Kept == {h \in Handles : draft.full => h <= draft.slots}
KeptTypes == [h \in Handles |-> IF h \in Kept THEN draft.types[h] ELSE NoType]

PublishedGraph(g) ==
  /\ DOMAIN g = GraphFields
  /\ g.identity = draft.identity /\ g.next = draft.next /\ g.entities = draft.entities
  /\ g.types = KeptTypes /\ g.slots = draft.slots
  /\ g.free = IF draft.full THEN {h \in 1..draft.slots : KeptTypes[h] = NoType}
              ELSE (graph.free \ draft.claimed)
                   \cup {h \in draft.touched : KeptTypes[h] = NoType}
  /\ g.deps = [h \in Handles |->
                 IF draft.full \/ h \in draft.touched
                 THEN IF h \in Kept THEN DependenciesOf(h) ELSE {}
                 ELSE graph.deps[h]]
  /\ g.dependents = [h \in Handles |->
                 IF draft.full THEN {o \in Kept : h \in DependenciesOf(o)}
                 ELSE UpdatedDependents(h)]
  /\ g.named = draft.named /\ g.anonymous = draft.anonymous /\ g.counts = draft.counts

(* That is what publish_prepared commits.                                  *)
LEMMA PublishedFields ==
  ASSUME PublishPrepared
  PROVE  PublishedGraph(graph') /\ phase = "prepared" /\ phase' = "idle"
BY DEF PublishPrepared, PublishedGraph, GraphFields, Kept, KeptTypes

-------------------------------------------------------------------------------
(* The record that materialize makes says what the contributions say.      *)
MaterializedAs(m, named, id) ==
  /\ m \in TypeRecord /\ m.kind \in {"aggregate", "enum"} /\ m.members = {}
  /\ \E s \in Sources : \E i \in DOMAIN named[s] :
       /\ named[s][i].id = id
       /\ named[s][i].fact.kind = m.kind /\ named[s][i].fact.flavour = m.flavour
  /\ m.defined <=> DefinersIn(named, id, m.kind) # {}

(* materialize makes a type of what the contributions say of an Entity     *)
(* that has one.                                                           *)
LEMMA MaterializedFacts ==
  ASSUME NEW named \in Nameds, \A s \in Sources : Len(named[s]) <= MaxFacts,
         \A s \in Sources : \A i \in DOMAIN named[s] : named[s][i].fact.kind # "anonymous",
         NEW id \in Ids, NEW count \in Count, CountedBy(named, count, id),
         count # NoCount, NEW pending \in SUBSET Names
  PROVE  /\ MaterializedAs(Materialized(count, pending), named, id)
         /\ Materialized(count, pending).pending \subseteq pending
         /\ Materialized(count, pending).pending # {} =>
              Materialized(count, pending).kind = "aggregate"
<1> DEFINE P(kind, defined, flavours) == Places(named, id, kind, defined, flavours)
<1>1. ASSUME NEW kind, NEW defined, NEW flavours, Cardinality(P(kind, defined, flavours)) # 0
      PROVE  \E s \in Sources : \E i \in DOMAIN named[s] :
               Says(named[s][i], id, kind, defined, flavours)
  <2>1. P(kind, defined, flavours) # {}
    BY <1>1, PlacesNone
  <2>2. PICK p \in P(kind, defined, flavours) : TRUE
    BY <2>1
  <2>3. p[1] \in Sources /\ p[2] \in DOMAIN named[p[1]]
        /\ Says(named[p[1]][p[2]], id, kind, defined, flavours)
    BY <2>2 DEF Places
  <2>4. QED
    BY <2>3
<1>2. /\ count.decls \in Nat /\ count.definition \in Nat /\ count.enumDefinition \in Nat
      /\ \A f \in Flavours : count.enums[f] \in Nat
      /\ 0 \notin Sources
  BY ConstantFacts DEF Count
<1>3. /\ count.decls = Cardinality(P("aggregate", {FALSE}, {"none"}))
      /\ \A f \in Flavours : count.enums[f] = Cardinality(P("enum", BOOLEAN, {f}))
      /\ {count.definition} \ {0} = DefinersIn(named, id, "aggregate")
      /\ {count.enumDefinition} \ {0} = DefinersIn(named, id, "enum")
  BY DEF CountedBy
<1>4. \A s \in Sources : \A i \in DOMAIN named[s] : named[s][i].fact \in Fact
  BY NamedFacts
<1>5. CASE count.decls > 0 \/ count.definition # 0
  <2> DEFINE m == Materialized(count, pending)
  <2>1. m = [kind |-> "aggregate", defined |-> count.definition # 0,
             pending |-> pending, members |-> {}, flavour |-> "none"]
    BY <1>5 DEF Materialized
  <2>2. m \in TypeRecord
    BY <2>1 DEF TypeRecord
  <2>3. \E s \in Sources : \E i \in DOMAIN named[s] :
          named[s][i].id = id /\ named[s][i].fact.kind = "aggregate"
    <3>1. CASE count.decls > 0
      <4>1. \E s \in Sources : \E i \in DOMAIN named[s] :
              Says(named[s][i], id, "aggregate", {FALSE}, {"none"})
        BY <1>1, <1>2, <1>3, <3>1
      <4>2. QED
        BY <4>1 DEF Says
    <3>2. CASE count.definition # 0
      <4>1. count.definition \in DefinersIn(named, id, "aggregate")
        BY <1>3, <3>2
      <4>2. QED
        BY <4>1 DEF DefinersIn
    <3>3. QED
      BY <1>5, <3>1, <3>2
  <2>4. \E s \in Sources : \E i \in DOMAIN named[s] :
          /\ named[s][i].id = id
          /\ named[s][i].fact.kind = "aggregate" /\ named[s][i].fact.flavour = "none"
    BY <2>3, <1>4, FactFacts
  <2>5. count.definition # 0 <=> DefinersIn(named, id, "aggregate") # {}
    BY <1>3
  <2>6. /\ m.kind = "aggregate" /\ m.flavour = "none" /\ m.members = {} /\ m.pending = pending
        /\ m.defined <=> count.definition # 0
    <3>1. m.defined <=> count.definition # 0
      <4> HIDE DEF m
      <4>1. m.defined = (count.definition # 0)
        BY <2>1, Zenon
      <4>2. QED
        BY <4>1, Zenon
    <3>2. QED
      BY <2>1, <3>1
  <2> HIDE DEF m
  <2>7. MaterializedAs(m, named, id)
    BY <2>2, <2>4, <2>5, <2>6 DEF MaterializedAs
  <2>8. QED
    BY <2>6, <2>7 DEF m
<1>6. CASE ~(count.decls > 0 \/ count.definition # 0)
  <2> DEFINE m == Materialized(count, pending)
             g == CHOOSE f \in Flavours : count.enums[f] > 0
  <2>1. m = [kind |-> "enum", defined |-> count.enumDefinition # 0,
             pending |-> {}, members |-> {}, flavour |-> g]
    BY <1>6 DEF Materialized
  <2>2. \E f \in Flavours : count.enums[f] > 0
    <3>1. SUFFICES ASSUME \A f \in Flavours : count.enums[f] = 0
                   PROVE  FALSE
      BY <1>2
    <3>2. count.enumDefinition = 0
      <4>1. SUFFICES ASSUME count.enumDefinition # 0
                     PROVE  FALSE
        OBVIOUS
      <4>2. count.enumDefinition \in DefinersIn(named, id, "enum")
        BY <1>3, <4>1
      <4>3. PICK s \in Sources :
              \E i \in DOMAIN named[s] : named[s][i].id = id /\ named[s][i].fact.kind = "enum"
        BY <4>2 DEF DefinersIn
      <4>a. PICK i \in DOMAIN named[s] :
              named[s][i].id = id /\ named[s][i].fact.kind = "enum"
        BY <4>3
      <4> DEFINE c == named[s][i]
      <4>4. c.fact \in Fact /\ <<s, i>> \in Sources \X (1..MaxFacts)
        BY NamedFacts, ConstantFacts
      <4>5. c.fact.flavour \in Flavours /\ c.fact.defined \in BOOLEAN
        BY <4>a, <4>4, FactFacts
      <4>6. Says(c, id, "enum", BOOLEAN, {c.fact.flavour})
        BY <4>a, <4>5 DEF Says
      <4>7. <<s, i>> \in P("enum", BOOLEAN, {c.fact.flavour})
        BY <4>4, <4>6 DEF Places
      <4>8. count.enums[c.fact.flavour] # 0
        BY <1>3, <4>5, <4>7, PlacesNone
      <4>9. QED
        BY <3>1, <4>5, <4>8
    <3>3. count.decls = 0 /\ count.definition = 0
      BY <1>2, <1>6
    <3>4. count.enums = [f \in Flavours |-> 0]
      BY <3>1 DEF Count
    <3>5. count = NoCount
      BY <3>2, <3>3, <3>4 DEF NoCount, Count
    <3>6. QED
      BY <3>5
  <2>3. g \in Flavours /\ count.enums[g] > 0
    BY <2>2
  <2>4. /\ m.kind = "enum" /\ m.flavour = g /\ m.members = {} /\ m.pending = {}
        /\ m.defined <=> count.enumDefinition # 0
    <3>1. m.defined <=> count.enumDefinition # 0
      <4> HIDE DEF m
      <4>1. m.defined = (count.enumDefinition # 0)
        BY <2>1, Zenon
      <4>2. QED
        BY <4>1, Zenon
    <3>2. QED
      BY <2>1, <3>1
  <2>5. m \in TypeRecord
    BY <2>1, <2>3 DEF TypeRecord
  <2> HIDE DEF m, g
  <2>6. \E s \in Sources : \E i \in DOMAIN named[s] :
          /\ named[s][i].id = id
          /\ named[s][i].fact.kind = "enum" /\ named[s][i].fact.flavour = g
    <3>1. Cardinality(P("enum", BOOLEAN, {g})) # 0
      BY <1>3, <2>3
    <3>2. \E s \in Sources : \E i \in DOMAIN named[s] :
            Says(named[s][i], id, "enum", BOOLEAN, {g})
      BY <1>1, <3>1
    <3>3. QED
      BY <3>2 DEF Says
  <2>7. count.enumDefinition # 0 <=> DefinersIn(named, id, "enum") # {}
    BY <1>3
  <2>8. MaterializedAs(m, named, id)
    BY <2>4, <2>5, <2>6, <2>7 DEF MaterializedAs
  <2>9. QED
    BY <2>4, <2>8 DEF m
<1>7. QED
  BY <1>5, <1>6

(* What is empty but for its names is sound.                               *)
Emptied(d) ==
  /\ d.entities = EmptyGraph.entities /\ d.types = EmptyGraph.types
  /\ d.slots = 0 /\ d.named = EmptyGraph.named
  /\ d.anonymous = EmptyGraph.anonymous /\ d.counts = EmptyGraph.counts

(* Nothing is in a table that is emptied.                                  *)
LEMMA EmptyFacts ==
  /\ \A id \in Ids : EmptyGraph.entities[id] = NoEntity /\ EmptyGraph.counts[id] = NoCount
  /\ \A h \in Handles : EmptyGraph.types[h] = NoType
  /\ \A s \in Sources : EmptyGraph.named[s] = <<>> /\ EmptyGraph.anonymous[s] = {}
  /\ EmptyGraph.entities \in [Ids -> EntityRecord]
  /\ EmptyGraph.types \in [Handles -> TypeRecord]
  /\ EmptyGraph.named \in Nameds
  /\ EmptyGraph.anonymous \in [Sources -> SUBSET Handles]
  /\ EmptyGraph.counts \in [Ids -> Count]
<1>1. NoEntity \in EntityRecord /\ NoType \in TypeRecord
  BY DEF NoEntity, NoType, EntityRecord, TypeRecord
<1>2. NoCount \in Count
  BY DEF NoCount, Count
<1>3. <<>> \in Seq(Contribution)
  OBVIOUS
<1>4. QED
  BY <1>1, <1>2, <1>3 DEF EmptyGraph, Nameds

(* A table without contributions and Entities is sound, whatever names     *)
(* have ids.                                                               *)
LEMMA EmptySound ==
  ASSUME NEW d, Emptied(d),
         \A m, n \in Names : d.identity[m] = d.identity[n] /\ d.identity[m] # 0 => m = n,
         \A n \in Names : d.identity[n] < d.next,
         \A id \in 1..(d.next - 1) : \E n \in Names : d.identity[n] = id
  PROVE  Sound(d)
<1>1. /\ \A id \in Ids : d.entities[id] = NoEntity /\ d.counts[id] = NoCount
      /\ \A s \in Sources : d.named[s] = <<>>
      /\ d.named \in Nameds
  BY EmptyFacts DEF Emptied
<1>2. \A s \in Sources : Len(d.named[s]) = 0 /\ DOMAIN d.named[s] = {}
  BY <1>1
<1>3. Identities(d)
  BY <1>1 DEF Identities
<1>4. Contributed(d)
  BY <1>2, ConstantFacts DEF Contributed
<1>5. ASSUME NEW id \in Ids
      PROVE  CountedBy(d.named, d.counts[id], id)
  <2>1. \A kind, defined, flavours : Places(d.named, id, kind, defined, flavours) = {}
    BY <1>2 DEF Places
  <2>2. \A kind : DefinersIn(d.named, id, kind) = {}
    BY <1>2 DEF DefinersIn
  <2>3. /\ d.counts[id].decls = 0 /\ d.counts[id].definition = 0
        /\ d.counts[id].enumDefinition = 0
        /\ \A f \in Flavours : d.counts[id].enums[f] = 0
    BY <1>1 DEF NoCount
  <2>4. Cardinality({}) = 0
    BY FS_EmptySet
  <2>5. QED
    BY <2>1, <2>2, <2>3, <2>4 DEF CountedBy
<1>6. QED
  BY <1>1, <1>3, <1>4, <1>5 DEF Sound, Counted

(* The graph of a project that was never built, or whose state is invalid. *)
LEMMA BaseInit == Init => BaseInv
<1> SUFFICES ASSUME Init
             PROVE  BaseInv
  OBVIOUS
<1>1. /\ usage \in Usages /\ graph = EmptyGraph /\ phase = "idle" /\ ~Open
  BY DEF Init, Open
<1>2. /\ graph.identity = [n \in Names |-> 0] /\ graph.next = 1 /\ graph.free = {}
      /\ graph.deps = [h \in Handles |-> {}] /\ graph.dependents = [h \in Handles |-> {}]
      /\ Emptied(graph) /\ DOMAIN graph = GraphFields
  BY <1>1 DEF EmptyGraph, Emptied, GraphFields
<1> HIDE DEF EmptyGraph
<1>3. StateOK(graph)
  <2>1. graph.next \in 1..(Cardinality(Names) + 1) /\ graph.slots \in 0..MaxHandles
    BY <1>2, ConstantFacts DEF Emptied
  <2>2. graph.identity \in [Names -> Ids \cup {0}]
    BY <1>2
  <2>3. QED
    BY <1>2, <2>1, <2>2, EmptyFacts DEF Emptied, StateOK, Nameds
<1>4. TypeOK
  <2>1. \A h \in Handles : graph.types[h].pending = {}
    BY <1>2, EmptyFacts DEF Emptied, NoType
  <2>2. QED
    BY <1>1, <1>2, <1>3, <2>1 DEF TypeOK
<1>5. Sound(graph)
  BY <1>2, EmptySound, ConstantFacts
<1>6. QED
  BY <1>1, <1>2, <1>4, <1>5 DEF BaseInv, GraphOK, TypeOK

-------------------------------------------------------------------------------
(* A step that leaves the committed Graph alone keeps BaseInv if it keeps  *)
(* the candidate's part.                                                   *)
LEMMA BaseStep ==
  ASSUME BaseInv, usage' = usage, graph' = graph, phase' \in {"building", "prepared"},
         DraftOK(draft', phase')
  PROVE  BaseInv'
<1>1. usage \in Usages /\ GraphOK
  BY DEF BaseInv
<1>2. GraphOK'
  BY <1>1 DEF GraphOK
<1>3. (DraftOK(draft, phase))'
  BY DEF DraftOK
<1>4. QED
  BY <1>1, <1>2, <1>3 DEF BaseInv, Open

(* A discarded update leaves the Graph as it was.                          *)
LEMMA BaseDiscard ==
  ASSUME BaseInv, usage' = usage, Discard
  PROVE  BaseInv'
<1>1. usage \in Usages /\ GraphOK
  BY DEF BaseInv
<1>2. phase' = "idle" /\ graph' = graph
  BY DEF Discard
<1>3. GraphOK' /\ ~Open'
  BY <1>1, <1>2 DEF GraphOK, Open
<1>4. QED
  BY <1>1, <1>2, <1>3 DEF BaseInv, Open

(* begin_update keeps BaseInv: the candidate is the committed Graph, or    *)
(* its names alone.                                                        *)
LEMMA BaseBegin ==
  ASSUME BaseInv, usage' = usage, NEW mode \in usage.modes, BeginUpdate(mode)
  PROVE  BaseInv'
<1>1. usage \in Usages /\ GraphOK
  BY DEF BaseInv
<1>2. BegunDraft(draft', mode) /\ phase' = "building" /\ graph' = graph
  BY BegunFields
<1> DEFINE d == draft'
<1>3. /\ DOMAIN d = DraftFields
      /\ d.full = (mode = "rebuild")
      /\ d.identity = graph.identity /\ d.next = graph.next
      /\ d.touched = {} /\ d.claimed = {} /\ d.source = 0
  BY <1>2 DEF BegunDraft
<1>4. d.full \in BOOLEAN /\ (d.full <=> mode = "rebuild")
  BY <1>3, Zenon
<1>5. /\ mode = "rebuild" => Emptied(d)
      /\ mode # "rebuild" =>
           /\ d.entities = graph.entities /\ d.types = graph.types
           /\ d.slots = graph.slots /\ d.named = graph.named
           /\ d.anonymous = graph.anonymous /\ d.counts = graph.counts
  BY <1>2 DEF BegunDraft, Emptied
<1> HIDE DEF d
<1>6. StateOK(d)
  <2>1. CASE mode = "rebuild"
    BY <2>1, <1>1, <1>3, <1>5, EmptyFacts, ConstantFacts DEF GraphOK, StateOK, Emptied, Nameds
  <2>2. CASE mode # "rebuild"
    BY <2>2, <1>1, <1>3, <1>5 DEF GraphOK, StateOK
  <2>3. QED
    BY <2>1, <2>2
<1>7. Sound(d)
  <2>1. CASE mode = "rebuild"
    <3>1. Emptied(d)
      BY <2>1, <1>5
    <3>2. /\ \A m, n \in Names : d.identity[m] = d.identity[n] /\ d.identity[m] # 0 => m = n
          /\ \A n \in Names : d.identity[n] < d.next
          /\ \A id \in 1..(d.next - 1) : \E n \in Names : d.identity[n] = id
      BY <1>1, <1>3 DEF GraphOK, Sound, Identities
    <3>3. QED
      BY <3>1, <3>2, EmptySound
  <2>2. CASE mode # "rebuild"
    BY <2>2, <1>1, <1>3, <1>5
       DEF GraphOK, Sound, Identities, Contributed, Counted
  <2>3. QED
    BY <2>1, <2>2
<1>8. graph.next \in Nat
  BY <1>1, StateFacts DEF GraphOK
<1>9. \A h \in Handles : d.types[h].pending = {}
  <2>1. CASE mode = "rebuild"
    BY <2>1, <1>5, EmptyFacts DEF Emptied, NoType
  <2>2. CASE mode # "rebuild"
    BY <2>2, <1>1, <1>5 DEF GraphOK
  <2>3. QED
    BY <2>1, <2>2
<1>10. \A s \in Sources : d.named[s] = IF d.full THEN <<>> ELSE graph.named[s]
  BY <1>4, <1>5, EmptyFacts DEF Emptied
<1>11. d.full => "rebuild" \in usage.modes
  BY <1>4
<1>12. d.next = graph.next /\ graph.next <= d.next /\ graph.next..(d.next - 1) = {}
  BY <1>3, <1>8
<1>13. DraftOK(d, "building")
  BY <1>3, <1>4, <1>6, <1>7, <1>9, <1>10, <1>11, <1>12 DEF DraftOK
<1>14. QED
  BY <1>2, <1>13, BaseStep DEF d

(* The Entities that a replaced Source mentions are old ones, and live.    *)
LEMMA GoneFacts ==
  ASSUME GraphOK, DraftOK(draft, "building"), NEW s \in Sources, s > draft.source,
         NEW id \in Gone(s)
  PROVE  /\ id \in Ids /\ id \in Nat /\ id < graph.next
         /\ draft.counts[id] # NoCount /\ draft.entities[id] # NoEntity
         /\ draft.entities[id].type \in Handles
<1>1. PICK i \in DOMAIN draft.named[s] : draft.named[s][i].id = id
  BY DEF Gone
<1>2. /\ draft.named \in Nameds /\ graph.named \in Nameds
      /\ Sound(draft) /\ Sound(graph) /\ StateOK(draft) /\ StateOK(graph)
  BY StateFacts DEF DraftOK, GraphOK
<1>3. id \in Ids /\ draft.named[s][i].fact \in Fact /\ draft.named[s][i].fact.kind # "anonymous"
  BY <1>1, <1>2, NamedFacts DEF Sound, Contributed
<1>4. draft.named[s] = graph.named[s]
  <2>1. draft.named[s] = IF draft.full THEN <<>> ELSE graph.named[s]
    BY DEF DraftOK
  <2>2. DOMAIN <<>> = {}
    OBVIOUS
  <2>3. QED
    BY <2>1, <2>2, <1>1
<1>5. id < graph.next
  <2>1. graph.identity[graph.named[s][i].fact.name] = id
    BY <1>1, <1>2, <1>4 DEF Sound, Contributed
  <2>2. graph.named[s][i].fact.name \in Names
    BY <1>3, <1>4, FactFacts
  <2>3. QED
    BY <2>1, <2>2, <1>2 DEF Sound, Identities
<1>6. draft.counts[id] # NoCount
  <2>1. CountedBy(draft.named, draft.counts[id], id) /\ draft.counts[id] \in Count
    BY <1>2, <1>3, StateFacts DEF Sound, Counted
  <2>2. /\ \A t \in Sources : Len(draft.named[t]) <= MaxFacts
        /\ \A t \in Sources : \A j \in DOMAIN draft.named[t] :
             draft.named[t][j].fact.kind # "anonymous"
    BY <1>2 DEF Sound, Contributed
  <2>3. draft.counts[id] = NoCount
          <=> \A t \in Sources : \A j \in DOMAIN draft.named[t] : draft.named[t][j].id # id
    BY <1>2, <1>3, <2>1, <2>2, NoCountMeans
  <2>4. QED
    BY <2>3, <1>1
<1>7. draft.entities[id] # NoEntity
  BY <1>2, <1>3, <1>6 DEF Sound, Counted
<1>8. draft.entities[id].type \in Handles
  <2>1. draft.entities[id].type # 0
    BY <1>2, <1>3, <1>7 DEF Sound, Identities
  <2>2. QED
    BY <2>1, <1>2, <1>3, StateFacts
<1>9. QED
  BY <1>3, <1>5, <1>6, <1>7, <1>8, ConstantFacts

(* What is counted after a Source's contributions are taken back.          *)
LEMMA LeftFacts ==
  ASSUME GraphOK, DraftOK(draft, "building"), NEW s \in Sources, NEW id \in Ids
  PROVE  LET after == [draft.named EXCEPT ![s] = <<>>] IN
         /\ after \in Nameds
         /\ CountsLeft(s)[id] \in Count
         /\ CountedBy(after, CountsLeft(s)[id], id)
         /\ CountsLeft(s)[id] = NoCount
              <=> \A t \in Sources : \A i \in DOMAIN after[t] : after[t][i].id # id
         /\ id \notin Gone(s) => CountsLeft(s)[id] = draft.counts[id]
<1> DEFINE after == [draft.named EXCEPT ![s] = <<>>]
<1>1. draft.named \in Nameds /\ Sound(draft) /\ StateOK(draft)
  BY StateFacts DEF DraftOK
<1>2. /\ \A t \in Sources : Len(draft.named[t]) <= MaxFacts
      /\ \A t \in Sources : \A j \in DOMAIN draft.named[t] :
           draft.named[t][j].fact.kind # "anonymous"
  BY <1>1 DEF Sound, Contributed
<1>3. CountedBy(draft.named, draft.counts[id], id) /\ draft.counts[id] \in Count
  BY <1>1, StateFacts DEF Sound, Counted
<1>4. CountsLeft(s)[id] = Removed(draft.counts[id], draft.named[s], id)
  BY DEF CountsLeft
<1>5. CountedBy(after, CountsLeft(s)[id], id) /\ CountsLeft(s)[id] \in Count
  BY <1>1, <1>2, <1>3, <1>4, RemovedCounts
<1>6. after \in Nameds /\ after[s] = <<>> /\ \A t \in Sources : t # s => after[t] = draft.named[t]
  BY <1>1 DEF Nameds
<1>7. DOMAIN after[s] = {} /\ Len(after[s]) = 0
  BY <1>6
<1> HIDE DEF after
<1>8. /\ \A t \in Sources : Len(after[t]) <= MaxFacts
      /\ \A t \in Sources : \A j \in DOMAIN after[t] : after[t][j].fact.kind # "anonymous"
  BY <1>2, <1>6, <1>7, ConstantFacts
<1>9. CountsLeft(s)[id] = NoCount
        <=> \A t \in Sources : \A i \in DOMAIN after[t] : after[t][i].id # id
  BY <1>5, <1>6, <1>8, NoCountMeans
<1>10. ASSUME id \notin Gone(s)
       PROVE  CountsLeft(s)[id] = draft.counts[id]
  <2> DEFINE old == draft.counts[id]
             list == draft.named[s]
  <2>1. \A i \in DOMAIN draft.named[s] : draft.named[s][i].id # id
    BY <1>10 DEF Gone
  <2>2. \A kind, defined, flavours : CountIn(list, id, kind, defined, flavours) = 0
    BY <1>1, <1>2, <2>1, CountUnmentioned
  <2>3. /\ old.decls \in Nat /\ old.enums \in [Flavours -> Nat]
        /\ old = [decls |-> old.decls, definition |-> old.definition,
                  enums |-> old.enums, enumDefinition |-> old.enumDefinition]
    BY <1>3 DEF Count
  <2> HIDE DEF old, list
  <2>4. \A f \in Flavours : old.enums[f] - 0 = old.enums[f]
    BY <2>3
  <2>5. [f \in Flavours |-> old.enums[f] - 0] = old.enums
    BY <2>3, <2>4
  <2>6. Removed(old, list, id) = old
    BY <2>2, <2>3, <2>5 DEF Removed
  <2>7. QED
    BY <2>6, <1>4 DEF old, list
<1>11. QED
  BY <1>5, <1>6, <1>9, <1>10 DEF after

(* replace_source keeps BaseInv: it takes back what the Source's           *)
(* contributions were counted for.                                         *)
LEMMA BaseReplace ==
  ASSUME BaseInv, usage' = usage, NEW s \in Sources, ReplaceSource(s)
  PROVE  BaseInv'
<1>1. GraphOK /\ DraftOK(draft, "building")
  BY DEF BaseInv, ReplaceSource, Open
<1>2. /\ ReplacedDraft(draft', s)
      /\ phase = "building" /\ phase' = phase /\ graph' = graph /\ s > draft.source
  BY <1>1, ReplacedFields DEF DraftOK
<1> DEFINE d == draft'
           after == [draft.named EXCEPT ![s] = <<>>]
<1>3. /\ DOMAIN d = DraftFields
      /\ d.full = draft.full /\ d.identity = draft.identity /\ d.next = draft.next
      /\ d.slots = draft.slots /\ d.claimed = draft.claimed
      /\ d.source = s
      /\ d.named = after
      /\ d.anonymous = [draft.anonymous EXCEPT ![s] = {}]
      /\ d.touched = draft.touched \cup RemovedTypes(s) \cup ChangedTypes(s)
  BY <1>2 DEF ReplacedDraft
<1>4. /\ d.counts = CountsLeft(s)
      /\ d.entities = [id \in Ids |-> IF id \in Dead(s) THEN NoEntity ELSE draft.entities[id]]
  BY <1>2 DEF ReplacedDraft
<1>5. d.types = [h \in Handles |->
                  IF h \in RemovedTypes(s) THEN NoType
                  ELSE IF h \in ChangedTypes(s)
                  THEN Materialized(CountsLeft(s)[OwnerIn(s, h)], PendingOf(h))
                  ELSE draft.types[h]]
  BY <1>2 DEF ReplacedDraft
<1> HIDE DEF d
<1>6. /\ StateOK(graph) /\ StateOK(draft) /\ Sound(draft) /\ draft.named \in Nameds
      /\ draft.anonymous \in [Sources -> SUBSET Handles]
  BY <1>1, StateFacts DEF GraphOK, DraftOK, StateOK
<1>7. \A id \in Gone(s) :
        /\ id \in Ids /\ id \in Nat /\ id < graph.next
        /\ draft.counts[id] # NoCount /\ draft.entities[id] # NoEntity
        /\ draft.entities[id].type \in Handles
  BY <1>1, <1>2, GoneFacts
<1>8. /\ after \in Nameds
      /\ \A id \in Ids :
           /\ d.counts[id] \in Count
           /\ CountedBy(after, d.counts[id], id)
           /\ d.counts[id] = NoCount
                <=> \A t \in Sources : \A i \in DOMAIN after[t] : after[t][i].id # id
           /\ id \notin Gone(s) => d.counts[id] = draft.counts[id]
  <2>1. Sources # {}
    OBVIOUS
  <2>2. after \in Nameds
    BY <1>6 DEF Nameds
  <2>3. QED
    BY <1>1, <1>4, <2>2, LeftFacts
<1>9. after[s] = <<>> /\ \A t \in Sources : t # s => after[t] = draft.named[t]
  BY <1>6 DEF Nameds
<1>10. DOMAIN after[s] = {} /\ Len(after[s]) = 0
  BY <1>9
<1> HIDE DEF after
<1>11. \A id \in Ids : id \in Dead(s) <=> id \in Gone(s) /\ d.counts[id] = NoCount
  BY <1>4 DEF Dead
<1>12. /\ Dead(s) \subseteq Gone(s)
       /\ RemovedTypes(s) \subseteq Handles /\ ChangedTypes(s) \subseteq Handles
  BY <1>6, <1>7 DEF Dead, RemovedTypes, ChangedTypes
<1>13. \A id \in Ids : d.entities[id] = IF id \in Dead(s) THEN NoEntity ELSE draft.entities[id]
  BY <1>4
<1>14. Contributed(d)
  <2>1. \A t \in Sources : Len(after[t]) <= MaxFacts
    BY <1>6, <1>9, <1>10, ConstantFacts DEF Sound, Contributed
  <2>2. \A t \in Sources : \A i \in DOMAIN after[t] :
          t # s /\ i \in DOMAIN draft.named[t] /\ after[t][i] = draft.named[t][i]
    BY <1>9, <1>10
  <2>3. ASSUME NEW t \in Sources, NEW i \in DOMAIN after[t]
        PROVE  /\ after[t][i].fact.kind # "anonymous"
               /\ draft.identity[after[t][i].fact.name] = after[t][i].id
    BY <1>6, <2>2 DEF Sound, Contributed
  <2>4. ASSUME NEW t \in Sources, NEW u \in Sources, NEW i \in DOMAIN after[t],
               NEW j \in DOMAIN after[u], after[t][i].id = after[u][j].id
        PROVE  /\ after[t][i].fact.kind = after[u][j].fact.kind
               /\ after[t][i].fact.flavour = after[u][j].fact.flavour
    <3>1. /\ i \in DOMAIN draft.named[t] /\ after[t][i] = draft.named[t][i]
          /\ j \in DOMAIN draft.named[u] /\ after[u][j] = draft.named[u][j]
      BY <2>2
    <3>2. draft.named[t][i].id = draft.named[u][j].id
      BY <3>1, <2>4
    <3>3. /\ draft.named[t][i].fact.kind = draft.named[u][j].fact.kind
          /\ draft.named[t][i].fact.flavour = draft.named[u][j].fact.flavour
      BY <3>1, <3>2, <1>6 DEF Sound, Contributed
    <3>4. QED
      BY <3>1, <3>3
  <2>5. QED
    BY <1>3, <2>1, <2>3, <2>4 DEF Contributed
<1>15. Counted(d)
  <2> SUFFICES ASSUME NEW id \in Ids
               PROVE  d.entities[id] = NoEntity <=> d.counts[id] = NoCount
    BY <1>3, <1>8 DEF Counted
  <2>1. draft.entities[id] = NoEntity <=> draft.counts[id] = NoCount
    BY <1>6 DEF Sound, Counted
  <2>2. CASE id \in Dead(s)
    BY <2>2, <1>11, <1>13
  <2>3. CASE id \in Gone(s) \ Dead(s)
    BY <2>3, <1>7, <1>11, <1>13
  <2>4. CASE id \notin Gone(s)
    BY <2>1, <2>4, <1>8, <1>12, <1>13
  <2>5. QED
    BY <2>2, <2>3, <2>4
<1>16. Identities(d)
  BY <1>3, <1>6, <1>13 DEF Sound, Identities
<1>17. ASSUME NEW h \in ChangedTypes(s), h \notin RemovedTypes(s)
       PROVE  /\ Materialized(d.counts[OwnerIn(s, h)], PendingOf(h)) \in TypeRecord
              /\ OwnerIn(s, h) \in Ids
              /\ draft.entities[OwnerIn(s, h)].type = h
              /\ MaterializedAs(Materialized(d.counts[OwnerIn(s, h)], PendingOf(h)),
                                after, OwnerIn(s, h))
  <2> DEFINE id == OwnerIn(s, h)
  <2>1. id \in Gone(s) /\ draft.entities[id].type = h
    BY DEF ChangedTypes, OwnerIn
  <2>2. id \notin Dead(s)
    BY <1>17, <2>1 DEF RemovedTypes
  <2>3. id \in Ids /\ d.counts[id] # NoCount
    BY <2>1, <2>2, <1>7, <1>11
  <2> HIDE DEF id
  <2>4. PendingOf(h) \in SUBSET Names
    <3>1. draft.types[h] \in TypeRecord
      BY <1>6, <1>12, StateFacts
    <3>2. QED
      BY <3>1 DEF PendingOf, TypeRecord
  <2>5. /\ \A t \in Sources : Len(after[t]) <= MaxFacts
        /\ \A t \in Sources : \A j \in DOMAIN after[t] : after[t][j].fact.kind # "anonymous"
    BY <1>3, <1>14 DEF Contributed
  <2>6. MaterializedAs(Materialized(d.counts[id], PendingOf(h)), after, id)
    BY <2>3, <2>4, <2>5, <1>8, MaterializedFacts
  <2>7. Materialized(d.counts[id], PendingOf(h)) \in TypeRecord
    BY <2>6 DEF MaterializedAs
  <2>8. QED
    BY <2>1, <2>3, <2>6, <2>7 DEF id
<1>18. StateOK(d)
  <2>1. d.identity \in [Names -> Ids \cup {0}] /\ d.next \in 1..(Cardinality(Names) + 1)
        /\ d.slots \in 0..MaxHandles /\ d.named \in [Sources -> Seq(Contribution)]
    BY <1>3, <1>6, <1>8 DEF StateOK, Nameds
  <2>2. d.entities \in [Ids -> EntityRecord]
    <3>1. NoEntity \in EntityRecord
      BY DEF NoEntity, EntityRecord
    <3>2. \A id \in Ids : d.entities[id] \in EntityRecord
      BY <3>1, <1>6, <1>13, StateFacts
    <3>3. QED
      BY <3>2, <1>4
  <2>3. d.counts \in [Ids -> Count]
    BY <1>4, <1>8 DEF CountsLeft
  <2>4. d.anonymous \in [Sources -> SUBSET Handles]
    BY <1>3, <1>6
  <2>5. d.types \in [Handles -> TypeRecord]
    <3>1. NoType \in TypeRecord
      BY DEF NoType, TypeRecord
    <3>2. ASSUME NEW h \in Handles
          PROVE  d.types[h] \in TypeRecord
      <4>1. draft.types[h] \in TypeRecord
        BY <1>6, StateFacts
      <4>2. d.types[h] = IF h \in RemovedTypes(s) THEN NoType
                         ELSE IF h \in ChangedTypes(s)
                         THEN Materialized(d.counts[OwnerIn(s, h)], PendingOf(h))
                         ELSE draft.types[h]
        BY <1>4, <1>5
      <4>3. QED
        BY <3>1, <4>1, <4>2, <1>17
    <3>3. QED
      BY <3>2, <1>5
  <2>6. QED
    BY <2>1, <2>2, <2>3, <2>4, <2>5 DEF StateOK
<1>19. \A id \in graph.next..(d.next - 1) : d.entities[id] # NoEntity
  <2> SUFFICES ASSUME NEW id \in graph.next..(d.next - 1)
               PROVE  d.entities[id] # NoEntity
    OBVIOUS
  <2>1. draft.entities[id] # NoEntity
    BY <1>1, <1>3 DEF DraftOK
  <2>2. graph.next \in Nat \ {0} /\ draft.next \in Nat /\ id \in 1..(draft.next - 1)
    BY <1>3, <1>6, StateFacts
  <2>3. id \in Ids
    BY <2>2, <1>6, StateFacts
  <2>4. id \notin Dead(s)
    BY <2>2, <1>7, <1>12
  <2>5. QED
    BY <2>1, <2>3, <2>4, <1>13
<1>20. \A h \in Handles : h \notin d.touched => d.types[h].pending = {}
  <2> SUFFICES ASSUME NEW h \in Handles, h \notin d.touched
               PROVE  d.types[h].pending = {}
    OBVIOUS
  <2>1. h \notin draft.touched /\ h \notin RemovedTypes(s) /\ h \notin ChangedTypes(s)
    BY <1>3
  <2>2. d.types[h] = draft.types[h]
    BY <2>1, <1>5
  <2>3. QED
    BY <2>1, <2>2, <1>1 DEF DraftOK
<1>21. \A t \in Sources : t > d.source =>
         d.named[t] = IF d.full THEN <<>> ELSE graph.named[t]
  <2> SUFFICES ASSUME NEW t \in Sources, t > s
               PROVE  after[t] = IF draft.full THEN <<>> ELSE graph.named[t]
    BY <1>3
  <2>1. t > draft.source /\ t # s
    BY <1>1, <1>2, ConstantFacts DEF DraftOK
  <2>2. after[t] = draft.named[t]
    BY <2>1, <1>9
  <2>3. QED
    BY <2>1, <2>2, <1>1 DEF DraftOK
<1>22. DraftOK(d, "building")
  <2>1. Sound(d)
    BY <1>14, <1>15, <1>16 DEF Sound
  <2>2. d.touched \subseteq Handles
    BY <1>1, <1>3, <1>12 DEF DraftOK
  <2>3. QED
    BY <1>1, <1>3, <1>18, <1>19, <1>20, <1>21, <2>1, <2>2 DEF DraftOK
<1>23. QED
  BY <1>2, <1>22, BaseStep DEF d

(* There is an id for a name that has none.                                *)
LEMMA FreshId ==
  ASSUME StateOK(draft), Identities(draft), NEW n \in Names, draft.identity[n] = 0
  PROVE  draft.next \in Ids /\ draft.next + 1 \in 1..(Cardinality(Names) + 1)
<1> DEFINE S == {m \in Names : draft.identity[m] # 0}
           g == [m \in S |-> draft.identity[m]]
           B == 1..(draft.next - 1)
<1>1. /\ draft.next \in Nat \ {0} /\ Cardinality(Names) \in Nat
      /\ \A m \in Names : draft.identity[m] \in Nat
  BY StateFacts, ConstantFacts
<1>2. S \subseteq Names /\ n \notin S /\ IsFiniteSet(Names)
  BY CanonicalGraphAssumption
<1>3. IsFiniteSet(B) /\ Cardinality(B) = draft.next - 1
  <2>1. 1 \in Int /\ draft.next - 1 \in Int
    BY <1>1
  <2>2. IsFiniteSet(B) /\ Cardinality(B) = IF 1 > draft.next - 1 THEN 0 ELSE (draft.next - 1) - 1 + 1
    BY <2>1, FS_Interval
  <2> HIDE DEF B
  <2>3. QED
    BY <1>1, <2>2
<1>4. \A m \in S : g[m] \in B
  BY <1>1 DEF Identities
<1>5. \A m, o \in S : g[m] = g[o] => m = o
  BY DEF Identities
<1>6. \A id \in B : \E m \in S : g[m] = id
  <2> TAKE id \in B
  <2>1. PICK m \in Names : draft.identity[m] = id
    BY DEF Identities
  <2>2. m \in S
    BY <2>1
  <2>3. QED
    BY <2>1, <2>2
<1>7. g \in [S -> B]
  BY <1>4
<1> HIDE DEF g, S, B
<1>8. g \in Bijection(S, B)
  BY <1>5, <1>6, <1>7 DEF Bijection, Injection, Surjection, IsInjective
<1>9. ExistsBijection(S, B)
  BY <1>8 DEF ExistsBijection
<1>10. IsFiniteSet(S)
  BY <1>2, FS_Subset
<1>11. Cardinality(S) = Cardinality(B)
  BY <1>9, <1>10, FS_Bijection
<1>12. Cardinality(S) < Cardinality(Names)
  BY <1>2, SubsetSize
<1>13. draft.next - 1 < Cardinality(Names)
  BY <1>3, <1>11, <1>12
<1>14. QED
  BY <1>1, <1>13 DEF Ids

(* A slot that an update may claim.                                        *)
LEMMA RoomFacts ==
  ASSUME DraftOK(draft, "building"), draft.source # 0,
         NEW f, InBuilderOrder(draft.source, f)
  PROVE  draft.source \in Sources /\ Len(draft.named[draft.source]) < MaxFacts
<1> DEFINE s == draft.source
<1>1. s \in Sources
  BY DEF DraftOK
<1>2. draft.anonymous[s] \subseteq Handles /\ Len(draft.named[s]) \in Nat
  <2>1. draft.named \in Nameds /\ draft.anonymous \in [Sources -> SUBSET Handles]
    BY StateFacts DEF DraftOK, StateOK
  <2>2. QED
    BY <1>1, <2>1, NamedFacts
<1>3. IsFiniteSet(Handles)
  BY ConstantFacts, FS_Interval DEF Handles
<1>4. Cardinality(draft.anonymous[s]) \in Nat
  BY <1>2, <1>3, FS_Subset, FS_CardinalityType
<1>5. Len(draft.named[s]) + Cardinality(draft.anonymous[s]) < MaxFacts
  BY DEF InBuilderOrder
<1>6. QED
  BY <1>1, <1>2, <1>4, <1>5, ConstantFacts

(* A declaration keeps BaseInv: it is counted once, under the id of its    *)
(* name, new or known.                                                     *)
LEMMA BaseDeclare ==
  ASSUME BaseInv, usage' = usage, NEW f \in usage.facts, Declare(f)
  PROVE  BaseInv'
<1>1. GraphOK /\ DraftOK(draft, "building") /\ usage \in Usages
  BY Zenon DEF BaseInv, Declare, Open
<1>2. /\ phase = "building" /\ graph' = graph
      /\ draft.source # 0 /\ f.kind # "anonymous" /\ InBuilderOrder(draft.source, f)
      /\ \/ Discard
         \/ /\ phase' = phase
            /\ Accepts(draft.counts[IdFor(f)], f)
            /\ \E h \in SlotsFor(f) \cap Handles : DeclaredDraft(draft', f, h)
  BY <1>1, DeclaredFields DEF DraftOK
<1>3. CASE Discard
  BY <1>3, BaseDiscard
<1>4. ASSUME phase' = phase, Accepts(draft.counts[IdFor(f)], f),
             NEW h \in SlotsFor(f) \cap Handles, DeclaredDraft(draft', f, h)
      PROVE  BaseInv'
  <2> DEFINE d == draft'
             s == draft.source
             id == IdFor(f)
             known == draft.identity[f.name]
             count == Added(draft.counts[id], s, f)
             after == Contributing(draft.named, s, id, f)
             pending == IF f.kind = "aggregate" /\ f.defined THEN f.members ELSE PendingOf(h)
  <2>1. /\ DOMAIN d = DraftFields
        /\ d.full = draft.full /\ d.anonymous = draft.anonymous /\ d.source = s
        /\ d.identity = [draft.identity EXCEPT ![f.name] = id]
        /\ d.next = IF known # 0 THEN draft.next ELSE draft.next + 1
        /\ d.counts = [draft.counts EXCEPT ![id] = count]
        /\ d.named = after
        /\ d.entities = [draft.entities EXCEPT ![id] = [name |-> f.name, type |-> h]]
        /\ d.types = [draft.types EXCEPT ![h] = Materialized(count, pending)]
        /\ d.touched = draft.touched \cup {h}
        /\ d.claimed = draft.claimed \cup (SlotsFor(f) \cap FreeSlots \cap {h})
        /\ d.slots = IF h > draft.slots THEN h ELSE draft.slots
    BY <1>4 DEF DeclaredDraft
  <2> HIDE DEF d
  <2>2. /\ StateOK(graph) /\ StateOK(draft) /\ Sound(draft) /\ draft.named \in Nameds
        /\ Identities(draft) /\ Contributed(draft) /\ Counted(draft)
    BY <1>1, StateFacts DEF GraphOK, DraftOK, Sound
  <2>3. f \in Fact /\ f.name \in Names /\ f.members \subseteq Names
    BY <1>1, <1>2, FactFacts, CanonicalGraphAssumption
  <2>4. s \in Sources /\ Len(draft.named[s]) < MaxFacts
    BY <1>1, <1>2, RoomFacts
  <2>5. /\ id = IF known # 0 THEN known ELSE draft.next
        /\ known \in Nat /\ known < draft.next
        /\ draft.next \in Nat \ {0} /\ graph.next \in Nat \ {0} /\ graph.next <= draft.next
    BY <1>1, <2>2, <2>3, StateFacts DEF IdFor, Identities, DraftOK
  <2>6. id \in Ids /\ d.next \in 1..(Cardinality(Names) + 1) /\ id < d.next
        /\ d.next \in Nat /\ id \in Nat
    <3>1. CASE known # 0
      <4>1. known \in Ids \cup {0} /\ draft.next \in 1..(Cardinality(Names) + 1)
        BY <2>2, <2>3, StateFacts
      <4>2. QED
        BY <3>1, <4>1, <2>1, <2>5
    <3>2. CASE known = 0
      <4>1. draft.next \in Ids /\ draft.next + 1 \in 1..(Cardinality(Names) + 1)
        BY <3>2, <2>2, <2>3, FreshId
      <4>2. QED
        BY <3>2, <4>1, <2>1, <2>5
    <3>3. QED
      BY <3>1, <3>2
  <2> HIDE DEF id
  <2>7. /\ count \in Count
        /\ CountedBy(after, count, id)
    <3>1. CountedBy(draft.named, draft.counts[id], id) /\ draft.counts[id] \in Count
      BY <2>2, <2>6, StateFacts DEF Counted
    <3>2. Accepts(draft.counts[id], f)
      BY <1>4 DEF id
    <3>3. QED
      BY <1>2, <2>2, <2>3, <2>4, <2>6, <3>1, <3>2, AddedCounts
  <2>8. /\ after \in Nameds
        /\ \A t \in Sources : t # s => after[t] = draft.named[t]
        /\ DOMAIN after[s] = 1..(Len(draft.named[s]) + 1)
        /\ Len(after[s]) = Len(draft.named[s]) + 1
        /\ \A i \in DOMAIN draft.named[s] : after[s][i] = draft.named[s][i]
        /\ after[s][Len(draft.named[s]) + 1] = [id |-> id, fact |-> f]
    BY <2>2, <2>3, <2>4, <2>6, ContributingFacts
  <2> DEFINE last == Len(draft.named[s]) + 1
  <2>9. DOMAIN draft.named[s] = 1..Len(draft.named[s]) /\ Len(draft.named[s]) \in Nat
    BY <2>2, <2>4, NamedFacts
  <2> HIDE DEF after, count, pending
  <2>10. last \in DOMAIN after[s]
    BY <2>8, <2>9
  <2>11. ASSUME NEW t \in Sources, NEW i \in DOMAIN after[t]
         PROVE  \/ t = s /\ i = last /\ after[t][i] = [id |-> id, fact |-> f]
                \/ i \in DOMAIN draft.named[t] /\ after[t][i] = draft.named[t][i]
    <3>1. CASE t # s
      BY <3>1, <2>8
    <3>2. CASE t = s
      BY <3>2, <2>8, <2>9
    <3>3. QED
      BY <3>1, <3>2
  <2>12. \A n \in Names : d.identity[n] = IF n = f.name THEN id ELSE draft.identity[n]
    BY <2>1, <2>2 DEF StateOK
  <2>13. \A o \in Ids : d.entities[o] = IF o = id THEN [name |-> f.name, type |-> h]
                                        ELSE draft.entities[o]
    BY <2>1, <2>2 DEF StateOK
  <2>14. \A o \in Ids : d.counts[o] = IF o = id THEN count ELSE draft.counts[o]
    BY <2>1, <2>2 DEF StateOK
  <2>15. h \in Handles /\ h # 0
    BY DEF Handles
  <2>16. Identities(d)
    <3>1. \A n \in Names : n # f.name => draft.identity[n] # id
      <4> SUFFICES ASSUME NEW n \in Names, n # f.name
                   PROVE  draft.identity[n] # id
        OBVIOUS
      <4>1. CASE known # 0
        BY <4>1, <2>2, <2>3, <2>5 DEF Identities
      <4>2. CASE known = 0
        <5>1. draft.identity[n] < draft.next /\ draft.identity[n] \in Nat
          BY <2>2, StateFacts DEF Identities
        <5>2. QED
          BY <4>2, <5>1, <2>5
      <4>3. QED
        BY <4>1, <4>2
    <3>2. ASSUME NEW m \in Names, NEW n \in Names, d.identity[m] = d.identity[n],
                 d.identity[m] # 0
          PROVE  m = n
      <4>1. CASE m # f.name /\ n # f.name
        BY <4>1, <3>2, <2>2, <2>12 DEF Identities
      <4>2. CASE m = f.name \/ n = f.name
        BY <4>2, <3>1, <3>2, <2>3, <2>12
      <4>3. QED
        BY <4>1, <4>2
    <3>3. \A n \in Names : d.identity[n] < d.next
      <4> SUFFICES ASSUME NEW n \in Names
                   PROVE  d.identity[n] < d.next
        OBVIOUS
      <4>1. draft.identity[n] \in Nat /\ draft.identity[n] < draft.next
        BY <2>2, StateFacts DEF Identities
      <4>2. draft.next <= d.next
        BY <2>1, <2>5
      <4>3. QED
        BY <4>1, <4>2, <2>5, <2>6, <2>12
    <3>4. ASSUME NEW o \in 1..(d.next - 1)
          PROVE  \E n \in Names : d.identity[n] = o
      <4>1. CASE o = id
        BY <4>1, <2>3, <2>12
      <4>2. CASE o # id
        <5>1. o \in 1..(draft.next - 1)
          BY <4>2, <2>1, <2>5
        <5>2. PICK n \in Names : draft.identity[n] = o
          BY <5>1, <2>2 DEF Identities
        <5>3. n # f.name
          BY <4>2, <5>1, <5>2, <2>5
        <5>4. QED
          BY <5>2, <5>3, <2>12
      <4>3. QED
        BY <4>1, <4>2
    <3>5. ASSUME NEW o \in Ids, d.entities[o] # NoEntity
          PROVE  /\ d.entities[o].name \in Names /\ d.entities[o].type # 0
                 /\ d.identity[d.entities[o].name] = o
      <4>1. CASE o = id
        BY <4>1, <2>3, <2>12, <2>13, <2>15
      <4>2. CASE o # id
        <5>1. d.entities[o] = draft.entities[o]
          BY <4>2, <2>13
        <5>2. /\ draft.entities[o].name \in Names /\ draft.entities[o].type # 0
              /\ draft.identity[draft.entities[o].name] = o
          BY <3>5, <5>1, <2>2 DEF Identities
        <5>3. o \in Nat \ {0}
          BY ConstantFacts
        <5>4. draft.entities[o].name # f.name
          BY <4>2, <5>2, <5>3, <2>5
        <5>5. QED
          BY <5>1, <5>2, <5>4, <2>12
      <4>3. QED
        BY <4>1, <4>2
    <3>6. QED
      BY <3>2, <3>3, <3>4, <3>5 DEF Identities
  <2>17. Contributed(d)
    <3>1. \A t \in Sources : Len(after[t]) <= MaxFacts
      <4>1. \A t \in Sources : Len(draft.named[t]) <= MaxFacts
        BY <2>2 DEF Contributed
      <4>2. QED
        BY <4>1, <2>4, <2>8, <2>9, ConstantFacts
    <3>2. ASSUME NEW t \in Sources, NEW i \in DOMAIN draft.named[t]
          PROVE  /\ draft.named[t][i].fact.kind # "anonymous"
                 /\ d.identity[draft.named[t][i].fact.name] = draft.named[t][i].id
                 /\ draft.named[t][i].id = id =>
                      /\ draft.named[t][i].fact.kind = f.kind
                      /\ draft.named[t][i].fact.flavour = f.flavour
      <4> DEFINE c == draft.named[t][i]
      <4>1. /\ c.fact.kind # "anonymous" /\ draft.identity[c.fact.name] = c.id
            /\ c.id \in Ids /\ c.fact \in Fact
        BY <2>2, NamedFacts DEF Contributed
      <4>2. c.fact.name \in Names /\ c.id # 0
        BY <4>1, FactFacts, ConstantFacts
      <4>3. d.identity[c.fact.name] = c.id
        BY <4>1, <4>2, <2>5, <2>12
      <4>4. ASSUME c.id = id
            PROVE  c.fact.kind = f.kind /\ c.fact.flavour = f.flavour
        <5>1. CountedBy(draft.named, draft.counts[id], c.id) /\ draft.counts[id] \in Count
          BY <4>4, <2>2, <2>6, StateFacts DEF Counted
        <5>2. Accepts(draft.counts[id], f)
          BY <1>4 DEF id
        <5>3. Len(draft.named[t]) <= MaxFacts
          BY <2>2 DEF Contributed
        <5>4. QED
          BY <1>2, <2>2, <2>3, <4>1, <5>1, <5>2, <5>3, AcceptedAgrees
      <4>5. QED
        BY <4>1, <4>3, <4>4
    <3>3. ASSUME NEW t \in Sources, NEW i \in DOMAIN after[t]
          PROVE  /\ after[t][i].fact.kind # "anonymous"
                 /\ d.identity[after[t][i].fact.name] = after[t][i].id
                 /\ after[t][i].id = id =>
                      /\ after[t][i].fact.kind = f.kind
                      /\ after[t][i].fact.flavour = f.flavour
                 /\ after[t][i].id # id =>
                      i \in DOMAIN draft.named[t] /\ after[t][i] = draft.named[t][i]
      <4>1. CASE after[t][i] = [id |-> id, fact |-> f]
        BY <4>1, <1>2, <2>3, <2>12
      <4>2. CASE i \in DOMAIN draft.named[t] /\ after[t][i] = draft.named[t][i]
        BY <4>2, <3>2
      <4>3. QED
        BY <4>1, <4>2, <2>11
    <3>4. ASSUME NEW t \in Sources, NEW u \in Sources, NEW i \in DOMAIN after[t],
                 NEW j \in DOMAIN after[u], after[t][i].id = after[u][j].id
          PROVE  /\ after[t][i].fact.kind = after[u][j].fact.kind
                 /\ after[t][i].fact.flavour = after[u][j].fact.flavour
      <4>1. CASE after[t][i].id = id
        BY <4>1, <3>3, <3>4
      <4>2. CASE after[t][i].id # id
        <5>1. /\ i \in DOMAIN draft.named[t] /\ after[t][i] = draft.named[t][i]
              /\ j \in DOMAIN draft.named[u] /\ after[u][j] = draft.named[u][j]
          BY <4>2, <3>3, <3>4
        <5>2. QED
          BY <5>1, <3>4, <2>2 DEF Contributed
      <4>3. QED
        BY <4>1, <4>2
    <3>5. QED
      BY <2>1, <3>1, <3>3, <3>4 DEF Contributed
  <2>18. count # NoCount
    <3>1. /\ \A t \in Sources : Len(after[t]) <= MaxFacts
          /\ \A t \in Sources : \A i \in DOMAIN after[t] : after[t][i].fact.kind # "anonymous"
      BY <2>1, <2>17 DEF Contributed
    <3>2. count = NoCount
            <=> \A t \in Sources : \A i \in DOMAIN after[t] : after[t][i].id # id
      BY <2>6, <2>7, <2>8, <3>1, NoCountMeans
    <3>3. after[s][last].id = id
      BY <2>8
    <3>4. QED
      BY <3>2, <3>3, <2>4, <2>10
  <2>19. Counted(d)
    <3> SUFFICES ASSUME NEW o \in Ids
                 PROVE  /\ CountedBy(after, d.counts[o], o)
                        /\ d.entities[o] = NoEntity <=> d.counts[o] = NoCount
      BY <2>1 DEF Counted
    <3>1. CASE o = id
      <4>1. d.entities[o] # NoEntity
        BY <3>1, <2>13, <2>15 DEF NoEntity
      <4>2. QED
        BY <3>1, <4>1, <2>7, <2>14, <2>18
    <3>2. CASE o # id
      <4>1. /\ CountedBy(draft.named, draft.counts[o], o)
            /\ draft.entities[o] = NoEntity <=> draft.counts[o] = NoCount
        BY <2>2 DEF Counted
      <4>2. CountedBy(after, draft.counts[o], o)
        BY <3>2, <4>1, <2>2, <2>3, <2>4, <2>6, AddedElsewhere DEF after
      <4>3. QED
        BY <3>2, <4>1, <4>2, <2>13, <2>14
    <3>3. QED
      BY <3>1, <3>2
  <2>20. StateOK(d)
    <3>1. d.identity \in [Names -> Ids \cup {0}]
      <4>1. draft.identity \in [Names -> Ids \cup {0}]
        BY <2>2 DEF StateOK
      <4>2. d.identity = [draft.identity EXCEPT ![f.name] = id]
        BY <2>1
      <4>3. QED
        BY <4>1, <4>2, <2>6
    <3>2. d.entities \in [Ids -> EntityRecord]
      <4> DEFINE e == [name |-> f.name, type |-> h]
      <4>1. e \in EntityRecord
        BY <2>3, <2>15 DEF EntityRecord
      <4>2. d.entities = [draft.entities EXCEPT ![id] = e]
        BY <2>1
      <4> HIDE DEF e
      <4>3. QED
        BY <4>1, <4>2, <2>2 DEF StateOK
    <3>3. d.counts \in [Ids -> Count]
      <4>1. draft.counts \in [Ids -> Count]
        BY <2>2 DEF StateOK
      <4>2. d.counts = [draft.counts EXCEPT ![id] = count]
        BY <2>1
      <4>3. QED
        BY <4>1, <4>2, <2>7
    <3>4. d.types \in [Handles -> TypeRecord]
      <4>1. pending \in SUBSET Names
        <5>1. draft.types[h] \in TypeRecord
          BY <2>2, <2>15, StateFacts
        <5>2. QED
          BY <5>1, <2>3 DEF pending, PendingOf, TypeRecord
      <4>2. /\ \A t \in Sources : Len(after[t]) <= MaxFacts
            /\ \A t \in Sources : \A i \in DOMAIN after[t] : after[t][i].fact.kind # "anonymous"
        BY <2>1, <2>17 DEF Contributed
      <4>3. MaterializedAs(Materialized(count, pending), after, id)
        BY <2>6, <2>7, <2>8, <2>18, <4>1, <4>2, MaterializedFacts
      <4>4. Materialized(count, pending) \in TypeRecord
        BY <4>3 DEF MaterializedAs
      <4>5. QED
        BY <4>4, <2>1, <2>2 DEF StateOK
    <3>5. d.slots \in 0..MaxHandles /\ d.anonymous \in [Sources -> SUBSET Handles]
      BY <2>1, <2>2, <2>15, ConstantFacts DEF StateOK, Handles
    <3>6. d.named \in [Sources -> Seq(Contribution)]
      BY <2>1, <2>8 DEF Nameds
    <3>7. QED
      BY <2>6, <3>1, <3>2, <3>3, <3>4, <3>5, <3>6 DEF StateOK
  <2>21. graph.next <= d.next
    BY <2>1, <2>5
  <2>22. \A n \in Names : graph.identity[n] # 0 => d.identity[n] = graph.identity[n]
    BY <1>1, <2>3, <2>5, <2>12 DEF DraftOK
  <2>23. \A o \in graph.next..(d.next - 1) : d.entities[o] # NoEntity
    <3> SUFFICES ASSUME NEW o \in graph.next..(d.next - 1)
                 PROVE  d.entities[o] # NoEntity
      OBVIOUS
    <3>1. CASE o = id
      BY <3>1, <2>6, <2>13, <2>15 DEF NoEntity
    <3>2. CASE o # id
      <4>1. o \in graph.next..(draft.next - 1) /\ o \in 1..(draft.next - 1)
        BY <3>2, <2>1, <2>5
      <4>2. o \in Ids /\ draft.entities[o] # NoEntity
        BY <4>1, <1>1, <2>2, StateFacts DEF DraftOK
      <4>3. QED
        BY <3>2, <4>2, <2>13
    <3>3. QED
      BY <3>1, <3>2
  <2>24. \A t \in Sources : t > d.source =>
           d.named[t] = IF d.full THEN <<>> ELSE graph.named[t]
    <3> SUFFICES ASSUME NEW t \in Sources, t > s
                 PROVE  after[t] = IF draft.full THEN <<>> ELSE graph.named[t]
      BY <2>1
    <3>1. t # s
      BY <2>4, ConstantFacts
    <3>2. QED
      BY <3>1, <1>1, <2>8 DEF DraftOK
  <2>25. \A g \in Handles : g \notin d.touched => d.types[g].pending = {}
    <3> SUFFICES ASSUME NEW g \in Handles, g \notin d.touched
                 PROVE  d.types[g].pending = {}
      OBVIOUS
    <3>1. g # h /\ g \notin draft.touched
      BY <2>1
    <3>2. d.types[g] = draft.types[g]
      BY <3>1, <2>1, <2>2 DEF StateOK
    <3>3. QED
      BY <3>1, <3>2, <1>1 DEF DraftOK
  <2>26. d.touched \subseteq Handles /\ d.claimed \subseteq graph.free
    BY <1>1, <2>1, <2>15 DEF DraftOK, FreeSlots
  <2>27. DraftOK(d, "building")
    <3>1. Sound(d)
      BY <2>16, <2>17, <2>19 DEF Sound
    <3>2. QED
      BY <1>1, <2>1, <2>20, <2>21, <2>22, <2>23, <2>24, <2>25, <2>26, <3>1 DEF DraftOK
  <2>28. QED
    BY <1>2, <1>4, <2>27, BaseStep DEF d
<1>5. QED
  BY <1>2, <1>3, <1>4, Zenon

(* add_anonymous_enum keeps BaseInv: it changes no name and no counter.    *)
LEMMA BaseAnonymous ==
  ASSUME BaseInv, usage' = usage, NEW f \in usage.facts, AddAnonymous(f)
  PROVE  BaseInv'
<1>1. GraphOK /\ DraftOK(draft, "building") /\ usage \in Usages
  BY DEF BaseInv, AddAnonymous, Open
<1>2. /\ phase = "building" /\ phase' = phase /\ graph' = graph
      /\ draft.source # 0 /\ f.kind = "anonymous"
      /\ \E h \in ClaimedSlot \cap Handles : AnonymousDraft(draft', f, h)
  BY <1>1, AnonymousFields DEF DraftOK
<1> DEFINE d == draft'
           t == [kind |-> "enum", defined |-> TRUE, pending |-> {},
                 members |-> {}, flavour |-> f.flavour]
<1>3. PICK h \in ClaimedSlot \cap Handles : AnonymousDraft(d, f, h)
  BY <1>2
<1>4. /\ DOMAIN d = DraftFields
      /\ d.full = draft.full /\ d.identity = draft.identity /\ d.next = draft.next
      /\ d.entities = draft.entities /\ d.counts = draft.counts /\ d.named = draft.named
      /\ d.source = draft.source
      /\ d.types = [draft.types EXCEPT ![h] = t]
      /\ d.touched = draft.touched \cup {h}
      /\ d.claimed = draft.claimed \cup (FreeSlots \cap {h})
      /\ d.slots = IF FreeSlots = {} THEN h ELSE draft.slots
      /\ d.anonymous = [draft.anonymous EXCEPT ![draft.source] = @ \cup {h}]
  BY <1>3 DEF AnonymousDraft
<1> HIDE DEF d
<1>5. StateOK(draft) /\ Sound(draft) /\ h \in Handles
  BY <1>1 DEF DraftOK
<1>6. f.flavour \in Flavours
  BY <1>1, <1>2, FactFacts, CanonicalGraphAssumption
<1>7. t \in TypeRecord
  BY <1>6 DEF TypeRecord
<1> HIDE DEF t
<1>8. StateOK(d)
  <2>1. d.types \in [Handles -> TypeRecord]
    BY <1>4, <1>5, <1>7 DEF StateOK
  <2>2. d.slots \in 0..MaxHandles
    BY <1>4, <1>5, ConstantFacts DEF StateOK, Handles
  <2>3. d.anonymous \in [Sources -> SUBSET Handles]
    <3>1. draft.anonymous \in [Sources -> SUBSET Handles]
      BY <1>5 DEF StateOK
    <3>2. d.anonymous = [draft.anonymous EXCEPT ![draft.source] = @ \cup {h}]
      BY <1>4
    <3>3. QED
      BY <3>1, <3>2, <1>5
  <2>4. QED
    BY <1>4, <1>5, <2>1, <2>2, <2>3 DEF StateOK
<1>9. Sound(d)
  BY <1>4, <1>5 DEF Sound, Identities, Contributed, Counted
<1>10. \A g \in Handles : g \notin d.touched => d.types[g].pending = {}
  <2> SUFFICES ASSUME NEW g \in Handles, g \notin d.touched
               PROVE  d.types[g].pending = {}
    OBVIOUS
  <2>1. g # h /\ g \notin draft.touched
    BY <1>4
  <2>2. d.types[g] = draft.types[g]
    BY <2>1, <1>4, <1>5 DEF StateOK
  <2>3. QED
    BY <2>1, <2>2, <1>1 DEF DraftOK
<1>11. d.touched \subseteq Handles /\ d.claimed \subseteq graph.free
  BY <1>1, <1>4, <1>5 DEF DraftOK, FreeSlots
<1>12. DraftOK(d, "building")
  BY <1>1, <1>4, <1>8, <1>9, <1>10, <1>11 DEF DraftOK
<1>13. QED
  BY <1>2, <1>12, BaseStep DEF d

(* The members that resolve_pending_members finds are handles.             *)
LEMMA ResolvedTypes ==
  ASSUME NEW d, StateOK(d), NEW r, ResolvedDraft(r, d), d.touched \subseteq Handles,
         Resolvable(d)
  PROVE  /\ r.types \in [Handles -> TypeRecord]
         /\ \A h \in Handles : h \in d.touched =>
              /\ r.types[h].members = {NameType(n, d) : n \in d.types[h].pending}
              /\ r.types[h].members \subseteq Handles
              /\ r.types[h].pending = {} /\ SameShape(r.types[h], d.types[h])
         /\ \A h \in Handles : h \notin d.touched => r.types[h] = d.types[h]
<1>1. \A h \in Handles : d.types[h] \in TypeRecord
  BY StateFacts
<1> DEFINE found(h) == {NameType(n, d) : n \in d.types[h].pending}
<1>2. \A h \in Handles : r.types[h]
        = IF h \in d.touched
          THEN [d.types[h] EXCEPT !.members = found(h), !.pending = {}]
          ELSE d.types[h]
  BY DEF ResolvedDraft
<1>3. ASSUME NEW h \in d.touched
      PROVE  found(h) \subseteq Handles
  <2> SUFFICES ASSUME NEW n \in d.types[h].pending
               PROVE  NameType(n, d) \in Handles
    OBVIOUS
  <2>1. n \in Names
    BY <1>1 DEF TypeRecord
  <2>2. NameType(n, d) # 0
    BY DEF Resolvable
  <2>3. d.identity[n] \in Ids /\ NameType(n, d) = d.entities[d.identity[n]].type
    BY <2>1, <2>2, StateFacts DEF NameType, Entity
  <2>4. QED
    BY <2>2, <2>3, StateFacts
<1> HIDE DEF found
<1>4. ASSUME NEW h \in d.touched
      PROVE  /\ r.types[h] \in TypeRecord /\ r.types[h].members = found(h)
             /\ r.types[h].pending = {} /\ SameShape(r.types[h], d.types[h])
  <2>1. /\ r.types[h] = [d.types[h] EXCEPT !.members = found(h), !.pending = {}]
        /\ d.types[h] \in TypeRecord /\ found(h) \subseteq Handles
    BY <1>1, <1>2, <1>3
  <2>2. QED
    BY <2>1 DEF TypeRecord, SameShape
<1>5. r.types = [h \in Handles |-> r.types[h]]
  BY DEF ResolvedDraft
<1>6. \A h \in Handles : r.types[h] \in TypeRecord
  BY <1>1, <1>2, <1>4
<1>7. QED
  BY <1>2, <1>3, <1>4, <1>5, <1>6 DEF found

(* prepare_publish keeps BaseInv: ids are renumbered and no member stays   *)
(* unresolved.                                                             *)
LEMMA BasePrepare ==
  ASSUME BaseInv, usage' = usage, PreparePublish
  PROVE  BaseInv'
<1>1. GraphOK /\ DraftOK(draft, "building") /\ phase = "building"
  BY DEF BaseInv, PreparePublish, Open
<1> DEFINE c == Canonicalized
           d == draft'
<1>2. CanonicalDraft(c)
  BY <1>1, CanonicalFields DEF DraftOK
<1>3. \/ Discard
      \/ Resolvable(c) /\ d = Resolved(c) /\ phase' = "prepared" /\ graph' = graph
  BY DEF PreparePublish
<1> HIDE DEF c, d
<1>4. CASE Discard
  BY <1>4, BaseDiscard
<1>5. CASE Resolvable(c) /\ d = Resolved(c) /\ phase' = "prepared" /\ graph' = graph
  <2>1. /\ DOMAIN c = DraftFields
        /\ c.full = draft.full /\ c.next = draft.next /\ c.types = draft.types
        /\ c.slots = draft.slots /\ c.anonymous = draft.anonymous
        /\ c.touched = draft.touched /\ c.claimed = draft.claimed /\ c.source = draft.source
    BY <1>2 DEF CanonicalDraft
  <2>2. ResolvedDraft(d, c)
    BY <1>5, <2>1, ResolvedFields
  <2>3. /\ StateOK(c) /\ Sound(c)
        /\ \A n \in Names : graph.identity[n] # 0 => c.identity[n] = graph.identity[n]
        /\ \A id \in NewIds : c.entities[id] # NoEntity
        /\ \A m, n \in Names :
             /\ m < n
             /\ graph.identity[m] = 0 /\ c.identity[m] # 0
             /\ graph.identity[n] = 0 /\ c.identity[n] # 0
             => c.identity[m] < c.identity[n]
    BY <1>1, <1>2, CanonicalSound
  <2>4. /\ DOMAIN d = DraftFields
        /\ d.full = c.full /\ d.identity = c.identity /\ d.next = c.next
        /\ d.entities = c.entities /\ d.slots = c.slots /\ d.named = c.named
        /\ d.anonymous = c.anonymous /\ d.counts = c.counts
        /\ d.touched = c.touched /\ d.claimed = c.claimed /\ d.source = c.source
    BY <2>2 DEF ResolvedDraft
  <2>5. /\ d.types \in [Handles -> TypeRecord]
        /\ \A h \in Handles : h \in c.touched => d.types[h].pending = {}
        /\ \A h \in Handles : h \notin c.touched => d.types[h] = c.types[h]
    BY <1>1, <1>5, <2>1, <2>2, <2>3, ResolvedTypes DEF DraftOK
  <2>6. StateOK(d)
    BY <2>3, <2>4, <2>5 DEF StateOK
  <2>7. Sound(d)
    BY <2>3, <2>4 DEF Sound, Identities, Contributed, Counted
  <2>8. \A h \in Handles : d.types[h].pending = {}
    <3> SUFFICES ASSUME NEW h \in Handles, h \notin draft.touched
                 PROVE  d.types[h].pending = {}
      BY <2>1, <2>5
    <3>1. d.types[h] = draft.types[h]
      BY <2>1, <2>5
    <3>2. QED
      BY <3>1, <1>1 DEF DraftOK
  <2>9. NewIds = graph.next..(d.next - 1)
    BY <2>1, <2>4 DEF NewIds
  <2>10. DraftOK(d, "prepared")
    <3>1. /\ d.full \in BOOLEAN /\ (d.full => "rebuild" \in usage.modes)
          /\ d.touched \subseteq Handles /\ d.claimed \subseteq graph.free
          /\ d.source \in Sources \cup {0}
          /\ graph.next <= d.next
      BY <1>1, <2>1, <2>4 DEF DraftOK
    <3>2. /\ \A n \in Names : graph.identity[n] # 0 => d.identity[n] = graph.identity[n]
          /\ \A id \in graph.next..(d.next - 1) : d.entities[id] # NoEntity
          /\ \A m, n \in Names :
               /\ m < n
               /\ graph.identity[m] = 0 /\ d.identity[m] # 0
               /\ graph.identity[n] = 0 /\ d.identity[n] # 0
               => d.identity[m] < d.identity[n]
      BY <2>3, <2>4, <2>9
    <3>3. QED
      BY <2>4, <2>6, <2>7, <2>8, <3>1, <3>2 DEF DraftOK
  <2>11. QED
    BY <1>5, <2>10, BaseStep DEF d
<1>6. QED
  BY <1>3, <1>4, <1>5

(* publish_prepared keeps BaseInv: the candidate becomes the committed     *)
(* Graph.                                                                  *)
LEMMA BasePublish ==
  ASSUME BaseInv, usage' = usage, PublishPrepared
  PROVE  BaseInv'
<1>1. GraphOK /\ DraftOK(draft, "prepared") /\ usage \in Usages
  BY DEF BaseInv, PublishPrepared, Open
<1>2. PublishedGraph(graph') /\ phase' = "idle"
  BY PublishedFields
<1> DEFINE g == graph'
<1>3. /\ DOMAIN g = GraphFields
      /\ g.identity = draft.identity /\ g.next = draft.next /\ g.entities = draft.entities
      /\ g.types = KeptTypes /\ g.slots = draft.slots
      /\ g.named = draft.named /\ g.anonymous = draft.anonymous /\ g.counts = draft.counts
  BY <1>2 DEF PublishedGraph
<1>4. g.free = IF draft.full THEN {h \in 1..draft.slots : KeptTypes[h] = NoType}
               ELSE (graph.free \ draft.claimed)
                    \cup {h \in draft.touched : KeptTypes[h] = NoType}
  BY <1>2 DEF PublishedGraph
<1>5. /\ g.deps = [h \in Handles |->
                 IF draft.full \/ h \in draft.touched
                 THEN IF h \in Kept THEN DependenciesOf(h) ELSE {}
                 ELSE graph.deps[h]]
      /\ g.dependents = [h \in Handles |->
                 IF draft.full THEN {o \in Kept : h \in DependenciesOf(o)}
                 ELSE UpdatedDependents(h)]
  BY <1>2 DEF PublishedGraph
<1> HIDE DEF g
<1>6. StateOK(draft) /\ Sound(draft)
  BY <1>1 DEF DraftOK
<1>7. /\ KeptTypes \in [Handles -> TypeRecord]
      /\ \A h \in Handles : KeptTypes[h].pending = {}
  <2>1. NoType \in TypeRecord /\ NoType.pending = {}
    BY DEF NoType, TypeRecord
  <2>2. \A h \in Handles : draft.types[h] \in TypeRecord /\ draft.types[h].pending = {}
    BY <1>1, <1>6, StateFacts DEF DraftOK
  <2>3. QED
    BY <2>1, <2>2 DEF KeptTypes
<1>8. StateOK(g)
  BY <1>3, <1>6, <1>7 DEF StateOK
<1>9. Sound(g)
  BY <1>3, <1>6 DEF Sound, Identities, Contributed, Counted
<1>10. g.free \subseteq Handles
  <2>1. 1..draft.slots \subseteq Handles
    BY <1>6, ConstantFacts DEF StateOK, Handles
  <2>2. graph.free \subseteq Handles /\ draft.touched \subseteq Handles
    BY <1>1 DEF GraphOK, DraftOK
  <2>3. QED
    BY <1>4, <2>1, <2>2
<1>11. ASSUME NEW h \in Handles
       PROVE  DependenciesOf(h) \subseteq Handles
  <2>1. draft.types[h] \in TypeRecord
    BY <1>6, StateFacts
  <2>2. QED
    BY <2>1 DEF DependenciesOf, TypeRecord
<1>12. g.deps \in [Handles -> SUBSET Handles]
  <2>1. graph.deps \in [Handles -> SUBSET Handles]
    BY <1>1 DEF GraphOK
  <2>2. QED
    BY <1>5, <1>11, <2>1
<1>13. g.dependents \in [Handles -> SUBSET Handles]
  <2>1. /\ graph.dependents \in [Handles -> SUBSET Handles] /\ Kept \subseteq Handles
        /\ draft.touched \subseteq Handles
    BY <1>1 DEF GraphOK, DraftOK, Kept
  <2>2. \A h \in Handles : UpdatedDependents(h) \subseteq Handles
    BY <2>1 DEF UpdatedDependents
  <2>3. QED
    BY <1>5, <2>1, <2>2
<1>14. (GraphOK)' /\ ~Open'
  BY <1>2, <1>3, <1>7, <1>8, <1>9, <1>10, <1>12, <1>13 DEF GraphOK, Open, g
<1>15. QED
  BY <1>1, <1>2, <1>14 DEF BaseInv, Open

(* Every step keeps BaseInv.                                               *)
LEMMA BaseNext == BaseInv /\ [Next]_vars => BaseInv'
<1> SUFFICES ASSUME BaseInv, [Next]_vars
             PROVE  BaseInv'
  OBVIOUS
<1>1. CASE Next
  <2>1. usage' = usage
    BY <1>1 DEF Next
  <2>2. ASSUME NEW mode \in usage.modes, BeginUpdate(mode)
        PROVE  BaseInv'
    BY <2>1, <2>2, BaseBegin
  <2>3. ASSUME NEW s \in Sources, ReplaceSource(s)
        PROVE  BaseInv'
    BY <2>1, <2>3, BaseReplace
  <2>4. ASSUME NEW f \in usage.facts, Declare(f)
        PROVE  BaseInv'
    BY <2>1, <2>4, BaseDeclare
  <2>5. ASSUME NEW f \in usage.facts, AddAnonymous(f)
        PROVE  BaseInv'
    BY <2>1, <2>5, BaseAnonymous
  <2>6. CASE PreparePublish
    BY <2>1, <2>6, BasePrepare
  <2>7. CASE PublishPrepared
    BY <2>1, <2>7, BasePublish
  <2>8. CASE Cancel
    BY <2>1, <2>8, BaseDiscard DEF Cancel
  <2>9. QED
    BY <1>1, <2>2, <2>3, <2>4, <2>5, <2>6, <2>7, <2>8 DEF Next, Step
<1>2. CASE UNCHANGED vars
  BY <1>2 DEF vars, BaseInv, GraphOK, DraftOK, Open
<1>3. QED
  BY <1>1, <1>2

(* The variables have their types in every state.                          *)
THEOREM TypeCorrect == Spec => []TypeOK
<1>1. Spec => []BaseInv
  BY BaseInit, BaseNext, PTL DEF Spec
<1>2. BaseInv => TypeOK
  BY DEF BaseInv, GraphOK, DraftOK, TypeOK, Open
<1>3. QED
  BY <1>1, <1>2, PTL

(* BaseInv says that an id belongs to one name.                            *)
LEMMA UniqueIds == BaseInv => StableIdsUnique
<1> SUFFICES ASSUME BaseInv
             PROVE  StableIdsUnique
  OBVIOUS
<1>1. StateOK(graph) /\ Identities(graph)
  BY DEF BaseInv, GraphOK, Sound
<1>2. {graph.identity[n] : n \in Names} \ {0} = 1..(graph.next - 1)
  <2>1. \A n \in Names : graph.identity[n] \in Nat /\ graph.identity[n] < graph.next
    BY <1>1, StateFacts DEF Identities
  <2>2. graph.next \in Nat
    BY <1>1, StateFacts
  <2>3. \A id \in 1..(graph.next - 1) : \E n \in Names : graph.identity[n] = id
    BY <1>1 DEF Identities
  <2>4. \A id \in 1..(graph.next - 1) : id # 0
    OBVIOUS
  <2>5. \A n \in Names : graph.identity[n] # 0 => graph.identity[n] \in 1..(graph.next - 1)
    BY <2>1, <2>2
  <2>6. QED
    BY <2>3, <2>4, <2>5
<1>3. QED
  BY <1>1, <1>2 DEF StableIdsUnique, Identities, Entity

(* A stable_id belongs to one name, ids are given densely, and a live      *)
(* Entity is filed under the id of its own name: whatever sequence of      *)
(* rebuilds, incremental, failed and cancelled updates led to the Graph.   *)
THEOREM StableIdsUniqueHolds == Spec => []StableIdsUnique
<1>1. Spec => []BaseInv
  BY BaseInit, BaseNext, PTL DEF Spec
<1>2. QED
  BY <1>1, UniqueIds, PTL

(* No step gives a name another stable_id or takes it away, and the names  *)
(* that are new in one update get theirs in the order of their bytes.      *)
THEOREM StableIdsPersistHolds == Spec => StableIdsPersist
<1> DEFINE A == /\ \A n \in Names : graph.identity[n] # 0 =>
                     graph'.identity[n] = graph.identity[n]
                /\ \A m, n \in Names :
                     m < n /\ graph.identity[m] = 0 /\ graph'.identity[m] # 0
                           /\ graph.identity[n] = 0 /\ graph'.identity[n] # 0
                     => graph'.identity[m] < graph'.identity[n]
<1>1. Spec => []BaseInv
  BY BaseInit, BaseNext, PTL DEF Spec
<1>2. BaseInv /\ [Next]_vars => [A]_graph
  <2> SUFFICES ASSUME BaseInv, [Next]_vars, graph' # graph
               PROVE  A
    BY Zenon
  <2>1. PublishPrepared
    BY Zenon DEF Next, Step, BeginUpdate, ReplaceSource, Declare, AddAnonymous, PreparePublish,
           Cancel, Discard, vars
  <2>2. DraftOK(draft, "prepared")
    BY <2>1 DEF BaseInv, PublishPrepared, Open
  <2>3. graph'.identity = draft.identity
    BY <2>1, PublishedFields DEF PublishedGraph
  <2>4. QED
    BY <2>2, <2>3 DEF DraftOK
<1>3. QED
  BY <1>1, <1>2, PTL DEF Spec, StableIdsPersist

-------------------------------------------------------------------------------
(* What is owned is a slot, and has an owner.                              *)
LEMMA OwnedFacts ==
  ASSUME NEW d, StateOK(d)
  PROVE  /\ EntityTypes(d) \subseteq Handles /\ AnonymousTypes(d) \subseteq Handles
         /\ Owned(d) \subseteq Handles /\ 0 \notin Handles
         /\ \A h : h \in Owned(d) <=> h \in EntityTypes(d) \/ h \in AnonymousTypes(d)
         /\ \A id \in Ids : d.entities[id].type # 0 => d.entities[id].type \in EntityTypes(d)
         /\ \A s \in Sources : \A h \in d.anonymous[s] : h \in AnonymousTypes(d)
         /\ \A h \in EntityTypes(d) : \E id \in Ids : d.entities[id].type = h
         /\ \A h \in AnonymousTypes(d) : \E s \in Sources : h \in d.anonymous[s]
<1>1. \A id \in Ids : d.entities[id].type \in Handles \cup {0}
  BY StateFacts
<1>2. \A s \in Sources : d.anonymous[s] \subseteq Handles
  BY DEF StateOK
<1>3. 0 \notin Handles
  BY DEF Handles
<1>4. QED
  BY <1>1, <1>2, <1>3 DEF Owned, EntityTypes, AnonymousTypes

(* What materialize makes does not depend on the members, but for those.   *)
LEMMA MaterializedShape ==
  ASSUME NEW count, NEW p, NEW q
  PROVE  /\ SameShape(Materialized(count, p), Materialized(count, q))
         /\ Materialized(count, p).members = {}
         /\ Materialized(count, p).kind \in {"aggregate", "enum"}
         /\ Materialized(count, p).pending \in {{}, p}
         /\ Materialized(count, p).pending # {} =>
              Materialized(count, p).kind = "aggregate"
         /\ Materialized(count, p).kind = "aggregate" /\ count.definition # 0 =>
              Materialized(count, p).defined
<1> DEFINE m == Materialized(count, p)
           n == Materialized(count, q)
<1>1. CASE count.decls > 0 \/ count.definition # 0
  <2>1. /\ m = [kind |-> "aggregate", defined |-> count.definition # 0,
                pending |-> p, members |-> {}, flavour |-> "none"]
        /\ n = [kind |-> "aggregate", defined |-> count.definition # 0,
                pending |-> q, members |-> {}, flavour |-> "none"]
    BY <1>1 DEF Materialized
  <2> HIDE DEF m, n
  <2>2. m.defined = (count.definition # 0) /\ n.defined = (count.definition # 0)
    BY <2>1, Zenon
  <2>3. m.defined = n.defined /\ (count.definition # 0 => m.defined)
    BY <2>2, Zenon
  <2>4. /\ m.kind = "aggregate" /\ n.kind = "aggregate"
        /\ m.flavour = "none" /\ n.flavour = "none"
        /\ m.members = {} /\ m.pending = p
    BY <2>1
  <2>5. QED
    BY <2>3, <2>4 DEF SameShape, m, n
<1>2. CASE ~(count.decls > 0 \/ count.definition # 0)
  <2> DEFINE g == CHOOSE f \in Flavours : count.enums[f] > 0
  <2>1. /\ m = [kind |-> "enum", defined |-> count.enumDefinition # 0,
                pending |-> {}, members |-> {}, flavour |-> g]
        /\ n = m
    BY <1>2 DEF Materialized
  <2> HIDE DEF g, m, n
  <2>2. /\ m.kind = "enum" /\ m.members = {} /\ m.pending = {} /\ n = m
    BY <2>1
  <2>3. QED
    BY <2>2 DEF SameShape, m, n
<1>3. QED
  BY <1>1, <1>2

(* An owned slot of an incremental update is a touched one, or one that    *)
(* was owned; in either case it is not free.                               *)
LEMMA OwnedNotFree ==
  ASSUME GraphOK, CommittedInv, NEW d, StateOK(d), Partitioned(d), Overlay(d),
         NEW h \in Owned(d)
  PROVE  /\ h \in d.touched \/ h \in Owned(graph)
         /\ h \notin graph.free \ d.claimed
<1>1. h \in Handles /\ d.types[h].kind # "none"
  BY OwnedFacts DEF Partitioned
<1>2. h \in d.touched \/ h \in Owned(graph)
  <2> SUFFICES ASSUME h \notin d.touched, h \notin Owned(graph)
               PROVE  FALSE
    OBVIOUS
  <2>1. d.types[h] = graph.types[h]
    BY <1>1 DEF Overlay
  <2>2. graph.types[h] = NoType
    BY <1>1 DEF CommittedInv, Partitioned
  <2>3. QED
    BY <1>1, <2>1, <2>2 DEF NoType
<1>3. QED
  BY <1>2 DEF Overlay, CommittedInv

(* Nothing is owned in a table without entities and anonymous types.       *)
LEMMA EmptyTables ==
  ASSUME NEW d, Emptied(d)
  PROVE  Partitioned(d) /\ Linked(d) /\ Owned(d) = {} /\ AnonymousTypes(d) = {}
<1>1. /\ \A id \in Ids : d.entities[id].type = 0
      /\ \A h \in Handles : d.types[h] = NoType
      /\ \A s \in Sources : d.anonymous[s] = {}
  BY EmptyFacts DEF Emptied, NoEntity
<1>2. EntityTypes(d) = {} /\ AnonymousTypes(d) = {} /\ Owned(d) = {}
  BY <1>1 DEF EntityTypes, AnonymousTypes, Owned
<1>3. \A h \in Handles : d.types[h].members = {} /\ d.types[h].pending = {}
  BY <1>1 DEF NoType
<1>4. Partitioned(d)
  BY <1>1, <1>2, <1>3 DEF Partitioned
<1>5. QED
  BY <1>2, <1>3, <1>4 DEF Linked

(* There are no types at first.                                            *)
LEMMA TablesInit == Init => TablesInv
<1> SUFFICES ASSUME Init
             PROVE  TablesInv
  OBVIOUS
<1>1. graph = EmptyGraph /\ ~Open
  BY DEF Init, Open
<1>2. /\ Emptied(graph) /\ graph.free = {} /\ graph.slots = 0
      /\ \A h \in Handles : graph.deps[h] = {} /\ graph.dependents[h] = {}
  BY <1>1 DEF EmptyGraph, Emptied
<1>3. \A h \in Handles : graph.types[h].members = {}
  BY <1>2, EmptyFacts DEF Emptied, NoType
<1>4. Partitioned(graph) /\ Linked(graph) /\ Owned(graph) = {} /\ AnonymousTypes(graph) = {}
  BY <1>2, EmptyTables
<1>5. DependencyIndexExact
  BY <1>2, <1>3 DEF DependencyIndexExact
<1>6. graph.free = (1..graph.slots) \ Owned(graph)
  BY <1>2
<1>7. QED
  BY <1>1, <1>4, <1>5, <1>6 DEF TablesInv, CommittedInv

(* A step that leaves the committed Graph alone keeps TablesInv if it      *)
(* keeps the candidate's part.                                             *)
LEMMA TablesStep ==
  ASSUME TablesInv, usage' = usage, graph' = graph, Open' => UpdateOK(draft', phase')
  PROVE  TablesInv'
<1>1. CommittedInv'
  BY DEF TablesInv, CommittedInv, DependencyIndexExact
<1>2. Open' => (UpdateOK(draft, phase))'
  BY DEF UpdateOK, Overlay
<1>3. QED
  BY <1>1, <1>2 DEF TablesInv

(* A discarded update leaves the tables as they were.                      *)
LEMMA TablesDiscard ==
  ASSUME TablesInv, usage' = usage, Discard
  PROVE  TablesInv'
BY TablesStep DEF Discard, Open

(* begin_update keeps the tables in order: they are the committed ones, or *)
(* empty.                                                                  *)
LEMMA TablesBegin ==
  ASSUME BaseInv, TablesInv, usage' = usage, NEW mode \in usage.modes, BeginUpdate(mode)
  PROVE  TablesInv'
<1>1. GraphOK /\ CommittedInv
  BY DEF BaseInv, TablesInv
<1>2. BegunDraft(draft', mode) /\ phase' = "building" /\ graph' = graph
  BY BegunFields
<1> DEFINE d == draft'
<1>3. /\ d.full = (mode = "rebuild")
      /\ d.touched = {} /\ d.claimed = {} /\ d.source = 0
      /\ mode = "rebuild" => Emptied(d)
      /\ mode # "rebuild" =>
           /\ d.entities = graph.entities /\ d.types = graph.types
           /\ d.slots = graph.slots /\ d.named = graph.named
           /\ d.anonymous = graph.anonymous /\ d.counts = graph.counts
  BY <1>2 DEF BegunDraft, Emptied
<1>4. d.full <=> mode = "rebuild"
  BY <1>3, Zenon
<1> HIDE DEF d
<1>5. StateOK(graph) /\ graph.slots \in Nat
  BY <1>1 DEF GraphOK, StateOK
<1>6. Partitioned(d)
  <2>1. CASE mode = "rebuild"
    BY <2>1, <1>3, EmptyTables
  <2>2. CASE mode # "rebuild"
    <3>1. /\ EntityTypes(d) = EntityTypes(graph) /\ AnonymousTypes(d) = AnonymousTypes(graph)
          /\ Owned(d) = Owned(graph)
      BY <2>2, <1>3 DEF Owned, EntityTypes, AnonymousTypes
    <3>2. Partitioned(graph)
      BY <1>1 DEF CommittedInv
    <3>3. QED
      BY <2>2, <1>3, <3>1, <3>2 DEF Partitioned
  <2>3. QED
    BY <2>1, <2>2
<1>7. d.full => Rebuilt(d)
  <2> SUFFICES ASSUME mode = "rebuild"
               PROVE  Rebuilt(d)
    BY <1>4
  <2>1. Emptied(d)
    BY <1>3
  <2>2. AnonymousTypes(d) = {} /\ \A h \in Handles : d.types[h] = NoType
    BY <2>1, EmptyTables, EmptyFacts DEF Emptied
  <2>3. QED
    BY <2>2 DEF Rebuilt
<1>8. ~d.full => Overlay(d)
  <2> SUFFICES ASSUME mode # "rebuild"
               PROVE  Overlay(d)
    BY <1>4
  <2>1. \A id \in Ids : d.entities[id].type = graph.entities[id].type
    BY <1>3
  <2>2. 0 \notin Owned(graph)
    BY <1>5, OwnedFacts
  <2>3. graph.slots <= d.slots /\ (graph.slots + 1)..d.slots = {}
    BY <1>3, <1>5
  <2>4. 0 \notin Sources
    BY ConstantFacts
  <2>5. QED
    BY <1>3, <2>1, <2>2, <2>3, <2>4 DEF Overlay
<1>9. "rebuild" \in usage.modes => AnonymousTypes(d) = {}
  <2>1. CASE mode = "rebuild"
    BY <2>1, <1>3, EmptyTables
  <2>2. CASE mode # "rebuild"
    BY <2>2, <1>1, <1>3 DEF CommittedInv, AnonymousTypes
  <2>3. QED
    BY <2>1, <2>2
<1>10. \A h \in Handles : d.types[h].pending = {}
  <2>1. CASE mode = "rebuild"
    BY <2>1, <1>3, EmptyFacts DEF Emptied, NoType
  <2>2. CASE mode # "rebuild"
    BY <2>2, <1>1, <1>3 DEF GraphOK
  <2>3. QED
    BY <2>1, <2>2
<1>11. \A id \in Ids : d.entities[id].type \in Handles \cup {0}
  <2>1. CASE mode = "rebuild"
    BY <2>1, <1>3, EmptyFacts DEF Emptied, NoEntity
  <2>2. CASE mode # "rebuild"
    BY <2>2, <1>3, <1>5, StateFacts
  <2>3. QED
    BY <2>1, <2>2
<1>12. UpdateOK(d, "building")
  BY <1>3, <1>6, <1>7, <1>8, <1>9, <1>10, <1>11 DEF UpdateOK, PendingFrom
<1>13. QED
  BY <1>2, <1>12, TablesStep DEF d

(* replace_source empties the slots of the names that nobody contributes   *)
(* any more, and makes those of the others anew.                           *)
LEMMA TablesReplaced ==
  ASSUME GraphOK, CommittedInv, DraftOK(draft, "building"), UpdateOK(draft, "building"),
         NEW s \in Sources, s > draft.source,
         NEW d, ReplacedDraft(d, s), DraftOK(d, "building")
  PROVE  UpdateOK(d, "building")
<1>1. /\ StateOK(graph) /\ StateOK(draft) /\ StateOK(d) /\ Sound(graph) /\ Sound(draft)
      /\ Partitioned(draft)
  BY DEF GraphOK, DraftOK, UpdateOK
<1>2. /\ d.full = draft.full /\ d.slots = draft.slots /\ d.claimed = draft.claimed
      /\ d.source = s
      /\ d.named = [draft.named EXCEPT ![s] = <<>>]
      /\ d.anonymous = [draft.anonymous EXCEPT ![s] = {}]
      /\ d.touched = draft.touched \cup RemovedTypes(s) \cup ChangedTypes(s)
      /\ d.counts = CountsLeft(s)
      /\ \A id \in Ids : d.entities[id] = IF id \in Dead(s) THEN NoEntity ELSE draft.entities[id]
      /\ \A h \in Handles : d.types[h] =
           IF h \in RemovedTypes(s) THEN NoType
           ELSE IF h \in ChangedTypes(s)
           THEN Materialized(d.counts[OwnerIn(s, h)], PendingOf(h))
           ELSE draft.types[h]
  BY DEF ReplacedDraft
<1>3. \A id \in Gone(s) : id \in Ids /\ draft.entities[id].type \in Handles
  BY GoneFacts
<1>4. Dead(s) \subseteq Gone(s) /\ NoEntity.type = 0
  BY DEF Dead, NoEntity
<1>5. \A id \in Ids : id \notin Gone(s) => d.counts[id] = draft.counts[id]
  <2> SUFFICES ASSUME NEW id \in Ids, id \notin Gone(s)
               PROVE  d.counts[id] = draft.counts[id]
    OBVIOUS
  <2>1. CountsLeft(s)[id] = draft.counts[id]
    BY LeftFacts
  <2>2. QED
    BY <2>1, <1>2
<1>6. /\ d.named[s] = <<>> /\ \A t \in Sources : t # s => d.named[t] = draft.named[t]
      /\ d.anonymous[s] = {} /\ \A t \in Sources : t # s => d.anonymous[t] = draft.anonymous[t]
  BY <1>1, <1>2 DEF StateOK
<1>7. \A i, j \in Ids : draft.entities[i].type = draft.entities[j].type
                        /\ draft.entities[i].type # 0 => i = j
  BY <1>1 DEF Partitioned
(* The slots of what is left.                                              *)
<1>8. ASSUME NEW id \in Ids, d.entities[id].type # 0
      PROVE  /\ id \notin Dead(s) /\ d.entities[id] = draft.entities[id]
             /\ d.entities[id].type \in Handles
             /\ d.entities[id].type \notin RemovedTypes(s)
             /\ d.entities[id].type \in ChangedTypes(s) =>
                  id \in Gone(s) /\ OwnerIn(s, d.entities[id].type) = id
             /\ d.entities[id].type \notin ChangedTypes(s) => id \notin Gone(s)
  <2> DEFINE h == d.entities[id].type
  <2>1. id \notin Dead(s) /\ d.entities[id] = draft.entities[id]
    BY <1>2, <1>4, <1>8
  <2>2. h \in EntityTypes(draft) /\ h \in Handles /\ draft.entities[id].type = h
    BY <2>1, <1>1, <1>8, OwnedFacts
  <2>3. h \notin RemovedTypes(s)
    <3>1. ASSUME NEW o \in Dead(s), draft.entities[o].type = h
          PROVE  FALSE
      BY <3>1, <2>1, <2>2, <1>3, <1>4, <1>7, <1>8
    <3>2. h \notin draft.anonymous[s]
      BY <2>2, <1>1, OwnedFacts DEF Partitioned
    <3>3. QED
      BY <3>1, <3>2 DEF RemovedTypes
  <2>4. ASSUME h \in ChangedTypes(s)
        PROVE  id \in Gone(s) /\ OwnerIn(s, h) = id
    <3>1. \E o \in Gone(s) : draft.entities[o].type = h
      BY <2>4 DEF ChangedTypes
    <3>2. OwnerIn(s, h) \in Gone(s) /\ draft.entities[OwnerIn(s, h)].type = h
      BY <3>1 DEF OwnerIn
    <3> HIDE DEF h
    <3>3. QED
      BY <3>2, <2>2, <1>3, <1>7, <1>8 DEF h
  <2>5. ASSUME id \in Gone(s)
        PROVE  h \in ChangedTypes(s)
    BY <2>1, <2>5 DEF ChangedTypes
  <2>6. QED
    BY <2>1, <2>2, <2>3, <2>4, <2>5
<1>9. \A h \in ChangedTypes(s) : \E id \in Gone(s) \ Dead(s) : d.entities[id].type = h
  BY <1>2, <1>3 DEF ChangedTypes
<1>10. /\ ChangedTypes(s) \subseteq EntityTypes(draft)
       /\ RemovedTypes(s) \subseteq Owned(draft)
  BY <1>1, <1>3, <1>4, OwnedFacts DEF ChangedTypes, RemovedTypes
<1>11. /\ EntityTypes(d) \subseteq EntityTypes(draft)
       /\ AnonymousTypes(d) \subseteq AnonymousTypes(draft)
       /\ \A h \in Owned(d) : h \in Owned(draft) /\ h \notin RemovedTypes(s)
       /\ \A h \in AnonymousTypes(d) : h \notin ChangedTypes(s)
  <2>1. \A h \in EntityTypes(d) : h \in EntityTypes(draft) /\ h \notin RemovedTypes(s)
    <3> SUFFICES ASSUME NEW h \in EntityTypes(d)
                 PROVE  h \in EntityTypes(draft) /\ h \notin RemovedTypes(s)
      OBVIOUS
    <3>1. PICK id \in Ids : d.entities[id].type = h
      BY <1>1, OwnedFacts
    <3>2. h # 0
      BY <1>1, OwnedFacts
    <3>3. QED
      BY <3>1, <3>2, <1>1, <1>8, OwnedFacts
  <2>2. \A h \in AnonymousTypes(d) :
          h \in AnonymousTypes(draft) /\ h \notin RemovedTypes(s) /\ h \notin ChangedTypes(s)
    <3> SUFFICES ASSUME NEW h \in AnonymousTypes(d)
                 PROVE  h \in AnonymousTypes(draft) /\ h \notin RemovedTypes(s)
                        /\ h \notin ChangedTypes(s)
      OBVIOUS
    <3>1. PICK t \in Sources : h \in d.anonymous[t]
      BY <1>1, OwnedFacts
    <3>2. t # s /\ h \in draft.anonymous[t]
      BY <3>1, <1>6
    <3>3. h \in AnonymousTypes(draft) /\ h \notin EntityTypes(draft)
      BY <3>2, <1>1, OwnedFacts DEF Partitioned
    <3>4. h \notin draft.anonymous[s]
      BY <3>2, <1>1 DEF Partitioned
    <3>5. \A o \in Dead(s) : draft.entities[o].type \in EntityTypes(draft)
      BY <1>1, <1>3, <1>4, OwnedFacts
    <3>6. QED
      BY <3>3, <3>4, <3>5, <1>10 DEF RemovedTypes
  <2>3. QED
    BY <2>1, <2>2, <1>1, OwnedFacts
(* A definition that members wait for outlives the Source.                 *)
<1>12. ASSUME NEW id \in Ids, draft.entities[id].type # 0,
              draft.types[draft.entities[id].type].pending # {}
       PROVE  /\ PendingFrom(draft, id)
              /\ draft.counts[id].definition \in Sources
              /\ draft.counts[id].definition # s
              /\ d.counts[id].definition = draft.counts[id].definition
  <2> DEFINE t == draft.counts[id].definition
  <2>1. PendingFrom(draft, id)
    BY DEF UpdateOK
  <2>2. t \in Sources /\ t <= draft.source /\ t # 0
    BY <2>1, <1>12, ConstantFacts DEF PendingFrom
  <2>3. t # s
    BY <2>2, ConstantFacts DEF DraftOK
  <2>4. t \in DefinersIn(draft.named, id, "aggregate")
    <3>1. {t} \ {0} = DefinersIn(draft.named, id, "aggregate")
      BY <1>1 DEF Sound, Counted, CountedBy
    <3>2. QED
      BY <2>2, <3>1
  <2>5. t \in DefinersIn(d.named, id, "aggregate")
    BY <2>2, <2>3, <2>4, <1>6 DEF DefinersIn
  <2>6. {d.counts[id].definition} \ {0} = DefinersIn(d.named, id, "aggregate")
    BY DEF DraftOK, Sound, Counted, CountedBy
  <2> HIDE DEF t
  <2>7. d.counts[id].definition = t
    BY <2>5, <2>6
  <2>8. QED
    BY <2>1, <2>2, <2>3, <2>7 DEF t
<1>13. ASSUME NEW h \in Handles, d.types[h].pending # {}
       PROVE  /\ h \notin RemovedTypes(s)
              /\ d.types[h].pending = draft.types[h].pending
  <2>1. h \notin RemovedTypes(s)
    BY <1>2, <1>13 DEF NoType
  <2>2. CASE h \in ChangedTypes(s)
    <3>1. d.types[h].pending \in {{}, PendingOf(h)}
      BY <2>1, <2>2, <1>2, MaterializedShape
    <3>2. QED
      BY <3>1, <2>1, <1>13 DEF PendingOf
  <2>3. CASE h \notin ChangedTypes(s)
    BY <2>1, <2>3, <1>2
  <2>4. QED
    BY <2>1, <2>2, <2>3
<1>14. Partitioned(d)
  <2>1. \A i, j \in Ids : d.entities[i].type = d.entities[j].type
                          /\ d.entities[i].type # 0 => i = j
    BY <1>7, <1>8
  <2>2. \A t, u \in Sources : t # u => d.anonymous[t] \cap d.anonymous[u] = {}
    BY <1>1, <1>6 DEF Partitioned
  <2>3. EntityTypes(d) \cap AnonymousTypes(d) = {}
    BY <1>1, <1>11 DEF Partitioned
  <2>4. ASSUME NEW h \in Owned(d)
        PROVE  h <= d.slots /\ d.types[h].kind # "none"
    <3>1. h \in Owned(draft) /\ h \notin RemovedTypes(s) /\ h \in Handles
      BY <1>1, <1>11, OwnedFacts
    <3>2. h <= draft.slots /\ draft.types[h].kind # "none"
      BY <3>1, <1>1 DEF Partitioned
    <3>3. d.types[h].kind # "none"
      <4>1. CASE h \in ChangedTypes(s)
        BY <3>1, <4>1, <1>2, MaterializedShape
      <4>2. CASE h \notin ChangedTypes(s)
        BY <3>1, <3>2, <4>2, <1>2
      <4>3. QED
        BY <4>1, <4>2
    <3>4. QED
      BY <3>2, <3>3, <1>2
  <2>5. ASSUME NEW h \in Handles \ Owned(d)
        PROVE  d.types[h] = NoType
    <3>1. h \notin ChangedTypes(s)
      <4>1. ASSUME NEW id \in Gone(s) \ Dead(s), d.entities[id].type = h
            PROVE  FALSE
        BY <4>1, <1>1, <1>3, OwnedFacts
      <4>2. QED
        BY <4>1, <1>9
    <3>2. CASE h \in RemovedTypes(s)
      BY <3>2, <1>2
    <3>3. CASE h \notin RemovedTypes(s)
      <4>1. h \notin Owned(draft)
        <5>1. ASSUME NEW id \in Ids, draft.entities[id].type = h
              PROVE  FALSE
          <6>1. id \notin Dead(s)
            BY <5>1, <3>3 DEF RemovedTypes
          <6>2. d.entities[id].type = h
            BY <5>1, <6>1, <1>2
          <6>3. QED
            BY <6>2, <1>1, OwnedFacts
        <5>2. ASSUME NEW t \in Sources, h \in draft.anonymous[t]
              PROVE  FALSE
          <6>1. t # s
            BY <5>2, <3>3 DEF RemovedTypes
          <6>2. h \in d.anonymous[t]
            BY <5>2, <6>1, <1>6
          <6>3. QED
            BY <6>2, <1>1, OwnedFacts
        <5>3. QED
          BY <5>1, <5>2, <1>1, OwnedFacts
      <4>2. QED
        BY <3>1, <3>3, <4>1, <1>1, <1>2 DEF Partitioned
    <3>4. QED
      BY <3>2, <3>3
  <2>6. ASSUME NEW h \in AnonymousTypes(d)
        PROVE  d.types[h].kind = "enum"
    <3>1. /\ h \in AnonymousTypes(draft) /\ h \in Owned(d) /\ h \in Handles
          /\ h \notin RemovedTypes(s) /\ h \notin ChangedTypes(s)
      BY <1>1, <1>11, OwnedFacts
    <3>2. d.types[h] = draft.types[h]
      BY <3>1, <1>2
    <3>3. QED
      BY <3>1, <3>2, <1>1 DEF Partitioned
  <2>7. ASSUME NEW id \in Ids, d.entities[id].type # 0
        PROVE  SameShape(d.types[d.entities[id].type], Materialized(d.counts[id], {}))
    <3> DEFINE h == d.entities[id].type
    <3>1. /\ h \in Handles /\ h \notin RemovedTypes(s) /\ d.entities[id] = draft.entities[id]
          /\ h \in ChangedTypes(s) => OwnerIn(s, h) = id
          /\ h \notin ChangedTypes(s) => id \notin Gone(s)
      BY <2>7, <1>8
    <3> HIDE DEF h
    <3>2. CASE h \in ChangedTypes(s)
      <4>1. d.types[h] = Materialized(d.counts[id], PendingOf(h))
        BY <3>1, <3>2, <1>2
      <4>2. QED
        BY <4>1, MaterializedShape DEF h
    <3>3. CASE h \notin ChangedTypes(s)
      <4>1. d.types[h] = draft.types[h] /\ d.counts[id] = draft.counts[id]
        BY <3>1, <3>3, <1>2, <1>5
      <4>2. h = draft.entities[id].type /\ h # 0
        BY <3>1, <2>7 DEF h
      <4>3. SameShape(draft.types[h], Materialized(draft.counts[id], {}))
        BY <4>2, <1>1 DEF Partitioned
      <4>4. QED
        BY <4>1, <4>3 DEF h
    <3>4. QED
      BY <3>2, <3>3
  <2>8. ASSUME NEW h \in Handles, d.types[h].members # {} \/ d.types[h].pending # {}
        PROVE  d.types[h].kind = "aggregate" /\ d.types[h].defined
    <3>1. h \notin RemovedTypes(s)
      BY <2>8, <1>2 DEF NoType
    <3>2. CASE h \in ChangedTypes(s)
      <4>1. PICK id \in Gone(s) \ Dead(s) : d.entities[id].type = h
        BY <3>2, <1>9
      <4>2. id \in Ids /\ h # 0
        BY <4>1, <1>1, <1>3, OwnedFacts
      <4>3. OwnerIn(s, h) = id /\ draft.entities[id].type = h
        BY <4>1, <4>2, <3>2, <1>8
      <4>4. d.types[h] = Materialized(d.counts[id], PendingOf(h))
        BY <3>1, <3>2, <4>3, <1>2
      <4>5. d.types[h].members = {} /\ d.types[h].pending # {}
        BY <2>8, <4>4, MaterializedShape
      <4>6. draft.types[h].pending # {}
        BY <4>5, <1>13
      <4>7. d.counts[id].definition # 0
        BY <4>2, <4>3, <4>6, <1>12, ConstantFacts
      <4>8. QED
        BY <4>4, <4>5, <4>7, MaterializedShape
    <3>3. CASE h \notin ChangedTypes(s)
      BY <3>1, <3>3, <2>8, <1>1, <1>2 DEF Partitioned
    <3>4. QED
      BY <3>2, <3>3
  <2>9. QED
    BY <2>1, <2>2, <2>3, <2>4, <2>5, <2>6, <2>7, <2>8 DEF Partitioned
<1>15. d.touched \subseteq 1..d.slots
  <2>1. \A h \in Owned(draft) : h \in 1..draft.slots
    <3>1. draft.slots \in Nat /\ \A h \in Handles : h \in Nat /\ h >= 1
      BY <1>1, ConstantFacts DEF StateOK, Handles
    <3>2. \A h \in Owned(draft) : h \in Handles /\ h <= draft.slots
      BY <1>1, OwnedFacts DEF Partitioned
    <3>3. QED
      BY <3>1, <3>2
  <2>2. draft.touched \subseteq 1..draft.slots
    BY DEF UpdateOK
  <2>3. EntityTypes(draft) \subseteq Owned(draft)
    BY DEF Owned
  <2>4. QED
    BY <2>1, <2>2, <2>3, <1>2, <1>10
<1>16. d.full => Rebuilt(d)
  <2> SUFFICES ASSUME draft.full
               PROVE  Rebuilt(d)
    BY <1>2
  <2>1. Rebuilt(draft)
    BY DEF UpdateOK
  <2>2. ASSUME NEW h \in Handles \ d.touched
        PROVE  d.types[h] = NoType
    <3>1. h \notin draft.touched /\ h \notin RemovedTypes(s) /\ h \notin ChangedTypes(s)
      BY <1>2
    <3>2. d.types[h] = draft.types[h]
      BY <3>1, <1>2
    <3>3. QED
      BY <3>1, <3>2, <2>1 DEF Rebuilt
  <2>3. AnonymousTypes(d) = {}
    BY <2>1, <1>11 DEF Rebuilt
  <2>4. QED
    BY <2>2, <2>3 DEF Rebuilt
<1>17. ASSUME ~draft.full
       PROVE  Overlay(d)
  <2>1. Overlay(draft)
    BY <1>17 DEF UpdateOK
  <2>2. \A h \in Handles \ d.touched : d.types[h] = graph.types[h]
    <3> SUFFICES ASSUME NEW h \in Handles \ d.touched
                 PROVE  d.types[h] = graph.types[h]
      OBVIOUS
    <3>1. h \notin draft.touched /\ h \notin RemovedTypes(s) /\ h \notin ChangedTypes(s)
      BY <1>2
    <3>2. d.types[h] = draft.types[h]
      BY <3>1, <1>2
    <3>3. QED
      BY <3>1, <3>2, <2>1 DEF Overlay
  <2>3. ASSUME NEW id \in Ids
        PROVE  IF graph.entities[id].type = 0 THEN d.entities[id].type \notin Owned(graph)
               ELSE d.entities[id].type \in {0, graph.entities[id].type}
    <3>1. d.entities[id].type = 0 \/ d.entities[id].type = draft.entities[id].type
      BY <1>8
    <3>2. 0 \notin Owned(graph)
      BY <1>1, OwnedFacts
    <3>3. IF graph.entities[id].type = 0 THEN draft.entities[id].type \notin Owned(graph)
          ELSE draft.entities[id].type \in {0, graph.entities[id].type}
      BY <2>1 DEF Overlay
    <3>4. QED
      BY <3>1, <3>2, <3>3
  <2>4. \A t \in Sources : \A h \in d.anonymous[t] :
          h \in graph.anonymous[t] \/ h \notin Owned(graph)
    BY <2>1, <1>6 DEF Overlay
  <2>5. d.touched \cap (graph.free \ d.claimed) = {}
    <3>1. \A h \in Owned(draft) : h \notin graph.free \ draft.claimed
      BY <2>1, <1>1, OwnedNotFree
    <3>2. draft.touched \cap (graph.free \ draft.claimed) = {}
      BY <2>1 DEF Overlay
    <3>3. EntityTypes(draft) \subseteq Owned(draft)
      BY DEF Owned
    <3>4. QED
      BY <3>1, <3>2, <3>3, <1>2, <1>10
  <2>6. /\ graph.slots <= d.slots /\ d.claimed \subseteq d.touched
        /\ (graph.slots + 1)..d.slots \subseteq d.touched
    BY <2>1, <1>2 DEF Overlay
  <2>7. ASSUME NEW t \in Sources, t = d.source \/ d.named[t] # graph.named[t],
               NEW i \in DOMAIN graph.named[t]
        PROVE  graph.entities[graph.named[t][i].id].type \in d.touched
    <3>1. CASE t # s
      <4>1. draft.named[t] # graph.named[t]
        BY <3>1, <2>7, <1>2, <1>6
      <4>2. QED
        BY <4>1, <2>1, <1>2 DEF Overlay
    <3>2. CASE t = s
      <4> DEFINE id == graph.named[t][i].id
      <4>1. draft.named[t] = graph.named[t]
        BY <3>2, <1>17 DEF DraftOK
      <4>2. id \in Gone(s)
        BY <3>2, <4>1 DEF Gone
      <4>3. id \in Ids /\ draft.entities[id].type \in Handles
        BY <4>2, <1>3
      <4>4. graph.entities[id].type # 0
        <5>1. /\ \A u \in Sources : Len(graph.named[u]) <= MaxFacts
              /\ \A u \in Sources : \A j \in DOMAIN graph.named[u] :
                   graph.named[u][j].fact.kind # "anonymous"
              /\ CountedBy(graph.named, graph.counts[id], id)
              /\ graph.named \in Nameds /\ graph.counts[id] \in Count
          BY <4>3, <1>1, StateFacts DEF Sound, Contributed, Counted
        <5>2. graph.counts[id] = NoCount
                <=> \A u \in Sources : \A j \in DOMAIN graph.named[u] : graph.named[u][j].id # id
          BY <4>3, <5>1, NoCountMeans
        <5>3. graph.counts[id] # NoCount
          BY <5>2
        <5>4. graph.entities[id] # NoEntity
          BY <4>3, <5>3, <1>1 DEF Sound, Counted
        <5>5. QED
          BY <4>3, <5>4, <1>1 DEF Sound, Identities
      <4> HIDE DEF id
      <4>5. draft.entities[id].type = graph.entities[id].type
        <5>1. draft.entities[id].type \in {0, graph.entities[id].type}
          BY <4>3, <4>4, <2>1 DEF Overlay
        <5>2. QED
          BY <5>1, <4>3, <1>1, OwnedFacts
      <4>6. draft.entities[id].type \in RemovedTypes(s) \cup ChangedTypes(s)
        BY <4>2 DEF RemovedTypes, ChangedTypes
      <4>7. QED
        BY <4>5, <4>6, <1>2 DEF id
    <3>3. QED
      BY <3>1, <3>2
  <2>8. QED
    BY <2>2, <2>3, <2>4, <2>5, <2>6, <2>7 DEF Overlay
<1>18. "rebuild" \in usage.modes => AnonymousTypes(d) = {}
  BY <1>11 DEF UpdateOK
<1>19. ASSUME NEW h \in d.touched
       PROVE  d.types[h].members = {}
  <2>1. h \in Handles
    BY DEF DraftOK
  <2>2. CASE h \in RemovedTypes(s)
    BY <2>1, <2>2, <1>2 DEF NoType
  <2>3. CASE h \notin RemovedTypes(s) /\ h \in ChangedTypes(s)
    BY <2>1, <2>3, <1>2, MaterializedShape
  <2>4. CASE h \notin RemovedTypes(s) /\ h \notin ChangedTypes(s)
    BY <2>1, <2>4, <1>2 DEF UpdateOK
  <2>5. QED
    BY <2>2, <2>3, <2>4
<1>20. ASSUME NEW id \in Ids
       PROVE  PendingFrom(d, id)
  <2> DEFINE h == d.entities[id].type
             t == draft.counts[id].definition
  <2> SUFFICES ASSUME h # 0, d.types[h].pending # {}
               PROVE  /\ d.counts[id].definition \in Sources
                      /\ d.counts[id].definition <= d.source
                      /\ \E i \in DOMAIN d.named[d.counts[id].definition] :
                           /\ d.named[d.counts[id].definition][i].id = id
                           /\ d.types[h].pending
                                \subseteq d.named[d.counts[id].definition][i].fact.members
    BY DEF PendingFrom
  <2>1. h \in Handles /\ draft.entities[id].type = h
    BY <1>8
  <2>2. d.types[h].pending = draft.types[h].pending
    BY <2>1, <1>13
  <2> HIDE DEF h
  <2>3. /\ PendingFrom(draft, id) /\ t \in Sources /\ t # s /\ d.counts[id].definition = t
    BY <2>1, <2>2, <1>12
  <2>4. /\ t <= draft.source
        /\ \E i \in DOMAIN draft.named[t] :
             /\ draft.named[t][i].id = id
             /\ draft.types[h].pending \subseteq draft.named[t][i].fact.members
    BY <2>1, <2>2, <2>3 DEF PendingFrom
  <2>5. t <= d.source
    <3>1. draft.source \in Sources \cup {0}
      BY DEF DraftOK
    <3>2. t \in Nat /\ s \in Nat /\ draft.source \in Nat
      BY <2>3, <3>1, ConstantFacts
    <3>3. t <= draft.source /\ draft.source < s /\ d.source = s
      BY <2>4, <1>2
    <3>4. QED
      BY <3>2, <3>3
  <2>6. QED
    BY <2>2, <2>3, <2>4, <2>5, <1>6
<1>21. QED
  BY <1>2, <1>14, <1>15, <1>16, <1>17, <1>18, <1>19, <1>20 DEF UpdateOK

(* So it keeps the tables in order.                                        *)
LEMMA TablesReplace ==
  ASSUME BaseInv, TablesInv, usage' = usage, NEW s \in Sources, ReplaceSource(s), BaseInv'
  PROVE  TablesInv'
<1>1. /\ GraphOK /\ CommittedInv /\ DraftOK(draft, "building") /\ UpdateOK(draft, "building")
  BY Zenon DEF BaseInv, TablesInv, ReplaceSource, Open
<1>2. /\ ReplacedDraft(draft', s)
      /\ phase = "building" /\ phase' = phase /\ graph' = graph /\ s > draft.source
  BY <1>1, ReplacedFields DEF DraftOK
<1>3. DraftOK(draft', "building")
  <2>1. (DraftOK(draft, phase))'
    BY <1>2 DEF BaseInv, Open
  <2>2. QED
    BY <2>1, <1>2 DEF DraftOK
<1>4. UpdateOK(draft', "building")
  BY <1>1, <1>2, <1>3, TablesReplaced
<1>5. QED
  BY <1>2, <1>4, TablesStep

(* A slot for a type: the one that the Entity has in this update or had    *)
(* before it, or one that nobody has.                                      *)
SlotOK(h, id) ==
  /\ h \in Handles
  /\ draft.entities[id].type \in {0, h}
  /\ draft.entities[id].type = h \/ h \notin Owned(draft)
  /\ h <= draft.slots \/ h = draft.slots + 1
  /\ ~draft.full =>
       IF graph.entities[id].type = 0 THEN h \notin Owned(graph)
       ELSE h = graph.entities[id].type

(* The slot that an incremental update claims is nobody's, in the          *)
(* candidate and in the committed Graph.                                   *)
LEMMA ClaimedFacts ==
  ASSUME GraphOK, CommittedInv, DraftOK(draft, "building"), UpdateOK(draft, "building"),
         NEW h \in ClaimedSlot \cap Handles, ~draft.full
  PROVE  /\ h \notin Owned(draft) /\ h \notin Owned(graph)
         /\ FreeSlots # {} => h <= draft.slots
         /\ FreeSlots = {} => h = draft.slots + 1
<1>1. StateOK(graph) /\ StateOK(draft) /\ Partitioned(graph) /\ Partitioned(draft)
      /\ Overlay(draft)
  BY DEF GraphOK, DraftOK, CommittedInv, UpdateOK
<1>2. draft.slots \in Nat /\ graph.slots \in Nat /\ graph.slots <= draft.slots /\ h \in Nat
  BY <1>1, ConstantFacts DEF StateOK, Overlay, Handles
<1>3. CASE FreeSlots # {}
  <2>1. h \in graph.free /\ h \notin draft.claimed
    BY <1>3 DEF ClaimedSlot, FreeSlots
  <2>2. h \notin Owned(graph) /\ h <= graph.slots
    BY <2>1, <1>2 DEF CommittedInv
  <2>3. h \notin Owned(draft)
    BY <2>1, <1>1, OwnedNotFree
  <2>4. QED
    BY <2>2, <2>3, <1>2, <1>3
<1>4. CASE FreeSlots = {}
  <2>1. h = draft.slots + 1
    BY <1>4 DEF ClaimedSlot, NewSlot
  <2>2. /\ \A g \in Owned(draft) : g \in Nat /\ g <= draft.slots
        /\ \A g \in Owned(graph) : g \in Nat /\ g <= graph.slots
    BY <1>1, OwnedFacts, ConstantFacts DEF Partitioned, Handles
  <2>3. QED
    BY <2>1, <2>2, <1>2, <1>4
<1>5. QED
  BY <1>3, <1>4

(* The slot that a declaration gets is such a slot.                        *)
LEMMA SlotFacts ==
  ASSUME GraphOK, CommittedInv, DraftOK(draft, "building"), UpdateOK(draft, "building"),
         NEW f, IdFor(f) \in Ids, NEW h \in SlotsFor(f) \cap Handles
  PROVE  SlotOK(h, IdFor(f))
<1> DEFINE id == IdFor(f)
           now == draft.entities[id].type
           was == graph.entities[id].type
<1>1. StateOK(graph) /\ StateOK(draft) /\ Partitioned(graph) /\ Partitioned(draft)
      /\ (~draft.full => Overlay(draft))
  BY DEF GraphOK, DraftOK, CommittedInv, UpdateOK
<1>2. draft.slots \in Nat /\ graph.slots \in Nat
  BY <1>1, ConstantFacts DEF StateOK
<1>3. /\ \A g \in Owned(draft) : g \in Nat /\ g <= draft.slots
      /\ \A g \in Owned(graph) : g \in Nat /\ g <= graph.slots
  BY <1>1, OwnedFacts, ConstantFacts DEF Partitioned, Handles
<1>4. h \in Handles /\ h # 0
  BY <1>1, OwnedFacts
<1>5. SlotsFor(f) = IF now # 0 THEN {now}
                    ELSE IF draft.full THEN NewSlot
                    ELSE IF was # 0 THEN {was} ELSE ClaimedSlot
  BY DEF SlotsFor, Retained
<1>6. ~draft.full => IF was = 0 THEN now \notin Owned(graph) ELSE now \in {0, was}
  BY <1>1 DEF Overlay
<1> HIDE DEF id
<1>7. CASE now # 0
  <2>1. h = now
    BY <1>5, <1>7
  <2>2. now \in Owned(draft)
    BY <1>1, <1>7, OwnedFacts DEF id
  <2>3. h <= draft.slots
    BY <2>1, <2>2, <1>3
  <2> HIDE DEF now, was
  <2>4. QED
    BY <2>1, <2>3, <1>4, <1>6, <1>7 DEF SlotOK, id, now, was
<1>8. CASE now = 0 /\ draft.full
  <2>1. h = draft.slots + 1
    BY <1>5, <1>8 DEF NewSlot
  <2>2. h \notin Owned(draft)
    BY <2>1, <1>2, <1>3
  <2>3. QED
    BY <2>1, <2>2, <1>4, <1>8 DEF SlotOK, id
<1>9. CASE now = 0 /\ ~draft.full /\ was # 0
  <2>1. h = was
    BY <1>5, <1>9
  <2>2. h \in Owned(graph) /\ h \in EntityTypes(graph)
    BY <2>1, <1>1, <1>9, OwnedFacts DEF id
  <2>3. h <= draft.slots
    BY <2>2, <1>1, <1>2, <1>3, <1>9 DEF Overlay
  <2>4. ASSUME NEW o \in Ids, draft.entities[o].type = h
        PROVE  FALSE
    <3>1. IF graph.entities[o].type = 0 THEN draft.entities[o].type \notin Owned(graph)
          ELSE draft.entities[o].type \in {0, graph.entities[o].type}
      BY <1>1, <1>9 DEF Overlay
    <3>2. graph.entities[o].type = h
      BY <3>1, <2>2, <2>4, <1>4
    <3>3. o = id
      BY <3>2, <2>1, <1>1, <1>4 DEF Partitioned, id
    <3>4. QED
      BY <3>3, <2>4, <1>4, <1>9
  <2>5. ASSUME NEW t \in Sources, h \in draft.anonymous[t]
        PROVE  FALSE
    <3>1. h \in graph.anonymous[t]
      BY <2>2, <2>5, <1>1, <1>9 DEF Overlay
    <3>2. h \in AnonymousTypes(graph)
      BY <3>1, <1>1, OwnedFacts
    <3>3. QED
      BY <3>2, <2>2, <1>1 DEF Partitioned
  <2>6. h \notin Owned(draft)
    BY <2>4, <2>5, <1>1, OwnedFacts
  <2>7. QED
    BY <2>1, <2>3, <2>6, <1>4, <1>9 DEF SlotOK, id
<1>10. CASE now = 0 /\ ~draft.full /\ was = 0
  <2>1. h \in ClaimedSlot
    BY <1>5, <1>10
  <2>2. /\ h \notin Owned(draft) /\ h \notin Owned(graph)
        /\ FreeSlots # {} => h <= draft.slots
        /\ FreeSlots = {} => h = draft.slots + 1
    BY <2>1, <1>10, ClaimedFacts
  <2>3. QED
    BY <2>2, <1>4, <1>10 DEF SlotOK, id
<1>11. QED
  BY <1>7, <1>8, <1>9, <1>10

(* A declaration fills the slot of its name with what the contributions    *)
(* now say.                                                                *)
LEMMA TablesDeclared ==
  ASSUME GraphOK, CommittedInv, DraftOK(draft, "building"), UpdateOK(draft, "building"),
         draft.source # 0, NEW f \in Fact, f.kind # "anonymous",
         Len(draft.named[draft.source]) < MaxFacts,
         IdFor(f) \in Ids, Accepts(draft.counts[IdFor(f)], f),
         NEW h \in SlotsFor(f) \cap Handles,
         NEW d, DeclaredDraft(d, f, h), DraftOK(d, "building")
  PROVE  UpdateOK(d, "building")
<1> DEFINE s == draft.source
           id == IdFor(f)
           count == Added(draft.counts[id], s, f)
           defines == f.kind = "aggregate" /\ f.defined
           pending == IF defines THEN f.members ELSE PendingOf(h)
<1>1. /\ StateOK(graph) /\ StateOK(draft) /\ StateOK(d) /\ Sound(graph) /\ Sound(draft)
      /\ Partitioned(draft) /\ s \in Sources /\ s # 0
  BY DEF GraphOK, DraftOK, UpdateOK
<1>2. SlotOK(h, id)
  BY SlotFacts
<1>3. /\ d.full = draft.full /\ d.anonymous = draft.anonymous /\ d.source = s
      /\ d.counts = [draft.counts EXCEPT ![id] = count]
      /\ d.named = Contributing(draft.named, s, id, f)
      /\ d.entities = [draft.entities EXCEPT ![id] = [name |-> f.name, type |-> h]]
      /\ d.types = [draft.types EXCEPT ![h] = Materialized(count, pending)]
      /\ d.touched = draft.touched \cup {h}
      /\ d.claimed = draft.claimed \cup (SlotsFor(f) \cap FreeSlots \cap {h})
      /\ d.slots = IF h > draft.slots THEN h ELSE draft.slots
  BY DEF DeclaredDraft
<1>4. id \in Ids /\ draft.counts[id] \in Count /\ Accepts(draft.counts[id], f)
  BY <1>1, StateFacts
<1>5. f.kind \in {"aggregate", "enum"} /\ f.defined \in BOOLEAN
  BY FactFacts
<1>6. /\ \A t \in Sources : t # s => d.named[t] = draft.named[t]
      /\ DOMAIN d.named[s] = 1..(Len(draft.named[s]) + 1)
      /\ \A i \in DOMAIN draft.named[s] : d.named[s][i] = draft.named[s][i]
      /\ d.named[s][Len(draft.named[s]) + 1] = [id |-> id, fact |-> f]
      /\ DOMAIN draft.named[s] = 1..Len(draft.named[s]) /\ Len(draft.named[s]) \in Nat
  <2>1. draft.named \in Nameds
    BY <1>1, StateFacts
  <2>2. /\ \A t \in Sources : t # s =>
              Contributing(draft.named, s, id, f)[t] = draft.named[t]
        /\ DOMAIN Contributing(draft.named, s, id, f)[s] = 1..(Len(draft.named[s]) + 1)
        /\ \A i \in DOMAIN draft.named[s] :
              Contributing(draft.named, s, id, f)[s][i] = draft.named[s][i]
        /\ Contributing(draft.named, s, id, f)[s][Len(draft.named[s]) + 1]
             = [id |-> id, fact |-> f]
    BY <2>1, <1>1, <1>4, ContributingFacts
  <2>3. QED
    BY <2>1, <2>2, <1>1, <1>3, NamedFacts
<1> HIDE DEF id
<1>7. \A o \in Ids : /\ d.entities[o].type = IF o = id THEN h ELSE draft.entities[o].type
                     /\ d.counts[o] = IF o = id THEN count ELSE draft.counts[o]
  BY <1>1, <1>3 DEF StateOK
<1>8. \A g \in Handles : d.types[g] = IF g = h THEN Materialized(count, pending)
                                      ELSE draft.types[g]
  BY <1>1, <1>3 DEF StateOK
<1>9. /\ h \in Handles /\ h # 0
      /\ draft.entities[id].type \in {0, h}
      /\ draft.entities[id].type = h \/ h \notin Owned(draft)
      /\ h <= draft.slots \/ h = draft.slots + 1
      /\ draft.slots \in Nat /\ h \in Nat
  BY <1>1, <1>2, OwnedFacts, ConstantFacts DEF SlotOK, StateOK, Handles
<1>10. /\ defines => count.definition = s
       /\ ~defines => count.definition = draft.counts[id].definition
       /\ f.kind = "enum" => draft.counts[id].definition = 0
  BY <1>4, <1>5 DEF Added, Accepts, Count
<1> HIDE DEF count, defines
(* The contributions there were are still there.                           *)
<1>11. ASSUME NEW t \in Sources, NEW i \in DOMAIN draft.named[t]
       PROVE  i \in DOMAIN d.named[t] /\ d.named[t][i] = draft.named[t][i]
  <2>1. CASE t = s
    BY <2>1, <1>6
  <2>2. CASE t # s
    BY <2>2, <1>6
  <2>3. QED
    BY <2>1, <2>2
(* What waits in the slot waits for a definition of this Entity.           *)
<1>12. ASSUME ~defines, PendingOf(h) # {}
       PROVE  /\ draft.entities[id].type = h /\ draft.types[h].pending # {}
              /\ PendingOf(h) = draft.types[h].pending
              /\ PendingFrom(draft, id) /\ count.definition = draft.counts[id].definition
              /\ count.definition # 0
  <2>1. PendingOf(h) = draft.types[h].pending /\ draft.types[h].pending # {}
    BY <1>12 DEF PendingOf
  <2>2. draft.types[h].kind = "aggregate"
    BY <2>1, <1>1, <1>9 DEF Partitioned
  <2>3. h \in Owned(draft)
    BY <2>2, <1>1, <1>9 DEF Partitioned, NoType
  <2>4. draft.entities[id].type = h
    BY <2>3, <1>9
  <2>5. PendingFrom(draft, id)
    BY <1>4 DEF UpdateOK, id
  <2>6. draft.counts[id].definition \in Sources
    BY <2>1, <2>4, <2>5, <1>9 DEF PendingFrom
  <2>7. QED
    BY <2>1, <2>4, <2>5, <2>6, <1>10, <1>12, ConstantFacts
<1>13. /\ EntityTypes(d) = EntityTypes(draft) \cup {h}
       /\ AnonymousTypes(d) = AnonymousTypes(draft)
       /\ Owned(d) = Owned(draft) \cup {h}
  <2>1. EntityTypes(d) = EntityTypes(draft) \cup {h}
    BY <1>4, <1>7, <1>9 DEF EntityTypes, id
  <2>2. AnonymousTypes(d) = AnonymousTypes(draft)
    BY <1>3 DEF AnonymousTypes
  <2>3. QED
    BY <2>1, <2>2 DEF Owned
<1>14. h \notin AnonymousTypes(draft)
  <2>1. CASE draft.entities[id].type = h
    BY <2>1, <1>1, <1>4, <1>9, OwnedFacts DEF Partitioned, id
  <2>2. CASE h \notin Owned(draft)
    BY <2>2 DEF Owned
  <2>3. QED
    BY <2>1, <2>2, <1>9
<1>15. \A o \in Ids : o # id => draft.entities[o].type # h
  <2> SUFFICES ASSUME NEW o \in Ids, o # id, draft.entities[o].type = h
               PROVE  FALSE
    OBVIOUS
  <2>1. h \in Owned(draft)
    BY <1>1, <1>9, OwnedFacts
  <2>2. draft.entities[id].type = h
    BY <2>1, <1>9
  <2>3. QED
    BY <2>2, <1>1, <1>4, <1>9 DEF Partitioned, id
<1>16. Partitioned(d)
  <2>1. \A i, j \in Ids : d.entities[i].type = d.entities[j].type
                          /\ d.entities[i].type # 0 => i = j
    <3> SUFFICES ASSUME NEW i \in Ids, NEW j \in Ids, i # j,
                        d.entities[i].type = d.entities[j].type, d.entities[i].type # 0
                 PROVE  FALSE
      OBVIOUS
    <3>1. CASE i = id \/ j = id
      BY <3>1, <1>7, <1>15
    <3>2. CASE i # id /\ j # id
      BY <3>2, <1>1, <1>7 DEF Partitioned
    <3>3. QED
      BY <3>1, <3>2
  <2>2. \A t, u \in Sources : t # u => d.anonymous[t] \cap d.anonymous[u] = {}
    BY <1>1, <1>3 DEF Partitioned
  <2>3. EntityTypes(d) \cap AnonymousTypes(d) = {}
    BY <1>1, <1>13, <1>14 DEF Partitioned
  <2>4. ASSUME NEW g \in Owned(d)
        PROVE  g <= d.slots /\ d.types[g].kind # "none"
    <3>1. CASE g = h
      BY <3>1, <1>3, <1>8, <1>9, MaterializedShape
    <3>2. CASE g # h
      <4>1. g \in Owned(draft) /\ g \in Handles /\ g \in Nat
        BY <3>2, <1>1, <1>13, OwnedFacts, ConstantFacts DEF Handles
      <4>2. g <= draft.slots /\ draft.types[g].kind # "none"
        BY <4>1, <1>1 DEF Partitioned
      <4>3. g <= d.slots
        BY <4>1, <4>2, <1>3, <1>9
      <4>4. QED
        BY <3>2, <4>1, <4>2, <4>3, <1>8
    <3>3. QED
      BY <3>1, <3>2
  <2>5. \A g \in Handles \ Owned(d) : d.types[g] = NoType
    BY <1>1, <1>8, <1>13 DEF Partitioned
  <2>6. \A g \in AnonymousTypes(d) : d.types[g].kind = "enum"
    BY <1>1, <1>8, <1>13, <1>14, OwnedFacts DEF Partitioned
  <2>7. ASSUME NEW o \in Ids, d.entities[o].type # 0
        PROVE  SameShape(d.types[d.entities[o].type], Materialized(d.counts[o], {}))
    <3>1. CASE o = id
      <4>1. /\ d.entities[o].type = h /\ d.counts[o] = count
            /\ d.types[h] = Materialized(count, pending)
        BY <3>1, <1>7, <1>8, <1>9
      <4> HIDE DEF pending
      <4>2. QED
        BY <4>1, MaterializedShape
    <3>2. CASE o # id
      <4>1. /\ d.entities[o].type = draft.entities[o].type /\ d.counts[o] = draft.counts[o]
            /\ draft.entities[o].type # h
        BY <3>2, <1>7, <1>15
      <4>2. draft.entities[o].type \in Handles
        BY <4>1, <2>7, <1>1, OwnedFacts
      <4>3. SameShape(draft.types[draft.entities[o].type], Materialized(draft.counts[o], {}))
        BY <4>1, <2>7, <1>1 DEF Partitioned
      <4>4. QED
        BY <4>1, <4>2, <4>3, <1>8
    <3>3. QED
      BY <3>1, <3>2
  <2>8. ASSUME NEW g \in Handles, d.types[g].members # {} \/ d.types[g].pending # {}
        PROVE  d.types[g].kind = "aggregate" /\ d.types[g].defined
    <3>1. CASE g = h
      <4>1. d.types[g] = Materialized(count, pending)
        BY <3>1, <1>8
      <4>2. count.definition # 0 \/ pending = {}
        <5>1. CASE defines
          BY <5>1, <1>1, <1>10
        <5>2. CASE ~defines
          BY <5>2, <1>12
        <5>3. QED
          BY <5>1, <5>2
      <4> HIDE DEF pending
      <4>3. d.types[g].members = {} /\ d.types[g].pending \in {{}, pending}
        BY <4>1, MaterializedShape
      <4>4. d.types[g].pending # {} /\ count.definition # 0
        BY <4>2, <4>3, <2>8
      <4>5. QED
        BY <4>1, <4>4, MaterializedShape
    <3>2. CASE g # h
      BY <3>2, <2>8, <1>1, <1>8 DEF Partitioned
    <3>3. QED
      BY <3>1, <3>2
  <2>9. QED
    BY <2>1, <2>2, <2>3, <2>4, <2>5, <2>6, <2>7, <2>8 DEF Partitioned
<1>17. d.touched \subseteq 1..d.slots
  <2>1. draft.touched \subseteq 1..draft.slots
    BY DEF UpdateOK
  <2>2. h \in 1..d.slots /\ draft.slots <= d.slots
    BY <1>3, <1>9
  <2>3. QED
    BY <2>1, <2>2, <1>3, <1>9
<1>18. d.full => Rebuilt(d)
  <2> SUFFICES ASSUME draft.full
               PROVE  Rebuilt(d)
    BY <1>3
  <2>1. Rebuilt(draft)
    BY DEF UpdateOK
  <2>2. QED
    BY <2>1, <1>3, <1>8, <1>13 DEF Rebuilt
<1>19. ASSUME ~draft.full
       PROVE  Overlay(d)
  <2>1. Overlay(draft)
    BY <1>19 DEF UpdateOK
  <2>2. \A g \in Handles \ d.touched : d.types[g] = graph.types[g]
    BY <2>1, <1>3, <1>8 DEF Overlay
  <2>3. ASSUME NEW o \in Ids
        PROVE  IF graph.entities[o].type = 0 THEN d.entities[o].type \notin Owned(graph)
               ELSE d.entities[o].type \in {0, graph.entities[o].type}
    <3>1. CASE o = id
      BY <3>1, <1>2, <1>7, <1>19 DEF SlotOK
    <3>2. CASE o # id
      BY <3>2, <2>1, <1>7 DEF Overlay
    <3>3. QED
      BY <3>1, <3>2
  <2>4. \A t \in Sources : \A g \in d.anonymous[t] :
          g \in graph.anonymous[t] \/ g \notin Owned(graph)
    BY <2>1, <1>3 DEF Overlay
  <2>5. /\ d.touched \cap (graph.free \ d.claimed) = {} /\ d.claimed \subseteq d.touched
    <3>1. /\ draft.touched \cap (graph.free \ draft.claimed) = {}
          /\ draft.claimed \subseteq draft.touched
      BY <2>1 DEF Overlay
    <3>2. h \in graph.free \ draft.claimed => h \in d.claimed
      BY <1>3 DEF FreeSlots
    <3>3. QED
      BY <3>1, <3>2, <1>3
  <2>6. graph.slots <= d.slots /\ (graph.slots + 1)..d.slots \subseteq d.touched
    <3>1. graph.slots <= draft.slots /\ (graph.slots + 1)..draft.slots \subseteq draft.touched
      BY <2>1 DEF Overlay
    <3>2. graph.slots \in Nat
      BY <1>1 DEF StateOK
    <3>3. QED
      BY <3>1, <3>2, <1>3, <1>9
  <2>7. ASSUME NEW t \in Sources, t = d.source \/ d.named[t] # graph.named[t],
               NEW i \in DOMAIN graph.named[t]
        PROVE  graph.entities[graph.named[t][i].id].type \in d.touched
    <3>1. t = draft.source \/ draft.named[t] # graph.named[t]
      BY <2>7, <1>3, <1>6
    <3>2. graph.entities[graph.named[t][i].id].type \in draft.touched
      BY <3>1, <2>1 DEF Overlay
    <3>3. QED
      BY <3>2, <1>3
  <2>8. QED
    BY <2>2, <2>3, <2>4, <2>5, <2>6, <2>7 DEF Overlay
<1>20. "rebuild" \in usage.modes => AnonymousTypes(d) = {}
  BY <1>13 DEF UpdateOK
<1>21. \A g \in d.touched : d.types[g].members = {}
  <2> SUFFICES ASSUME NEW g \in d.touched
               PROVE  d.types[g].members = {}
    OBVIOUS
  <2>1. CASE g = h
    BY <2>1, <1>8, <1>9, MaterializedShape
  <2>2. CASE g # h
    <3>1. g \in draft.touched /\ g \in Handles
      BY <2>2, <1>3, Zenon DEF DraftOK
    <3>2. QED
      BY <2>2, <3>1, <1>8 DEF UpdateOK
  <2>3. QED
    BY <2>1, <2>2
<1>22. ASSUME NEW o \in Ids
       PROVE  PendingFrom(d, o)
  <2> DEFINE g == d.entities[o].type
             t == d.counts[o].definition
  <2> SUFFICES ASSUME g # 0, d.types[g].pending # {}
               PROVE  /\ t \in Sources /\ t <= d.source
                      /\ \E i \in DOMAIN d.named[t] :
                           /\ d.named[t][i].id = o
                           /\ d.types[g].pending \subseteq d.named[t][i].fact.members
    BY DEF PendingFrom
(* A definition that an older contribution holds.                          *)
  <2>1. ASSUME draft.entities[o].type = g, PendingFrom(draft, o),
               draft.types[g].pending # {},
               draft.counts[o].definition = t, d.types[g].pending = draft.types[g].pending
        PROVE  /\ t \in Sources /\ t <= d.source
               /\ \E i \in DOMAIN d.named[t] :
                    /\ d.named[t][i].id = o
                    /\ d.types[g].pending \subseteq d.named[t][i].fact.members
    <3> HIDE DEF g, t
    <3>1. /\ t \in Sources /\ t <= draft.source
          /\ \E i \in DOMAIN draft.named[t] :
               /\ draft.named[t][i].id = o
               /\ draft.types[g].pending \subseteq draft.named[t][i].fact.members
      BY <2>1 DEF PendingFrom, g
    <3>2. PICK i \in DOMAIN draft.named[t] :
               /\ draft.named[t][i].id = o
               /\ draft.types[g].pending \subseteq draft.named[t][i].fact.members
      BY <3>1
    <3>3. i \in DOMAIN d.named[t] /\ d.named[t][i] = draft.named[t][i]
      BY <3>1, <1>11, Zenon
    <3>4. QED
      BY <3>1, <3>2, <3>3, <2>1, <1>3
  <2>2. CASE o # id
    <3>1. /\ g = draft.entities[o].type /\ t = draft.counts[o].definition /\ g # h
      BY <2>2, <1>7, <1>15
    <3>2. g \in Handles
      BY <3>1, <1>1, OwnedFacts
    <3>3. d.types[g] = draft.types[g]
      BY <3>1, <3>2, <1>8
    <3>4. PendingFrom(draft, o)
      BY Zenon DEF UpdateOK
    <3> HIDE DEF g, t
    <3>5. QED
      BY <3>1, <3>3, <3>4, <2>1, Zenon
  <2>3. CASE o = id
    <3>1. g = h /\ t = count.definition /\ d.types[g] = Materialized(count, pending)
      BY <2>3, <1>7, <1>8, <1>9
    <3>2. d.types[g].pending = pending
      <4> HIDE DEF pending
      <4>1. Materialized(count, pending).pending \in {{}, pending}
        BY MaterializedShape
      <4>2. QED
        BY <4>1, <3>1
    <3>3. CASE defines
      <4> DEFINE last == Len(draft.named[s]) + 1
      <4>1. t = s /\ pending = f.members
        BY <3>1, <3>3, <1>10
      <4>2. last \in DOMAIN d.named[s] /\ d.named[s][last] = [id |-> id, fact |-> f]
        BY <1>6
      <4>3. d.source = s /\ s \in Nat
        BY <1>1, <1>3, ConstantFacts
      <4> HIDE DEF g, t, pending, last
      <4>4. d.named[s][last].id = id /\ d.named[s][last].fact = f
        BY <4>2
      <4>5. d.named[s][last].id = o /\ d.types[g].pending \subseteq d.named[s][last].fact.members
        BY <4>1, <4>4, <3>2, <2>3
      <4>6. QED
        BY <4>1, <4>2, <4>3, <4>5, <1>1
    <3>4. CASE ~defines
      <4>1. pending = PendingOf(h) /\ PendingOf(h) # {}
        BY <3>2, <3>4
      <4>2. /\ draft.entities[id].type = h /\ draft.types[h].pending # {}
            /\ PendingOf(h) = draft.types[h].pending
            /\ PendingFrom(draft, id) /\ count.definition = draft.counts[id].definition
        BY <4>1, <3>4, <1>12
      <4> HIDE DEF g, t, pending
      <4>3. QED
        BY <4>1, <4>2, <3>1, <3>2, <2>1, <2>3
    <3>5. QED
      BY <3>3, <3>4
  <2>4. QED
    BY <2>2, <2>3, Zenon
<1>23. QED
  BY <1>3, <1>16, <1>17, <1>18, <1>19, <1>20, <1>21, <1>22 DEF UpdateOK

(* declare_named_type and declare_named_enum keep the tables in order.     *)
LEMMA TablesDeclare ==
  ASSUME BaseInv, TablesInv, usage' = usage, NEW f \in usage.facts, Declare(f), BaseInv'
  PROVE  TablesInv'
<1>1. /\ GraphOK /\ CommittedInv /\ DraftOK(draft, "building") /\ UpdateOK(draft, "building")
      /\ usage \in Usages
  BY Zenon DEF BaseInv, TablesInv, Declare, Open
<1>2. /\ phase = "building" /\ graph' = graph
      /\ draft.source # 0 /\ f.kind # "anonymous" /\ InBuilderOrder(draft.source, f)
      /\ \/ Discard
         \/ /\ phase' = phase
            /\ Accepts(draft.counts[IdFor(f)], f)
            /\ \E h \in SlotsFor(f) \cap Handles : DeclaredDraft(draft', f, h)
  BY <1>1, DeclaredFields DEF DraftOK
<1>3. CASE Discard
  BY <1>3, TablesDiscard
<1>4. ASSUME phase' = phase, Accepts(draft.counts[IdFor(f)], f),
             NEW h \in SlotsFor(f) \cap Handles, DeclaredDraft(draft', f, h)
      PROVE  TablesInv'
  <2>1. f \in Fact /\ f.name \in Names
    BY <1>1, <1>2, FactFacts, CanonicalGraphAssumption
  <2>2. Len(draft.named[draft.source]) < MaxFacts
    BY <1>1, <1>2, RoomFacts
  <2>3. IdFor(f) \in Ids
    <3>1. StateOK(draft) /\ Identities(draft)
      BY <1>1 DEF DraftOK, Sound
    <3>2. draft.identity[f.name] \in Ids \cup {0}
      BY <2>1, <3>1, StateFacts
    <3>3. draft.identity[f.name] = 0 => draft.next \in Ids
      BY <2>1, <3>1, FreshId
    <3>4. QED
      BY <3>2, <3>3 DEF IdFor
  <2>4. DraftOK(draft', "building")
    <3>1. (DraftOK(draft, phase))'
      BY <1>2, <1>4 DEF BaseInv, Open
    <3>2. QED
      BY <3>1, <1>2, <1>4 DEF DraftOK
  <2>5. UpdateOK(draft', "building")
    BY <1>1, <1>2, <1>4, <2>1, <2>2, <2>3, <2>4, TablesDeclared
  <2>6. QED
    BY <1>2, <1>4, <2>5, TablesStep
<1>5. QED
  BY <1>2, <1>3, <1>4, Zenon

(* add_anonymous_enum keeps the tables in order, but in a rebuild.         *)
LEMMA TablesAnonymous ==
  ASSUME NamedRebuilds, BaseInv, TablesInv, usage' = usage,
         NEW f \in usage.facts, AddAnonymous(f), BaseInv'
  PROVE  TablesInv'
<1>1. /\ GraphOK /\ CommittedInv /\ DraftOK(draft, "building") /\ UpdateOK(draft, "building")
      /\ usage \in Usages
  BY DEF BaseInv, TablesInv, AddAnonymous, Open
<1>2. /\ phase = "building" /\ phase' = phase /\ graph' = graph
      /\ draft.source # 0 /\ f.kind = "anonymous"
      /\ \E h \in ClaimedSlot \cap Handles : AnonymousDraft(draft', f, h)
  BY <1>1, AnonymousFields DEF DraftOK
<1>3. "rebuild" \notin usage.modes /\ ~draft.full
  BY <1>1, <1>2 DEF NamedRebuilds, DraftOK
<1> DEFINE d == draft'
           s == draft.source
           t == [kind |-> "enum", defined |-> TRUE, pending |-> {},
                 members |-> {}, flavour |-> f.flavour]
<1>4. PICK h \in ClaimedSlot \cap Handles : AnonymousDraft(d, f, h)
  BY <1>2
<1>5. /\ d.full = draft.full /\ d.source = s
      /\ d.entities = draft.entities /\ d.counts = draft.counts /\ d.named = draft.named
      /\ d.types = [draft.types EXCEPT ![h] = t]
      /\ d.touched = draft.touched \cup {h}
      /\ d.claimed = draft.claimed \cup (FreeSlots \cap {h})
      /\ d.slots = IF FreeSlots = {} THEN h ELSE draft.slots
      /\ d.anonymous = [draft.anonymous EXCEPT ![s] = @ \cup {h}]
  BY <1>4 DEF AnonymousDraft
<1>6. /\ t.kind = "enum" /\ t.pending = {} /\ t.members = {}
  OBVIOUS
<1> HIDE DEF d, t
<1>7. /\ StateOK(graph) /\ StateOK(draft) /\ Partitioned(draft) /\ Overlay(draft)
      /\ s \in Sources /\ h \in Handles
  BY <1>1, <1>2, <1>3 DEF GraphOK, DraftOK, UpdateOK
<1>8. /\ h \notin Owned(draft) /\ h \notin Owned(graph)
      /\ FreeSlots # {} => h <= draft.slots
      /\ FreeSlots = {} => h = draft.slots + 1
  BY <1>1, <1>3, ClaimedFacts
<1>9. \A g \in Handles : d.types[g] = IF g = h THEN t ELSE draft.types[g]
  BY <1>5, <1>7 DEF StateOK
<1>10. /\ \A r \in Sources : r # s => d.anonymous[r] = draft.anonymous[r]
       /\ d.anonymous[s] = draft.anonymous[s] \cup {h}
  <2>1. draft.anonymous \in [Sources -> SUBSET Handles]
    BY <1>7 DEF StateOK
  <2>2. QED
    BY <2>1, <1>5, <1>7
<1>11. /\ draft.slots \in Nat /\ graph.slots \in Nat /\ h \in Nat
       /\ h <= d.slots /\ draft.slots <= d.slots
       /\ d.slots = draft.slots \/ (d.slots = h /\ h = draft.slots + 1)
  <2>1. draft.slots \in Nat /\ graph.slots \in Nat /\ h \in Nat
    BY <1>7, ConstantFacts DEF StateOK, Handles
  <2>2. CASE FreeSlots = {}
    <3>1. d.slots = h
      BY <2>2, <1>5
    <3>2. h = draft.slots + 1
      BY <2>2, <1>8
    <3>3. QED
      BY <2>1, <3>1, <3>2
  <2>3. CASE FreeSlots # {}
    BY <2>1, <2>3, <1>5, <1>8
  <2>4. QED
    BY <2>1, <2>2, <2>3
<1>12. /\ EntityTypes(d) = EntityTypes(draft)
       /\ AnonymousTypes(d) = AnonymousTypes(draft) \cup {h}
       /\ Owned(d) = Owned(draft) \cup {h}
  <2>1. EntityTypes(d) = EntityTypes(draft)
    BY <1>5 DEF EntityTypes
  <2>2. AnonymousTypes(d) = AnonymousTypes(draft) \cup {h}
    <3>1. \A g : g \in AnonymousTypes(d) => g \in AnonymousTypes(draft) \cup {h}
      BY <1>10 DEF AnonymousTypes
    <3>2. \A g : g \in AnonymousTypes(draft) \cup {h} => g \in AnonymousTypes(d)
      BY <1>7, <1>10 DEF AnonymousTypes
    <3>3. QED
      BY <3>1, <3>2
  <2>3. QED
    BY <2>1, <2>2 DEF Owned
<1>13. h \notin EntityTypes(draft) /\ h \notin AnonymousTypes(draft)
  BY <1>8 DEF Owned
<1>14. Partitioned(d)
  <2>1. \A i, j \in Ids : d.entities[i].type = d.entities[j].type
                          /\ d.entities[i].type # 0 => i = j
    BY <1>5, <1>7 DEF Partitioned
  <2>2. \A q, r \in Sources : q # r => d.anonymous[q] \cap d.anonymous[r] = {}
    <3>1. \A q \in Sources : h \notin draft.anonymous[q]
      BY <1>7, <1>13, OwnedFacts
    <3>2. \A q, r \in Sources : q # r => draft.anonymous[q] \cap draft.anonymous[r] = {}
      BY <1>7 DEF Partitioned
    <3>3. QED
      BY <3>1, <3>2, <1>10
  <2>3. EntityTypes(d) \cap AnonymousTypes(d) = {}
    BY <1>7, <1>12, <1>13 DEF Partitioned
  <2>4. ASSUME NEW g \in Owned(d)
        PROVE  g <= d.slots /\ d.types[g].kind # "none"
    <3>1. CASE g = h
      BY <3>1, <1>6, <1>7, <1>9, <1>11
    <3>2. CASE g # h
      <4>1. g \in Owned(draft) /\ g \in Handles /\ g \in Nat
        BY <3>2, <1>7, <1>12, OwnedFacts, ConstantFacts DEF Handles
      <4>2. g <= draft.slots /\ draft.types[g].kind # "none"
        BY <4>1, <1>7 DEF Partitioned
      <4>3. g <= d.slots
        BY <4>1, <4>2, <1>11
      <4>4. QED
        BY <3>2, <4>1, <4>2, <4>3, <1>9
    <3>3. QED
      BY <3>1, <3>2
  <2>5. \A g \in Handles \ Owned(d) : d.types[g] = NoType
    BY <1>7, <1>9, <1>12 DEF Partitioned
  <2>6. \A g \in AnonymousTypes(d) : d.types[g].kind = "enum"
    BY <1>6, <1>7, <1>9, <1>12, OwnedFacts DEF Partitioned
  <2>7. ASSUME NEW o \in Ids, d.entities[o].type # 0
        PROVE  SameShape(d.types[d.entities[o].type], Materialized(d.counts[o], {}))
    <3>1. d.entities[o].type = draft.entities[o].type /\ d.counts[o] = draft.counts[o]
      BY <1>5
    <3>2. draft.entities[o].type \in EntityTypes(draft) /\ draft.entities[o].type \in Handles
      BY <3>1, <2>7, <1>7, OwnedFacts
    <3>3. SameShape(draft.types[draft.entities[o].type], Materialized(draft.counts[o], {}))
      BY <3>1, <2>7, <1>7 DEF Partitioned
    <3>4. QED
      BY <3>1, <3>2, <3>3, <1>9, <1>13
  <2>8. \A g \in Handles : d.types[g].members # {} \/ d.types[g].pending # {} =>
          d.types[g].kind = "aggregate" /\ d.types[g].defined
    BY <1>6, <1>7, <1>9 DEF Partitioned
  <2>9. QED
    BY <2>1, <2>2, <2>3, <2>4, <2>5, <2>6, <2>7, <2>8 DEF Partitioned
<1>15. d.touched \subseteq 1..d.slots
  <2>1. draft.touched \subseteq 1..draft.slots /\ 1 <= h
    BY <1>1, <1>7, ConstantFacts DEF UpdateOK, Handles
  <2>2. QED
    BY <2>1, <1>5, <1>11
<1>16. Overlay(d)
  <2>1. /\ draft.touched \cap (graph.free \ draft.claimed) = {}
        /\ draft.claimed \subseteq draft.touched
        /\ graph.slots <= draft.slots /\ (graph.slots + 1)..draft.slots \subseteq draft.touched
    BY <1>7 DEF Overlay
  <2>2. \A g \in Handles \ d.touched : d.types[g] = graph.types[g]
    BY <1>5, <1>7, <1>9 DEF Overlay
  <2>3. \A o \in Ids :
          IF graph.entities[o].type = 0 THEN d.entities[o].type \notin Owned(graph)
          ELSE d.entities[o].type \in {0, graph.entities[o].type}
    BY <1>5, <1>7 DEF Overlay
  <2>4. \A r \in Sources : \A g \in d.anonymous[r] :
          g \in graph.anonymous[r] \/ g \notin Owned(graph)
    BY <1>7, <1>8, <1>10 DEF Overlay
  <2>5. /\ d.touched \cap (graph.free \ d.claimed) = {} /\ d.claimed \subseteq d.touched
    <3>1. h \in graph.free \ draft.claimed => h \in d.claimed
      BY <1>5 DEF FreeSlots
    <3>2. QED
      BY <2>1, <3>1, <1>5
  <2>6. graph.slots <= d.slots /\ (graph.slots + 1)..d.slots \subseteq d.touched
    BY <2>1, <1>5, <1>11
  <2>7. ASSUME NEW r \in Sources, r = d.source \/ d.named[r] # graph.named[r],
               NEW i \in DOMAIN graph.named[r]
        PROVE  graph.entities[graph.named[r][i].id].type \in d.touched
    <3>1. r = draft.source \/ draft.named[r] # graph.named[r]
      BY <2>7, <1>5
    <3>2. graph.entities[graph.named[r][i].id].type \in draft.touched
      BY <3>1, <1>7 DEF Overlay
    <3>3. QED
      BY <3>2, <1>5
  <2>8. QED
    BY <2>2, <2>3, <2>4, <2>5, <2>6, <2>7 DEF Overlay
<1>17. \A g \in d.touched : d.types[g].members = {}
  <2>1. \A g \in draft.touched : g \in Handles /\ draft.types[g].members = {}
    BY <1>1, Zenon DEF DraftOK, UpdateOK
  <2>2. QED
    BY <2>1, <1>5, <1>6, <1>7, <1>9
<1>18. ASSUME NEW o \in Ids
       PROVE  PendingFrom(d, o)
  <2> DEFINE g == draft.entities[o].type
  <2>1. PendingFrom(draft, o)
    BY <1>1 DEF UpdateOK
  <2>2. d.entities[o].type = g /\ d.counts[o] = draft.counts[o]
    BY <1>5
  <2>3. g # 0 => g \in Handles /\ d.types[g] = draft.types[g]
    BY <1>7, <1>9, <1>13, OwnedFacts
  <2> HIDE DEF g
  <2>4. QED
    BY <2>1, <2>2, <2>3, <1>5 DEF PendingFrom, g
<1>19. UpdateOK(d, "building")
  BY <1>3, <1>5, <1>14, <1>15, <1>16, <1>17, <1>18 DEF UpdateOK
<1>20. QED
  BY <1>2, <1>19, TablesStep DEF d

(* canonicalize_new_stable_ids renames the owners of slots and leaves the  *)
(* tables as they are.                                                     *)
LEMMA TablesCanonical ==
  ASSUME GraphOK, CommittedInv, DraftOK(draft, "building"), UpdateOK(draft, "building"),
         NEW c, CanonicalDraft(c), StateOK(c)
  PROVE  UpdateOK(c, "building")
<1>1. /\ StateOK(graph) /\ StateOK(draft) /\ Sound(graph) /\ Sound(draft)
      /\ Identities(graph) /\ Identities(draft) /\ Partitioned(draft)
  BY DEF GraphOK, DraftOK, UpdateOK, Sound
<1>2. /\ \A id \in Ids : Provisional(id) \in Ids
      /\ \A id \in Ids : id \notin NewIds => Provisional(id) = id
      /\ \A id \in NewIds : Provisional(id) \in NewIds
      /\ \A id \in Ids : Provisional(id) < draft.next =>
           id < draft.next /\ Remap(Provisional(id)) = id
      /\ \A id \in 1..(draft.next - 1) :
           Remap(id) \in 1..(draft.next - 1) /\ Provisional(Remap(id)) = id
      /\ \A i, j \in Ids : Provisional(i) = Provisional(j) => i = j
  BY <1>1, ProvisionalFacts
<1>3. \A id \in 1..(graph.next - 1) : Remap(id) = id
  BY <1>1, RemapFacts
<1>4. /\ draft.next \in Nat /\ graph.next \in Nat /\ graph.next <= draft.next
      /\ \A id \in Ids : id \in Nat \ {0}
      /\ \A id \in 1..(draft.next - 1) : id \in Ids
      /\ \A id : id \in NewIds <=> id \in graph.next..(draft.next - 1)
  BY <1>1, StateFacts, ConstantFacts DEF DraftOK, NewIds
<1>5. /\ c.full = draft.full /\ c.types = draft.types /\ c.slots = draft.slots
      /\ c.anonymous = draft.anonymous /\ c.touched = draft.touched
      /\ c.claimed = draft.claimed /\ c.source = draft.source
      /\ \A id \in Ids : /\ c.entities[id] = draft.entities[Provisional(id)]
                         /\ c.counts[id] = draft.counts[Provisional(id)]
      /\ \A s \in Sources :
           /\ DOMAIN c.named[s] = DOMAIN draft.named[s]
           /\ c.named[s] = [i \in DOMAIN draft.named[s] |-> c.named[s][i]]
           /\ \A i \in DOMAIN draft.named[s] :
                c.named[s][i] = [id |-> Remap(draft.named[s][i].id),
                                 fact |-> draft.named[s][i].fact]
  BY DEF CanonicalDraft
(* An id with an Entity has been given out.                                *)
<1>6. /\ \A id \in Ids : draft.entities[id].type # 0 => id < draft.next
      /\ \A id \in Ids : graph.entities[id].type # 0 => id < graph.next
  BY <1>1 DEF Identities, NoEntity
<1>7. \A o \in Ids : draft.entities[o].type # 0 =>
        /\ Remap(o) \in Ids /\ Provisional(Remap(o)) = o
        /\ c.entities[Remap(o)] = draft.entities[o]
  <2> SUFFICES ASSUME NEW o \in Ids, draft.entities[o].type # 0
               PROVE  /\ Remap(o) \in Ids /\ Provisional(Remap(o)) = o
                      /\ c.entities[Remap(o)] = draft.entities[o]
    OBVIOUS
  <2>1. o \in 1..(draft.next - 1)
    BY <1>4, <1>6
  <2>2. Remap(o) \in 1..(draft.next - 1) /\ Provisional(Remap(o)) = o
    BY <2>1, <1>2
  <2>3. Remap(o) \in Ids
    BY <2>2, <1>4
  <2>4. QED
    BY <2>2, <2>3, <1>5
<1>8. /\ EntityTypes(c) = EntityTypes(draft) /\ AnonymousTypes(c) = AnonymousTypes(draft)
      /\ Owned(c) = Owned(draft)
  <2>1. \A h \in EntityTypes(c) : h \in EntityTypes(draft)
    <3> SUFFICES ASSUME NEW h \in EntityTypes(c)
                 PROVE  h \in EntityTypes(draft)
      OBVIOUS
    <3>1. PICK id \in Ids : c.entities[id].type = h
      BY OwnedFacts
    <3>2. h # 0 /\ Provisional(id) \in Ids /\ draft.entities[Provisional(id)].type = h
      BY <3>1, <1>2, <1>5, OwnedFacts
    <3>3. QED
      BY <3>2, <1>1, OwnedFacts
  <2>2. \A h \in EntityTypes(draft) : h \in EntityTypes(c)
    <3> SUFFICES ASSUME NEW h \in EntityTypes(draft)
                 PROVE  h \in EntityTypes(c)
      OBVIOUS
    <3>1. PICK o \in Ids : draft.entities[o].type = h
      BY <1>1, OwnedFacts
    <3>2. h # 0
      BY <1>1, OwnedFacts
    <3>3. Remap(o) \in Ids /\ c.entities[Remap(o)].type = h
      BY <3>1, <3>2, <1>7
    <3>4. QED
      BY <3>2, <3>3, OwnedFacts
  <2>3. AnonymousTypes(c) = AnonymousTypes(draft)
    BY <1>5 DEF AnonymousTypes
  <2>4. QED
    BY <2>1, <2>2, <2>3 DEF Owned
<1>9. Partitioned(c)
  <2>1. \A i, j \in Ids : c.entities[i].type = c.entities[j].type
                          /\ c.entities[i].type # 0 => i = j
    <3> SUFFICES ASSUME NEW i \in Ids, NEW j \in Ids, c.entities[i].type # 0,
                        c.entities[i].type = c.entities[j].type
                 PROVE  i = j
      OBVIOUS
    <3>1. Provisional(i) \in Ids /\ Provisional(j) \in Ids
      BY <1>2
    <3>2. /\ draft.entities[Provisional(i)].type # 0
          /\ draft.entities[Provisional(i)].type = draft.entities[Provisional(j)].type
      BY <1>5
    <3>3. Provisional(i) = Provisional(j)
      BY <3>1, <3>2, <1>1 DEF Partitioned
    <3>4. QED
      BY <3>3, <1>2
  <2>2. /\ \A s, t \in Sources : s # t => c.anonymous[s] \cap c.anonymous[t] = {}
        /\ EntityTypes(c) \cap AnonymousTypes(c) = {}
        /\ \A h \in Owned(c) : h <= c.slots /\ c.types[h].kind # "none"
        /\ \A h \in Handles \ Owned(c) : c.types[h] = NoType
        /\ \A h \in AnonymousTypes(c) : c.types[h].kind = "enum"
        /\ \A h \in Handles : c.types[h].members # {} \/ c.types[h].pending # {} =>
             c.types[h].kind = "aggregate" /\ c.types[h].defined
    BY <1>1, <1>5, <1>8 DEF Partitioned
  <2>3. ASSUME NEW id \in Ids, c.entities[id].type # 0
        PROVE  SameShape(c.types[c.entities[id].type], Materialized(c.counts[id], {}))
    <3> DEFINE o == Provisional(id)
    <3>1. /\ o \in Ids /\ c.entities[id] = draft.entities[o] /\ c.counts[id] = draft.counts[o]
      BY <1>2, <1>5
    <3> HIDE DEF o
    <3>2. SameShape(draft.types[draft.entities[o].type], Materialized(draft.counts[o], {}))
      BY <3>1, <2>3, <1>1 DEF Partitioned
    <3>3. QED
      BY <3>1, <3>2, <1>5
  <2>4. QED
    BY <2>1, <2>2, <2>3 DEF Partitioned
<1>10. c.full => Rebuilt(c)
  <2> SUFFICES ASSUME draft.full
               PROVE  Rebuilt(c)
    BY <1>5
  <2>1. Rebuilt(draft)
    BY DEF UpdateOK
  <2>2. QED
    BY <2>1, <1>5, <1>8 DEF Rebuilt
<1>11. ASSUME ~draft.full
       PROVE  Overlay(c)
  <2>1. Overlay(draft)
    BY <1>11 DEF UpdateOK
  <2>2. ASSUME NEW id \in Ids
        PROVE  IF graph.entities[id].type = 0 THEN c.entities[id].type \notin Owned(graph)
               ELSE c.entities[id].type \in {0, graph.entities[id].type}
    <3>1. CASE id \notin NewIds
      <4>1. c.entities[id] = draft.entities[id]
        BY <3>1, <1>2, <1>5
      <4>2. QED
        BY <4>1, <2>1 DEF Overlay
    <3>2. CASE id \in NewIds
      <4> DEFINE o == Provisional(id)
      <4>1. o \in NewIds /\ o \in Ids /\ c.entities[id] = draft.entities[o]
        BY <3>2, <1>2, <1>5
      <4> HIDE DEF o
      <4>2. graph.entities[id].type = 0 /\ graph.entities[o].type = 0
        BY <3>2, <4>1, <1>4, <1>6
      <4>3. draft.entities[o].type \notin Owned(graph)
        BY <4>1, <4>2, <2>1 DEF Overlay
      <4>4. QED
        BY <4>1, <4>2, <4>3
    <3>3. QED
      BY <3>1, <3>2
  <2>3. ASSUME NEW s \in Sources, draft.named[s] = graph.named[s]
        PROVE  c.named[s] = graph.named[s]
    <3>1. ASSUME NEW i \in DOMAIN draft.named[s]
          PROVE  c.named[s][i] = graph.named[s][i]
      <4> DEFINE x == graph.named[s][i]
      <4>1. i \in DOMAIN graph.named[s] /\ draft.named[s][i] = x
        BY <2>3, <3>1
      <4>2. graph.named \in Nameds
        BY <1>1, StateFacts
      <4>3. x \in Contribution /\ x.id \in Ids /\ x.fact \in Fact
        BY <4>1, <4>2, NamedFacts
      <4>4. x.fact.kind # "anonymous" /\ graph.identity[x.fact.name] = x.id
        BY <4>1, <1>1 DEF Sound, Contributed
      <4> HIDE DEF x
      <4>5. x.fact.name \in Names
        BY <4>3, <4>4, FactFacts
      <4>6. x.id \in 1..(graph.next - 1)
        BY <4>3, <4>4, <4>5, <1>1, <1>4 DEF Identities
      <4>7. Remap(x.id) = x.id
        BY <4>6, <1>3
      <4>8. c.named[s][i] = [id |-> x.id, fact |-> x.fact]
        BY <4>1, <4>7, <1>5
      <4>9. QED
        BY <4>3, <4>8 DEF Contribution, x
    <3>2. c.named[s] = [i \in DOMAIN draft.named[s] |-> c.named[s][i]]
      BY <1>5
    <3>3. graph.named[s] = [i \in DOMAIN draft.named[s] |-> graph.named[s][i]]
      <4>1. graph.named[s] \in Seq(Contribution)
        BY <1>1 DEF StateOK
      <4>2. QED
        BY <4>1, <2>3
    <3>4. QED
      BY <3>1, <3>2, <3>3
  <2>4. \A s \in Sources : s = c.source \/ c.named[s] # graph.named[s] =>
          \A i \in DOMAIN graph.named[s] :
            graph.entities[graph.named[s][i].id].type \in c.touched
    BY <2>1, <2>3, <1>5 DEF Overlay
  <2>5. QED
    BY <2>1, <2>2, <2>4, <1>5 DEF Overlay
<1>12. ASSUME NEW id \in Ids
       PROVE  PendingFrom(c, id)
  <2> DEFINE o == Provisional(id)
             h == draft.entities[o].type
             s == draft.counts[o].definition
  <2>1. o \in Ids /\ c.entities[id].type = h /\ c.counts[id].definition = s
    <3>1. o \in Ids /\ c.entities[id] = draft.entities[o] /\ c.counts[id] = draft.counts[o]
      BY <1>2, <1>5
    <3> HIDE DEF o
    <3>2. QED
      BY <3>1
  <2> SUFFICES ASSUME h # 0, draft.types[h].pending # {}
               PROVE  /\ s \in Sources /\ s <= c.source
                      /\ \E i \in DOMAIN c.named[s] :
                           /\ c.named[s][i].id = id
                           /\ draft.types[h].pending \subseteq c.named[s][i].fact.members
    BY <2>1, <1>5 DEF PendingFrom
  <2>2. Remap(o) = id
    BY <2>1, <1>2, <1>6
  <2>3. PendingFrom(draft, o)
    BY <2>1 DEF UpdateOK
  <2> HIDE DEF o, s
  <2>4. /\ s \in Sources /\ s <= draft.source
        /\ \E i \in DOMAIN draft.named[s] :
             /\ draft.named[s][i].id = o
             /\ draft.types[h].pending \subseteq draft.named[s][i].fact.members
    BY <2>3 DEF PendingFrom, s
  <2> HIDE DEF h
  <2>5. PICK i \in DOMAIN draft.named[s] :
             /\ draft.named[s][i].id = o
             /\ draft.types[h].pending \subseteq draft.named[s][i].fact.members
    BY <2>4
  <2>6. /\ i \in DOMAIN c.named[s]
        /\ c.named[s][i] = [id |-> id, fact |-> draft.named[s][i].fact]
    BY <2>2, <2>4, <2>5, <1>5
  <2>7. c.named[s][i].id = id /\ c.named[s][i].fact = draft.named[s][i].fact
    BY <2>6
  <2>8. QED
    BY <2>4, <2>5, <2>6, <2>7, <1>5
<1>13. /\ c.touched \subseteq 1..c.slots
       /\ "rebuild" \in usage.modes => AnonymousTypes(c) = {}
       /\ \A h \in c.touched : c.types[h].members = {}
  BY <1>5, <1>8 DEF UpdateOK
<1>14. QED
  BY <1>5, <1>9, <1>10, <1>11, <1>12, <1>13 DEF UpdateOK

(* A type that an incremental update keeps keeps its name.                 *)
LEMMA NameKept ==
  ASSUME GraphOK, CommittedInv, NEW d, StateOK(d), Partitioned(d), Overlay(d),
         NEW n \in Names, NEW m \in Handles, NameType(n, graph) = m, Live(m, d),
         graph.identity[n] # 0 => d.identity[n] = graph.identity[n]
  PROVE  NameType(n, d) = m
<1> DEFINE j == graph.identity[n]
<1>1. StateOK(graph) /\ Partitioned(graph) /\ m # 0
  BY OwnedFacts DEF GraphOK, CommittedInv
<1>2. j # 0 /\ j \in Ids /\ graph.entities[j].type = m
  BY <1>1, StateFacts DEF NameType, Entity
<1>3. m \in EntityTypes(graph) /\ m \in Owned(graph) /\ m \notin AnonymousTypes(graph)
  BY <1>1, <1>2, OwnedFacts DEF Partitioned
<1>4. m \in Owned(d)
  BY DEF Live, Partitioned, NoType
<1>5. m \notin AnonymousTypes(d)
  <2> SUFFICES ASSUME m \in AnonymousTypes(d)
               PROVE  FALSE
    OBVIOUS
  <2>1. PICK s \in Sources : m \in d.anonymous[s]
    BY OwnedFacts
  <2>2. m \in graph.anonymous[s]
    BY <2>1, <1>3 DEF Overlay
  <2>3. QED
    BY <2>2, <1>1, <1>3, OwnedFacts
<1>6. PICK o \in Ids : d.entities[o].type = m
  BY <1>4, <1>5, OwnedFacts
<1>7. graph.entities[o].type = m
  <2>1. IF graph.entities[o].type = 0 THEN d.entities[o].type \notin Owned(graph)
        ELSE d.entities[o].type \in {0, graph.entities[o].type}
    BY DEF Overlay
  <2>2. QED
    BY <2>1, <1>1, <1>3, <1>6
<1>8. o = j
  BY <1>1, <1>2, <1>7 DEF Partitioned
<1>9. d.identity[n] = j
  BY <1>2
<1>10. QED
  BY <1>2, <1>6, <1>8, <1>9 DEF NameType, Entity

(* resolve_pending_members and validate_live_member_type_refs link the     *)
(* members of all types, those that the update did not touch too.          *)
LEMMA TablesResolved ==
  ASSUME GraphOK, CommittedInv, NEW c, StateOK(c), UpdateOK(c, "building"),
         c.touched \subseteq Handles,
         \A n \in Names : graph.identity[n] # 0 => c.identity[n] = graph.identity[n],
         Resolvable(c), NEW d, ResolvedDraft(d, c), StateOK(d), MembersLive(d)
  PROVE  UpdateOK(d, "prepared")
<1>1. /\ d.full = c.full /\ d.identity = c.identity /\ d.next = c.next
      /\ d.entities = c.entities /\ d.slots = c.slots /\ d.named = c.named
      /\ d.anonymous = c.anonymous /\ d.counts = c.counts
      /\ d.touched = c.touched /\ d.claimed = c.claimed /\ d.source = c.source
  BY DEF ResolvedDraft
<1>2. /\ \A h \in Handles : h \in c.touched =>
           /\ d.types[h].members = {NameType(n, c) : n \in c.types[h].pending}
           /\ d.types[h].members \subseteq Handles
           /\ d.types[h].pending = {} /\ SameShape(d.types[h], c.types[h])
      /\ \A h \in Handles : h \notin c.touched => d.types[h] = c.types[h]
  BY ResolvedTypes
<1>3. /\ Partitioned(c) /\ StateOK(graph) /\ Partitioned(graph) /\ Linked(graph)
      /\ DependencyIndexExact
  BY DEF UpdateOK, CommittedInv, GraphOK
<1>4. \A n : NameType(n, d) = NameType(n, c)
  BY <1>1 DEF NameType, Entity
<1>5. /\ EntityTypes(d) = EntityTypes(c) /\ AnonymousTypes(d) = AnonymousTypes(c)
      /\ Owned(d) = Owned(c)
  BY <1>1 DEF EntityTypes, AnonymousTypes, Owned
<1>6. \A h \in Handles : SameShape(d.types[h], c.types[h])
  BY <1>2 DEF SameShape
<1>7. \A h \in Handles : d.types[h].members # {} \/ d.types[h].pending # {} =>
        c.types[h].members # {} \/ c.types[h].pending # {}
  <2> SUFFICES ASSUME NEW h \in Handles, c.types[h].members = {}, c.types[h].pending = {}
               PROVE  d.types[h].members = {} /\ d.types[h].pending = {}
    OBVIOUS
  <2>1. CASE h \in c.touched
    BY <2>1, <1>2
  <2>2. CASE h \notin c.touched
    BY <2>2, <1>2
  <2>3. QED
    BY <2>1, <2>2
<1>8. \A h \in Handles : c.types[h] = NoType => d.types[h] = NoType
  <2> SUFFICES ASSUME NEW h \in Handles, c.types[h] = NoType
               PROVE  d.types[h] = NoType
    OBVIOUS
  <2>1. d.types[h].members = {} /\ d.types[h].pending = {} /\ SameShape(d.types[h], NoType)
    BY <1>6, <1>7 DEF NoType
  <2>2. d.types[h] \in TypeRecord
    BY StateFacts
  <2>3. QED
    BY <2>1, <2>2 DEF SameShape, TypeRecord, NoType
<1>9. Partitioned(d)
  <2>1. \A h \in Owned(d) : h \in Handles
    BY OwnedFacts
  <2>2. \A h \in AnonymousTypes(d) : h \in Handles
    BY OwnedFacts
  <2>3. \A id \in Ids : d.entities[id].type # 0 => d.entities[id].type \in Handles
    BY OwnedFacts
  <2>4. /\ \A i, j \in Ids : d.entities[i].type = d.entities[j].type
                             /\ d.entities[i].type # 0 => i = j
        /\ \A s, t \in Sources : s # t => d.anonymous[s] \cap d.anonymous[t] = {}
        /\ EntityTypes(d) \cap AnonymousTypes(d) = {}
    BY <1>1, <1>3, <1>5 DEF Partitioned
  <2>5. \A h \in Owned(d) : h <= d.slots /\ d.types[h].kind # "none"
    BY <1>1, <1>3, <1>5, <1>6, <2>1 DEF Partitioned, SameShape
  <2>6. \A h \in Handles \ Owned(d) : d.types[h] = NoType
    BY <1>3, <1>5, <1>8 DEF Partitioned
  <2>7. \A h \in AnonymousTypes(d) : d.types[h].kind = "enum"
    BY <1>3, <1>5, <1>6, <2>2 DEF Partitioned, SameShape
  <2>8. ASSUME NEW id \in Ids, d.entities[id].type # 0
        PROVE  SameShape(d.types[d.entities[id].type], Materialized(d.counts[id], {}))
    <3>1. SameShape(c.types[d.entities[id].type], Materialized(d.counts[id], {}))
      BY <2>8, <1>1, <1>3 DEF Partitioned
    <3>2. SameShape(d.types[d.entities[id].type], c.types[d.entities[id].type])
      BY <2>3, <2>8, <1>6
    <3>3. QED
      BY <3>1, <3>2 DEF SameShape
  <2>9. ASSUME NEW h \in Handles, d.types[h].members # {} \/ d.types[h].pending # {}
        PROVE  d.types[h].kind = "aggregate" /\ d.types[h].defined
    <3>1. c.types[h].kind = "aggregate" /\ c.types[h].defined
      BY <2>9, <1>3, <1>7 DEF Partitioned
    <3>2. d.types[h].kind = c.types[h].kind /\ d.types[h].defined = c.types[h].defined
      BY <1>6 DEF SameShape
    <3>3. QED
      BY <3>1, <3>2, Zenon
  <2>10. QED
    BY <2>4, <2>5, <2>6, <2>7, <2>8, <2>9 DEF Partitioned
<1>10. d.full => Rebuilt(d)
  <2> SUFFICES ASSUME c.full
               PROVE  Rebuilt(d)
    BY <1>1
  <2>1. Rebuilt(c)
    BY DEF UpdateOK
  <2>2. QED
    BY <2>1, <1>1, <1>2, <1>5 DEF Rebuilt
<1>11. ~d.full => Overlay(d)
  <2> SUFFICES ASSUME ~c.full
               PROVE  Overlay(d)
    BY <1>1
  <2>1. Overlay(c)
    BY DEF UpdateOK
  <2>2. QED
    BY <2>1, <1>1, <1>2 DEF Overlay
(* The members that were just resolved.                                    *)
<1>12. ASSUME NEW h \in Handles, h \in d.touched, NEW m \in d.types[h].members
       PROVE  /\ Live(m, d)
              /\ \A id \in Ids : d.entities[id].type = h =>
                   \E s \in Sources : \E i \in DOMAIN d.named[s] :
                     /\ d.named[s][i].id = id
                     /\ \E n \in d.named[s][i].fact.members : NameType(n, d) = m
  <2>1. Live(m, d)
    BY <1>12 DEF MembersLive
  <2>2. PICK n \in c.types[h].pending : m = NameType(n, c)
    BY <1>1, <1>2, <1>12
  <2>3. ASSUME NEW id \in Ids, d.entities[id].type = h
        PROVE  \E s \in Sources : \E i \in DOMAIN d.named[s] :
                 /\ d.named[s][i].id = id
                 /\ \E o \in d.named[s][i].fact.members : NameType(o, d) = m
    <3> DEFINE s == c.counts[id].definition
    <3>1. c.entities[id].type = h /\ h # 0 /\ c.types[h].pending # {}
      BY <2>2, <2>3, <1>1, OwnedFacts
    <3>2. PendingFrom(c, id)
      BY DEF UpdateOK
    <3> HIDE DEF s
    <3>3. s \in Sources /\ \E i \in DOMAIN c.named[s] :
            c.named[s][i].id = id /\ c.types[h].pending \subseteq c.named[s][i].fact.members
      BY <3>1, <3>2 DEF PendingFrom, s
    <3>4. PICK i \in DOMAIN c.named[s] :
            c.named[s][i].id = id /\ c.types[h].pending \subseteq c.named[s][i].fact.members
      BY <3>3
    <3>5. n \in c.named[s][i].fact.members /\ NameType(n, d) = m
      BY <3>4, <2>2, <1>4
    <3>6. QED
      BY <3>3, <3>4, <3>5, <1>1
  <2>4. QED
    BY <2>1, <2>3
(* Those of a type that the update did not touch.                          *)
<1>13. ASSUME NEW h \in Handles, h \notin d.touched, NEW m \in d.types[h].members
       PROVE  /\ Live(m, d)
              /\ \A id \in Ids : d.entities[id].type = h =>
                   \E s \in Sources : \E i \in DOMAIN d.named[s] :
                     /\ d.named[s][i].id = id
                     /\ \E n \in d.named[s][i].fact.members : NameType(n, d) = m
  <2>1. ~d.full
    <3>1. d.full => d.types[h] = NoType
      BY <1>10, <1>13 DEF Rebuilt
    <3>2. NoType.members = {}
      BY DEF NoType
    <3>3. QED
      BY <3>1, <3>2, <1>13
  <2>2. Overlay(d)
    BY <2>1, <1>11
  <2>3. d.types[h] = graph.types[h]
    BY <2>2, <1>13 DEF Overlay
  <2>4. m \in graph.types[h].members /\ m \in Handles
    BY <2>3, <1>3, <1>13, StateFacts DEF TypeRecord
  <2>5. h \in graph.dependents[m]
    BY <2>4, <1>3 DEF DependencyIndexExact
  <2>6. Live(m, graph)
    BY <2>4, <1>3 DEF Linked
  <2>7. Live(m, d)
    <3>1. CASE m \in d.touched
      BY <3>1, <2>1, <2>5, <1>13 DEF MembersLive
    <3>2. CASE m \notin d.touched
      BY <3>2, <2>2, <2>4, <2>6 DEF Live, Overlay
    <3>3. QED
      BY <3>1, <3>2
  <2>8. h \in Owned(graph)
    BY <2>4, <1>3 DEF Partitioned, NoType
  <2>9. ASSUME NEW id \in Ids, d.entities[id].type = h
        PROVE  \E s \in Sources : \E i \in DOMAIN d.named[s] :
                 /\ d.named[s][i].id = id
                 /\ \E n \in d.named[s][i].fact.members : NameType(n, d) = m
    <3>1. graph.entities[id].type = h
      <4>1. IF graph.entities[id].type = 0 THEN d.entities[id].type \notin Owned(graph)
            ELSE d.entities[id].type \in {0, graph.entities[id].type}
        BY <2>2 DEF Overlay
      <4>2. h # 0
        BY OwnedFacts
      <4>3. QED
        BY <4>1, <4>2, <2>8, <2>9
    <3>2. PICK s \in Sources : \E i \in DOMAIN graph.named[s] :
            /\ graph.named[s][i].id = id
            /\ \E n \in graph.named[s][i].fact.members : NameType(n, graph) = m
      BY <3>1, <2>4, <1>3 DEF Linked
    <3>3. PICK i \in DOMAIN graph.named[s] :
            /\ graph.named[s][i].id = id
            /\ \E n \in graph.named[s][i].fact.members : NameType(n, graph) = m
      BY <3>2
    <3>4. PICK n \in graph.named[s][i].fact.members : NameType(n, graph) = m
      BY <3>3
    <3>5. d.named[s] = graph.named[s]
      BY <3>1, <3>3, <2>2, <1>13 DEF Overlay
    <3>6. n \in Names
      <4>1. graph.named \in Nameds
        BY <1>3, StateFacts
      <4>2. graph.named[s][i].fact \in Fact
        BY <4>1, NamedFacts
      <4>3. QED
        BY <4>2 DEF Fact
    <3>7. NameType(n, d) = m
      BY <3>4, <3>6, <2>2, <2>4, <2>7, <1>1, <1>9, NameKept
    <3>8. QED
      BY <3>3, <3>4, <3>5, <3>7
  <2>10. QED
    BY <2>7, <2>9
<1>14. Linked(d)
  BY <1>12, <1>13 DEF Linked
<1>15. d.touched \subseteq 1..d.slots /\ ("rebuild" \in usage.modes => AnonymousTypes(d) = {})
  BY <1>1, <1>5 DEF UpdateOK
<1>16. QED
  BY <1>9, <1>10, <1>11, <1>14, <1>15 DEF UpdateOK

(* prepare_publish links the members, or discards the update.              *)
LEMMA TablesPrepare ==
  ASSUME BaseInv, TablesInv, usage' = usage, PreparePublish, BaseInv'
  PROVE  TablesInv'
<1>1. /\ GraphOK /\ CommittedInv /\ DraftOK(draft, "building") /\ UpdateOK(draft, "building")
      /\ phase = "building"
  BY DEF BaseInv, TablesInv, PreparePublish, Open
<1> DEFINE c == Canonicalized
           d == draft'
<1>2. CanonicalDraft(c)
  BY <1>1, CanonicalFields DEF DraftOK
<1>3. \/ Discard
      \/ /\ Resolvable(c) /\ MembersLive(Resolved(c))
         /\ d = Resolved(c) /\ phase' = "prepared" /\ graph' = graph
  BY DEF PreparePublish
<1> HIDE DEF c, d
<1>4. CASE Discard
  BY <1>4, TablesDiscard
<1>5. CASE /\ Resolvable(c) /\ MembersLive(Resolved(c))
           /\ d = Resolved(c) /\ phase' = "prepared" /\ graph' = graph
  <2>1. /\ StateOK(c)
        /\ \A n \in Names : graph.identity[n] # 0 => c.identity[n] = graph.identity[n]
    BY <1>1, <1>2, CanonicalSound
  <2>2. UpdateOK(c, "building")
    BY <1>1, <1>2, <2>1, TablesCanonical
  <2>3. DOMAIN c = DraftFields /\ c.touched = draft.touched
    BY <1>2 DEF CanonicalDraft
  <2>4. c.touched \subseteq Handles
    BY <2>3, <1>1 DEF DraftOK
  <2>5. ResolvedDraft(d, c)
    BY <1>5, <2>3, ResolvedFields
  <2>6. StateOK(d)
    <3>1. (DraftOK(draft, phase))'
      BY <1>5 DEF BaseInv, Open
    <3>2. (StateOK(draft))'
      BY <3>1 DEF DraftOK
    <3>3. QED
      BY <3>2 DEF StateOK, d
  <2>7. UpdateOK(d, "prepared")
    BY <1>1, <1>5, <2>1, <2>2, <2>4, <2>5, <2>6, TablesResolved
  <2>8. QED
    BY <1>5, <2>7, TablesStep DEF d
<1>6. QED
  BY <1>3, <1>4, <1>5

(* publish_prepared commits the tables of the candidate, with a free list  *)
(* and dependency indexes that fit them.                                   *)
LEMMA TablesPublished ==
  ASSUME GraphOK, CommittedInv, DraftOK(draft, "prepared"), UpdateOK(draft, "prepared"),
         NEW g, PublishedGraph(g)
  PROVE  /\ Partitioned(g) /\ Linked(g)
         /\ g.free = (1..g.slots) \ Owned(g)
         /\ \A h \in Handles :
              /\ g.deps[h] = g.types[h].members
              /\ g.dependents[h] = {o \in Handles : h \in g.types[o].members}
         /\ "rebuild" \in usage.modes => AnonymousTypes(g) = {}
<1>1. /\ StateOK(graph) /\ StateOK(draft) /\ Partitioned(graph) /\ Partitioned(draft)
      /\ Linked(draft) /\ DependencyIndexExact /\ (~draft.full => Overlay(draft))
      /\ graph.free = (1..graph.slots) \ Owned(graph)
      /\ draft.touched \subseteq 1..draft.slots /\ draft.touched \subseteq Handles
  BY DEF GraphOK, DraftOK, CommittedInv, UpdateOK
<1>2. /\ g.identity = draft.identity /\ g.next = draft.next /\ g.entities = draft.entities
      /\ g.types = KeptTypes /\ g.slots = draft.slots
      /\ g.named = draft.named /\ g.anonymous = draft.anonymous /\ g.counts = draft.counts
  BY DEF PublishedGraph
<1>3. g.free = IF draft.full THEN {h \in 1..draft.slots : KeptTypes[h] = NoType}
               ELSE (graph.free \ draft.claimed)
                    \cup {h \in draft.touched : KeptTypes[h] = NoType}
  BY DEF PublishedGraph
<1>4. /\ \A h \in Handles : g.deps[h] =
           IF draft.full \/ h \in draft.touched
           THEN IF h \in Kept THEN DependenciesOf(h) ELSE {}
           ELSE graph.deps[h]
      /\ \A h \in Handles : g.dependents[h] =
           IF draft.full THEN {o \in Kept : h \in DependenciesOf(o)}
           ELSE UpdatedDependents(h)
  BY DEF PublishedGraph
<1>5. /\ draft.slots \in Nat /\ graph.slots \in Nat
      /\ 1..draft.slots \subseteq Handles /\ 1..graph.slots \subseteq Handles
      /\ \A h \in Handles : h \in Nat
  BY <1>1, ConstantFacts DEF StateOK, Handles
<1>6. \A h \in Handles : h \notin Kept => draft.types[h] = NoType
  BY <1>1, <1>5 DEF Kept, Partitioned
<1>7. \A h \in Handles : g.types[h] = draft.types[h]
  BY <1>2, <1>6 DEF KeptTypes
<1>8. /\ EntityTypes(g) = EntityTypes(draft) /\ AnonymousTypes(g) = AnonymousTypes(draft)
      /\ Owned(g) = Owned(draft)
  BY <1>2 DEF EntityTypes, AnonymousTypes, Owned
<1>9. \A n : NameType(n, g) = NameType(n, draft)
  BY <1>2 DEF NameType, Entity
<1>10. Partitioned(g)
  <2>1. /\ Owned(draft) \subseteq Handles /\ AnonymousTypes(draft) \subseteq Handles
        /\ \A id \in Ids : draft.entities[id].type # 0 => draft.entities[id].type \in Handles
    BY <1>1, OwnedFacts
  <2>2. /\ \A i, j \in Ids : g.entities[i].type = g.entities[j].type
                             /\ g.entities[i].type # 0 => i = j
        /\ \A s, t \in Sources : s # t => g.anonymous[s] \cap g.anonymous[t] = {}
        /\ EntityTypes(g) \cap AnonymousTypes(g) = {}
    BY <1>1, <1>2, <1>8 DEF Partitioned
  <2>3. /\ \A h \in Owned(g) : h <= g.slots /\ g.types[h].kind # "none"
        /\ \A h \in Handles \ Owned(g) : g.types[h] = NoType
        /\ \A h \in AnonymousTypes(g) : g.types[h].kind = "enum"
        /\ \A h \in Handles : g.types[h].members # {} \/ g.types[h].pending # {} =>
             g.types[h].kind = "aggregate" /\ g.types[h].defined
    BY <1>1, <1>2, <1>7, <1>8, <2>1 DEF Partitioned
  <2>4. \A id \in Ids : g.entities[id].type # 0 =>
          SameShape(g.types[g.entities[id].type], Materialized(g.counts[id], {}))
    BY <1>1, <1>2, <1>7, <2>1 DEF Partitioned
  <2>5. QED
    BY <2>2, <2>3, <2>4 DEF Partitioned
<1>11. Linked(g)
  <2> SUFFICES ASSUME NEW h \in Handles, NEW m \in draft.types[h].members
               PROVE  /\ Live(m, g)
                      /\ \A id \in Ids : g.entities[id].type = h =>
                           \E s \in Sources : \E i \in DOMAIN g.named[s] :
                             /\ g.named[s][i].id = id
                             /\ \E n \in g.named[s][i].fact.members : NameType(n, g) = m
    BY <1>7 DEF Linked
  <2>1. Live(m, g)
    BY <1>1, <1>7 DEF Live, Linked
  <2>2. ASSUME NEW id \in Ids, g.entities[id].type = h
        PROVE  \E s \in Sources : \E i \in DOMAIN g.named[s] :
                 /\ g.named[s][i].id = id
                 /\ \E n \in g.named[s][i].fact.members : NameType(n, g) = m
    <3>1. \E s \in Sources : \E i \in DOMAIN draft.named[s] :
            /\ draft.named[s][i].id = id
            /\ \E n \in draft.named[s][i].fact.members : NameType(n, draft) = m
      BY <2>2, <1>1, <1>2 DEF Linked
    <3>2. QED
      BY <3>1, <1>2, <1>9
  <2>3. QED
    BY <2>1, <2>2
<1>12. \A h \in 1..draft.slots : g.types[h] = NoType <=> h \notin Owned(draft)
  <2> SUFFICES ASSUME NEW h \in 1..draft.slots
               PROVE  draft.types[h] = NoType <=> h \notin Owned(draft)
    BY <1>5, <1>7
  <2>1. NoType.kind = "none"
    BY DEF NoType
  <2>2. QED
    BY <2>1, <1>1, <1>5 DEF Partitioned
<1>13. g.free = (1..draft.slots) \ Owned(draft)
  <2>1. CASE draft.full
    BY <2>1, <1>2, <1>3, <1>12
  <2>2. CASE ~draft.full
    <3>1. /\ Overlay(draft)
          /\ g.free = (graph.free \ draft.claimed) \cup {h \in draft.touched : g.types[h] = NoType}
      BY <2>2, <1>1, <1>2, <1>3
    <3>2. ASSUME NEW h \in graph.free \ draft.claimed
          PROVE  h \in (1..draft.slots) \ Owned(draft)
      <4>1. h \in 1..draft.slots
        BY <3>1, <3>2, <1>1, <1>5 DEF Overlay
      <4>2. h \notin Owned(draft)
        BY <3>1, <3>2, <1>1, OwnedNotFree
      <4>3. QED
        BY <4>1, <4>2
    <3>3. ASSUME NEW h \in draft.touched, g.types[h] = NoType
          PROVE  h \in (1..draft.slots) \ Owned(draft)
      BY <3>3, <1>1, <1>12
    <3>4. ASSUME NEW h \in (1..draft.slots) \ Owned(draft), h \notin draft.touched
          PROVE  h \in graph.free \ draft.claimed
      <4>1. h \in Handles /\ g.types[h] = NoType
        BY <1>5, <1>12
      <4>2. h \in 1..graph.slots
        BY <3>1, <3>4, <1>5 DEF Overlay
      <4>3. graph.types[h] = NoType
        BY <3>1, <3>4, <4>1, <1>7 DEF Overlay
      <4>4. h \notin Owned(graph)
        BY <4>1, <4>3, <1>1 DEF Partitioned, NoType
      <4>5. h \notin draft.claimed
        BY <3>1, <3>4 DEF Overlay
      <4>6. QED
        BY <4>2, <4>4, <4>5, <1>1
    <3>5. \A h \in (1..draft.slots) \ Owned(draft) : g.types[h] = NoType
      BY <1>12
    <3>6. QED
      BY <3>1, <3>2, <3>3, <3>4, <3>5
  <2>3. QED
    BY <2>1, <2>2
<1>14. \A h \in Handles : DependenciesOf(h) = g.types[h].members
  <2> SUFFICES ASSUME NEW h \in Handles
               PROVE  DependenciesOf(h) = draft.types[h].members
    BY <1>7
  <2>1. draft.types[h].members # {} => draft.types[h].kind = "aggregate" /\ draft.types[h].defined
    BY <1>1 DEF Partitioned
  <2>2. QED
    BY <2>1, Zenon DEF DependenciesOf
<1>15. \A h \in Handles : h \notin Kept => g.types[h].members = {}
  BY <1>6, <1>7 DEF NoType
<1>16. /\ Kept \subseteq Handles
       /\ ~draft.full => Kept = Handles
  BY DEF Kept
<1>17. ASSUME NEW h \in Handles
       PROVE  g.deps[h] = g.types[h].members
  <2>1. CASE draft.full \/ h \in draft.touched
    <3>1. g.deps[h] = IF h \in Kept THEN DependenciesOf(h) ELSE {}
      BY <2>1, <1>4
    <3>2. DependenciesOf(h) = g.types[h].members /\ (h \notin Kept => g.types[h].members = {})
      BY <1>14, <1>15
    <3>3. QED
      BY <3>1, <3>2
  <2>2. CASE ~draft.full /\ h \notin draft.touched
    <3>1. draft.types[h] = graph.types[h]
      BY <2>2, <1>1 DEF Overlay
    <3>2. graph.deps[h] = graph.types[h].members
      BY <1>1 DEF DependencyIndexExact
    <3>3. QED
      BY <2>2, <3>1, <3>2, <1>4, <1>7
  <2>3. QED
    BY <2>1, <2>2
<1>18. ASSUME NEW h \in Handles
       PROVE  g.dependents[h] = {o \in Handles : h \in g.types[o].members}
  <2>1. CASE draft.full
    <3>1. g.dependents[h] = {o \in Kept : h \in DependenciesOf(o)}
      BY <2>1, <1>4
    <3>2. QED
      BY <3>1, <1>14, <1>15, <1>16
  <2>2. CASE ~draft.full
    <3>1. g.dependents[h] = UpdatedDependents(h)
      BY <2>2, <1>4
    <3>2. \A o \in Handles : /\ graph.deps[o] = graph.types[o].members
                             /\ o \in graph.dependents[h] <=> h \in graph.types[o].members
      BY <1>1 DEF DependencyIndexExact
    <3>3. graph.dependents[h] \subseteq Handles
      BY <1>1 DEF DependencyIndexExact
    <3>4. \A o \in Handles : o \notin draft.touched => g.types[o] = graph.types[o]
      BY <2>2, <1>1, <1>7 DEF Overlay
    <3>5. ASSUME NEW o \in Handles
          PROVE  o \in UpdatedDependents(h) <=> h \in g.types[o].members
      <4>1. CASE o \in draft.touched
        BY <4>1, <3>2, <1>14 DEF UpdatedDependents
      <4>2. CASE o \notin draft.touched
        BY <4>2, <3>2, <3>4 DEF UpdatedDependents
      <4>3. QED
        BY <4>1, <4>2
    <3>6. UpdatedDependents(h) \subseteq Handles
      BY <3>3, <1>1 DEF UpdatedDependents
    <3>7. QED
      BY <3>1, <3>5, <3>6
  <2>3. QED
    BY <2>1, <2>2
<1>19. "rebuild" \in usage.modes => AnonymousTypes(g) = {}
  BY <1>8 DEF UpdateOK
<1>20. QED
  BY <1>2, <1>8, <1>10, <1>11, <1>13, <1>17, <1>18, <1>19

(* So it keeps the committed tables in order.                              *)
LEMMA TablesPublish ==
  ASSUME BaseInv, TablesInv, usage' = usage, PublishPrepared
  PROVE  TablesInv'
<1>1. /\ GraphOK /\ CommittedInv /\ DraftOK(draft, "prepared") /\ UpdateOK(draft, "prepared")
  BY DEF BaseInv, TablesInv, PublishPrepared, Open
<1>2. PublishedGraph(graph') /\ phase' = "idle"
  BY PublishedFields
<1> DEFINE g == graph'
<1> HIDE DEF g
<1>3. PublishedGraph(g)
  BY <1>2 DEF g
<1>4. /\ Partitioned(g) /\ Linked(g)
      /\ g.free = (1..g.slots) \ Owned(g)
      /\ \A h \in Handles :
           /\ g.deps[h] = g.types[h].members
           /\ g.dependents[h] = {o \in Handles : h \in g.types[o].members}
      /\ "rebuild" \in usage.modes => AnonymousTypes(g) = {}
  BY <1>1, <1>3, TablesPublished
<1>5. CommittedInv'
  BY <1>4 DEF CommittedInv, DependencyIndexExact, g
<1>6. QED
  BY <1>2, <1>5 DEF TablesInv, Open

(* Every step keeps the tables in order.                                   *)
LEMMA TablesNext ==
  ASSUME NamedRebuilds
  PROVE  BaseInv /\ TablesInv /\ [Next]_vars => TablesInv'
<1> SUFFICES ASSUME BaseInv, TablesInv, [Next]_vars
             PROVE  TablesInv'
  OBVIOUS
<1>1. BaseInv'
  BY BaseNext
<1>2. CASE Next
  <2>1. usage' = usage
    BY <1>2 DEF Next
  <2>2. ASSUME NEW mode \in usage.modes, BeginUpdate(mode)
        PROVE  TablesInv'
    BY <2>1, <2>2, TablesBegin
  <2>3. ASSUME NEW s \in Sources, ReplaceSource(s)
        PROVE  TablesInv'
    BY <1>1, <2>1, <2>3, TablesReplace
  <2>4. ASSUME NEW f \in usage.facts, Declare(f)
        PROVE  TablesInv'
    BY <1>1, <2>1, <2>4, TablesDeclare
  <2>5. ASSUME NEW f \in usage.facts, AddAnonymous(f)
        PROVE  TablesInv'
    BY <1>1, <2>1, <2>5, TablesAnonymous
  <2>6. CASE PreparePublish
    BY <1>1, <2>1, <2>6, TablesPrepare
  <2>7. CASE PublishPrepared
    BY <2>1, <2>7, TablesPublish
  <2>8. CASE Cancel
    BY <2>1, <2>8, TablesDiscard DEF Cancel
  <2>9. QED
    BY <1>2, <2>2, <2>3, <2>4, <2>5, <2>6, <2>7, <2>8 DEF Next, Step
<1>3. CASE UNCHANGED vars
  BY <1>3 DEF vars, TablesInv, CommittedInv, DependencyIndexExact, Open, UpdateOK, Overlay
<1>4. QED
  BY <1>2, <1>3

-------------------------------------------------------------------------------
(* The invariants hold in every state.                                     *)
LEMMA TablesAlways ==
  ASSUME NamedRebuilds
  PROVE  Spec => [](BaseInv /\ TablesInv)
<1>1. Init => BaseInv /\ TablesInv
  BY BaseInit, TablesInit
<1>2. (BaseInv /\ TablesInv) /\ [Next]_vars => (BaseInv /\ TablesInv)'
  BY BaseNext, TablesNext
<1>3. QED
  BY <1>1, <1>2, PTL DEF Spec

(* They say what TablesSound says.                                         *)
LEMMA TablesAreSound == BaseInv /\ TablesInv => TablesSound
<1> SUFFICES ASSUME BaseInv, TablesInv
             PROVE  TablesSound
  OBVIOUS
<1>1. /\ StateOK(graph) /\ Sound(graph) /\ Partitioned(graph) /\ Linked(graph)
      /\ graph.free = (1..graph.slots) \ Owned(graph)
  BY DEF BaseInv, GraphOK, TablesInv, CommittedInv
<1>2. \A h \in Handles : graph.types[h].kind # "none" <=> h \in Owned(graph)
  BY <1>1 DEF Partitioned, NoType
<1>3. {h \in Handles : Live(h, graph)} = Owned(graph)
  BY <1>1, <1>2, OwnedFacts DEF Live
<1>4. SlotsPartitioned
  BY <1>1, <1>3 DEF SlotsPartitioned, Partitioned, Owned, EntityTypes, AnonymousTypes, Entity
<1>5. AnonymousTypesLive
  BY <1>1, OwnedFacts DEF AnonymousTypesLive, Partitioned
<1>6. NoDanglingMember
  BY <1>1 DEF NoDanglingMember, Linked
<1>7. MembersNeverStray
  <2> SUFFICES ASSUME NEW n \in Names, NameType(n, graph) # 0,
                      NEW m \in graph.types[NameType(n, graph)].members
               PROVE  m \in MembersOf(n)
    BY DEF MembersNeverStray
  <2> DEFINE id == graph.identity[n]
             h == NameType(n, graph)
  <2>1. id # 0 /\ id \in Ids /\ graph.entities[id].type = h
    BY <1>1, StateFacts DEF NameType, Entity
  <2>2. h \in Handles
    BY <2>1, <1>1, OwnedFacts
  <2> HIDE DEF id, h
  <2>3. PICK s \in Sources : \E i \in DOMAIN graph.named[s] :
          /\ graph.named[s][i].id = id
          /\ \E o \in graph.named[s][i].fact.members : NameType(o, graph) = m
    BY <2>1, <2>2, <1>1 DEF Linked, h
  <2>4. PICK i \in DOMAIN graph.named[s] :
          /\ graph.named[s][i].id = id
          /\ \E o \in graph.named[s][i].fact.members : NameType(o, graph) = m
    BY <2>3
  <2>5. PICK o \in graph.named[s][i].fact.members : NameType(o, graph) = m
    BY <2>4
  <2> DEFINE x == graph.named[s][i]
             p == <<s, i>>
  <2>6. x.fact.kind # "anonymous" /\ graph.identity[x.fact.name] = id
    BY <2>4, <1>1 DEF Sound, Contributed
  <2>7. graph.named \in Nameds
    BY <1>1, StateFacts
  <2>8. x.fact \in Fact
    BY <2>7, NamedFacts
  <2>9. x.fact.name = n
    <3>1. x.fact.name \in Names
      BY <2>6, <2>8, FactFacts
    <3>2. QED
      BY <3>1, <2>1, <2>6, <1>1 DEF Sound, Identities, id
  <2>10. i \in 1..MaxFacts
    <3>1. DOMAIN graph.named[s] = 1..Len(graph.named[s]) /\ Len(graph.named[s]) \in Nat
      BY <2>7, NamedFacts
    <3>2. Len(graph.named[s]) <= MaxFacts
      BY <1>1 DEF Sound, Contributed
    <3>3. QED
      BY <3>1, <3>2, ConstantFacts
  <2> DEFINE about == {q \in Sources \X (1..MaxFacts) :
                         /\ q[2] \in DOMAIN graph.named[q[1]]
                         /\ graph.named[q[1]][q[2]].fact.name = n}
             types(q) == {NameType(k, graph) : k \in graph.named[q[1]][q[2]].fact.members}
  <2>11. p[1] = s /\ p[2] = i /\ p \in Sources \X (1..MaxFacts)
    BY <2>10
  <2>12. p \in about
    BY <2>9, <2>11
  <2>13. m \in types(p)
    BY <2>5, <2>11
  <2>14. MembersOf(n) = UNION {types(q) : q \in about}
    BY DEF MembersOf
  <2> HIDE DEF p, about, types
  <2>15. QED
    BY <2>12, <2>13, <2>14
<1>8. QED
  BY <1>4, <1>5, <1>6, <1>7 DEF TablesSound

(* In every state, if rebuilds are only asked of Sources without anonymous *)
(* enums, a slot of the type table has one owner or is in the free list,   *)
(* and a member of an aggregate is a live type that a definition names.    *)
THEOREM TablesSoundHolds ==
  ASSUME NamedRebuilds
  PROVE  Spec => []TablesSound
BY TablesAlways, TablesAreSound, PTL

(* Under the same condition, the dependency indexes that validation relies *)
(* on are exactly the edges of the member tables.                          *)
THEOREM DependencyIndexHolds ==
  ASSUME NamedRebuilds
  PROVE  Spec => []DependencyIndexExact
<1>1. TablesInv => DependencyIndexExact
  BY DEF TablesInv, CommittedInv
<1>2. QED
  BY <1>1, TablesAlways, PTL

(* The counters that incremental updates keep are those a rebuild counts.  *)
LEMMA CountsAreExact == BaseInv => CountsExact
<1> SUFFICES ASSUME BaseInv
             PROVE  CountsExact
  OBVIOUS
<1>1. \A id \in Ids : CountedBy(graph.named, graph.counts[id], id)
  BY DEF BaseInv, GraphOK, Sound, Counted
<1>2. \A id, kind : Definers(id, kind) = DefinersIn(graph.named, id, kind)
  BY DEF Definers, DefinersIn
<1>3. QED
  BY <1>1, <1>2, TotalIsPlaces DEF CountsExact, CountedBy

(* Whatever led to it, and whatever Sources contain: the counters that     *)
(* incremental updates add to and subtract from are what a rebuild would   *)
(* count of the committed contributions.                                   *)
THEOREM CountsHold == Spec => []CountsExact
<1>1. Spec => []BaseInv
  BY BaseInit, BaseNext, PTL DEF Spec
<1>2. QED
  BY <1>1, CountsAreExact, PTL

(* A live type is what the contributions of its name make of it.           *)
LEMMA MeaningIsExact == BaseInv /\ TablesInv => MeaningExact
<1> SUFFICES ASSUME BaseInv, TablesInv, NEW n \in Names
             PROVE  LET about == {p \in Sources \X (1..MaxFacts) :
                          /\ p[2] \in DOMAIN graph.named[p[1]]
                          /\ graph.named[p[1]][p[2]].fact.name = n}
                        fact(p) == graph.named[p[1]][p[2]].fact
                        h == NameType(n, graph)
                    IN
                    /\ h # 0 <=> about # {}
                    /\ h # 0 =>
                         /\ \A p \in about : /\ graph.types[h].kind = fact(p).kind
                                             /\ graph.types[h].flavour = fact(p).flavour
                                             /\ graph.named[p[1]][p[2]].id = graph.identity[n]
                         /\ graph.types[h].defined <=> \E p \in about : fact(p).defined
  BY DEF MeaningExact
<1> DEFINE about == {p \in Sources \X (1..MaxFacts) :
                       /\ p[2] \in DOMAIN graph.named[p[1]]
                       /\ graph.named[p[1]][p[2]].fact.name = n}
           fact(p) == graph.named[p[1]][p[2]].fact
           h == NameType(n, graph)
           id == graph.identity[n]
<1>1. /\ StateOK(graph) /\ Sound(graph) /\ Partitioned(graph)
      /\ Identities(graph) /\ Contributed(graph) /\ Counted(graph)
  BY DEF BaseInv, GraphOK, TablesInv, CommittedInv, Sound
<1>2. /\ graph.named \in Nameds
      /\ \A s \in Sources : Len(graph.named[s]) <= MaxFacts
      /\ \A s \in Sources : \A i \in DOMAIN graph.named[s] :
           /\ graph.named[s][i].fact.kind # "anonymous"
           /\ graph.named[s][i].fact \in Fact /\ graph.named[s][i].fact.name \in Names
           /\ graph.named[s][i].id \in Ids
           /\ graph.identity[graph.named[s][i].fact.name] = graph.named[s][i].id
  <2>1. graph.named \in Nameds
    BY <1>1, StateFacts
  <2>2. \A s \in Sources : \A i \in DOMAIN graph.named[s] :
          graph.named[s][i].fact \in Fact /\ graph.named[s][i].id \in Ids
    BY <2>1, NamedFacts
  <2>3. QED
    BY <2>1, <2>2, <1>1, FactFacts DEF Contributed
<1>3. /\ id \in Ids \cup {0}
      /\ h = IF id = 0 THEN 0 ELSE graph.entities[id].type
  BY <1>1, StateFacts DEF NameType, Entity
<1>4. 0 \notin Ids
  BY ConstantFacts
(* The contributions about n are those of its id.                          *)
<1>5. \A s \in Sources : \A i \in DOMAIN graph.named[s] :
        graph.named[s][i].fact.name = n <=> graph.named[s][i].id = id
  BY <1>1, <1>2, <1>4 DEF Identities
<1>6. ASSUME NEW p \in about
      PROVE  /\ p[1] \in Sources /\ p[2] \in DOMAIN graph.named[p[1]]
             /\ graph.named[p[1]][p[2]].id = id /\ id \in Ids
  BY <1>2, <1>5
<1>7. ASSUME NEW s \in Sources, NEW i \in DOMAIN graph.named[s], graph.named[s][i].id = id
      PROVE  <<s, i>> \in about /\ fact(<<s, i>>) = graph.named[s][i].fact
  <2>1. DOMAIN graph.named[s] = 1..Len(graph.named[s]) /\ Len(graph.named[s]) \in Nat
    BY <1>2, NamedFacts
  <2>2. i \in 1..MaxFacts
    BY <2>1, <1>2, ConstantFacts
  <2>3. QED
    BY <2>2, <1>5, <1>7
<1> HIDE DEF about, fact, h, id
<1>8. id \in Ids => (graph.counts[id] = NoCount
        <=> \A s \in Sources : \A i \in DOMAIN graph.named[s] : graph.named[s][i].id # id)
  <2> SUFFICES ASSUME id \in Ids
               PROVE  graph.counts[id] = NoCount
        <=> \A s \in Sources : \A i \in DOMAIN graph.named[s] : graph.named[s][i].id # id
    OBVIOUS
  <2>1. graph.counts[id] \in Count /\ CountedBy(graph.named, graph.counts[id], id)
    BY <1>1, StateFacts DEF Counted
  <2>2. QED
    BY <2>1, <1>2, NoCountMeans
<1>9. id \in Ids => (graph.counts[id] = NoCount <=> graph.entities[id].type = 0)
  BY <1>1 DEF Counted, Identities, NoEntity
<1>10. h # 0 <=> about # {}
  <2>1. ASSUME h # 0
        PROVE  about # {}
    <3>1. id \in Ids /\ graph.counts[id] # NoCount
      BY <2>1, <1>3, <1>9
    <3>2. PICK s \in Sources : \E i \in DOMAIN graph.named[s] : graph.named[s][i].id = id
      BY <3>1, <1>8
    <3>3. PICK i \in DOMAIN graph.named[s] : graph.named[s][i].id = id
      BY <3>2
    <3>4. QED
      BY <3>3, <1>7
  <2>2. ASSUME NEW p \in about
        PROVE  h # 0
    <3>1. /\ p[1] \in Sources /\ p[2] \in DOMAIN graph.named[p[1]]
          /\ graph.named[p[1]][p[2]].id = id /\ id \in Ids
      BY <1>6
    <3>2. graph.counts[id] # NoCount
      BY <3>1, <1>8
    <3>3. QED
      BY <3>1, <3>2, <1>3, <1>4, <1>9
  <2>3. QED
    BY <2>1, <2>2
<1>11. ASSUME h # 0
       PROVE  /\ \A p \in about : /\ graph.types[h].kind = fact(p).kind
                                  /\ graph.types[h].flavour = fact(p).flavour
                                  /\ graph.named[p[1]][p[2]].id = id
              /\ graph.types[h].defined <=> \E p \in about : fact(p).defined
  <2> DEFINE m == Materialized(graph.counts[id], {})
             t == graph.types[h]
  <2>1. id \in Ids /\ graph.entities[id].type = h /\ graph.counts[id] # NoCount
    BY <1>3, <1>9, <1>11
  <2>2. SameShape(t, m)
    BY <2>1, <1>1, <1>11 DEF Partitioned
  <2>3. MaterializedAs(m, graph.named, id)
    <3>1. graph.counts[id] \in Count /\ CountedBy(graph.named, graph.counts[id], id)
      BY <2>1, <1>1, StateFacts DEF Counted
    <3>2. {} \in SUBSET Names
      OBVIOUS
    <3>3. QED
      BY <2>1, <3>1, <3>2, <1>2, MaterializedFacts
  <2> HIDE DEF m, t
  <2>4. PICK s \in Sources : \E i \in DOMAIN graph.named[s] :
          /\ graph.named[s][i].id = id
          /\ graph.named[s][i].fact.kind = m.kind /\ graph.named[s][i].fact.flavour = m.flavour
    BY <2>3 DEF MaterializedAs
  <2>5. PICK i \in DOMAIN graph.named[s] :
          /\ graph.named[s][i].id = id
          /\ graph.named[s][i].fact.kind = m.kind /\ graph.named[s][i].fact.flavour = m.flavour
    BY <2>4
  <2>6. t.kind = m.kind /\ t.flavour = m.flavour
    BY <2>2 DEF SameShape
  <2>7. ASSUME NEW p \in about
        PROVE  t.kind = fact(p).kind /\ t.flavour = fact(p).flavour
               /\ graph.named[p[1]][p[2]].id = id
    <3>1. /\ p[1] \in Sources /\ p[2] \in DOMAIN graph.named[p[1]]
          /\ graph.named[p[1]][p[2]].id = id
      BY <1>6
    <3>2. /\ graph.named[p[1]][p[2]].fact.kind = graph.named[s][i].fact.kind
          /\ graph.named[p[1]][p[2]].fact.flavour = graph.named[s][i].fact.flavour
      BY <3>1, <2>5, <1>1 DEF Contributed
    <3>3. QED
      BY <3>1, <3>2, <2>5, <2>6 DEF fact
  <2>8. DefinersIn(graph.named, id, m.kind) # {} <=> \E p \in about : fact(p).defined
    <3>1. ASSUME NEW u \in DefinersIn(graph.named, id, m.kind)
          PROVE  \E p \in about : fact(p).defined
      <4>1. u \in Sources /\ \E j \in DOMAIN graph.named[u] :
              graph.named[u][j].id = id /\ graph.named[u][j].fact.defined
        BY <3>1 DEF DefinersIn
      <4>2. PICK j \in DOMAIN graph.named[u] :
              graph.named[u][j].id = id /\ graph.named[u][j].fact.defined
        BY <4>1
      <4>3. <<u, j>> \in about /\ fact(<<u, j>>) = graph.named[u][j].fact
        BY <4>1, <4>2, <1>7
      <4>4. fact(<<u, j>>).defined
        BY <4>2, <4>3
      <4>5. QED
        BY <4>3, <4>4
    <3>2. ASSUME NEW p \in about, fact(p).defined
          PROVE  DefinersIn(graph.named, id, m.kind) # {}
      <4>1. /\ p[1] \in Sources /\ p[2] \in DOMAIN graph.named[p[1]]
            /\ graph.named[p[1]][p[2]].id = id
        BY <1>6
      <4>2. graph.named[p[1]][p[2]].fact.kind = m.kind
        BY <3>2, <2>6, <2>7 DEF fact
      <4>3. graph.named[p[1]][p[2]].fact.defined
        BY <3>2 DEF fact
      <4>4. p[1] \in DefinersIn(graph.named, id, m.kind)
        BY <4>1, <4>2, <4>3 DEF DefinersIn
      <4>5. QED
        BY <4>4
    <3>3. QED
      BY <3>1, <3>2
  <2>9. t.defined = m.defined /\ (m.defined <=> DefinersIn(graph.named, id, m.kind) # {})
    BY <2>2, <2>3, Zenon DEF SameShape, MaterializedAs
  <2>10. t.defined <=> \E p \in about : fact(p).defined
    BY <2>8, <2>9, Zenon
  <2>11. QED
    BY <2>7, <2>10 DEF t
<1>12. QED
  BY <1>10, <1>11 DEF about, fact, h, id

(* Incremental updates and rebuilds agree: in every state, the counters    *)
(* are those of the contributions, and, if rebuilds are only asked of      *)
(* Sources without anonymous enums, a name has a live type of the right    *)
(* kind, flavour and definedness just when a Source contributes it.        *)
THEOREM ContributionsHold ==
  ASSUME NamedRebuilds
  PROVE  Spec => []ContributionsExact
<1>1. BaseInv => TypeOK
  BY DEF BaseInv, GraphOK, DraftOK, TypeOK, Open
<1>2. BaseInv /\ TablesInv => ContributionsExact
  BY <1>1, CountsAreExact, MeaningIsExact DEF ContributionsExact
<1>3. QED
  BY <1>2, TablesAlways, PTL

-------------------------------------------------------------------------------
(* What a compiled checkpoint holds of a Graph in order.                   *)
LEMMA ExportFacts ==
  ASSUME BaseInv, TablesInv, NEW size \in graph.next..(Cardinality(Names) + 1),
         NEW c, c = ExportCompiled(graph, size)
  PROVE  /\ c.identities = graph.identity
         /\ DOMAIN c.entities = 1..(size - 1) /\ 1..(size - 1) \subseteq Ids
         /\ \A id \in 1..(size - 1) : c.entities[id] = graph.entities[id]
         /\ DOMAIN c.types = 1..graph.slots /\ 1..graph.slots \subseteq Handles
         /\ \A h \in 1..graph.slots : c.types[h] = graph.types[h]
         /\ Len(c.types) = graph.slots
         /\ LiveEntities(c) = {id \in Ids : graph.entities[id] # NoEntity}
         /\ LiveSlots(c) = Owned(graph)
         /\ \A h \in LiveSlots(c) : DefinedMembers(c, h) = graph.types[h].members
         /\ size \in Nat /\ graph.next <= size /\ graph.slots \in Nat
<1>1. StateOK(graph) /\ Identities(graph) /\ Partitioned(graph) /\ Linked(graph)
  BY DEF BaseInv, GraphOK, TablesInv, CommittedInv, Sound
<1>2. /\ graph.next \in Nat /\ Cardinality(Names) \in Nat /\ graph.slots \in Nat
      /\ graph.next \in 1..(Cardinality(Names) + 1)
  BY <1>1, StateFacts, ConstantFacts DEF StateOK
<1>3. size \in Nat /\ graph.next <= size /\ 1..(size - 1) \subseteq Ids
  BY <1>2 DEF Ids
<1>4. 1..graph.slots \subseteq Handles
  BY <1>1, ConstantFacts DEF StateOK, Handles
<1>5. /\ c.identities = graph.identity
      /\ c.entities = [id \in 1..(size - 1) |-> graph.entities[id]]
      /\ c.types = [h \in 1..graph.slots |-> graph.types[h]]
  BY DEF ExportCompiled
<1>6. /\ DOMAIN c.entities = 1..(size - 1) /\ DOMAIN c.types = 1..graph.slots
      /\ \A id \in 1..(size - 1) : c.entities[id] = graph.entities[id]
      /\ \A h \in 1..graph.slots : c.types[h] = graph.types[h]
  BY <1>5
<1>7. Len(c.types) = graph.slots
  <2>1. \A h \in 1..graph.slots : graph.types[h] \in TypeRecord
    BY <1>1, <1>4, StateFacts
  <2>2. c.types \in Seq(TypeRecord)
    BY <2>1, <1>2, <1>5, IsASeq
  <2>3. QED
    BY <2>2, <1>2, <1>6, LenProperties
<1>8. LiveEntities(c) = {id \in Ids : graph.entities[id] # NoEntity}
  <2>1. \A id \in Ids : graph.entities[id].name # 0 <=> graph.entities[id] # NoEntity
    <3>1. NoEntity.name = 0 /\ 0 \notin Names
      BY ConstantFacts DEF NoEntity
    <3>2. QED
      BY <3>1, <1>1 DEF Identities
  <2>2. \A id \in Ids : graph.entities[id] # NoEntity => id \in 1..(size - 1)
    <3> SUFFICES ASSUME NEW id \in Ids, graph.entities[id] # NoEntity
                 PROVE  id \in 1..(size - 1)
      OBVIOUS
    <3>1. id < graph.next
      BY <1>1 DEF Identities
    <3>2. QED
      BY <3>1, <1>2, <1>3, ConstantFacts
  <2>3. QED
    BY <2>1, <2>2, <1>3, <1>6 DEF LiveEntities
<1>9. LiveSlots(c) = Owned(graph)
  <2>1. \A h \in Owned(graph) : h \in 1..graph.slots /\ graph.types[h].kind # "none"
    BY <1>1, <1>2, OwnedFacts, ConstantFacts DEF Partitioned, Handles
  <2>2. \A h \in 1..graph.slots : graph.types[h].kind # "none" => h \in Owned(graph)
    BY <1>1, <1>4 DEF Partitioned, NoType
  <2>3. QED
    BY <2>1, <2>2, <1>6 DEF LiveSlots
<1>10. ASSUME NEW h \in LiveSlots(c)
       PROVE  DefinedMembers(c, h) = graph.types[h].members
  <2>1. h \in Handles /\ c.types[h] = graph.types[h]
    BY <1>4, <1>6, <1>10 DEF LiveSlots
  <2>2. graph.types[h].members # {} =>
          graph.types[h].kind = "aggregate" /\ graph.types[h].defined
    BY <2>1, <1>1 DEF Partitioned
  <2>3. DefinedMembers(c, h) = IF graph.types[h].kind = "aggregate" /\ graph.types[h].defined
                               THEN graph.types[h].members ELSE {}
    BY <2>1, Zenon DEF DefinedMembers
  <2>4. QED
    BY <2>2, <2>3, Zenon
<1>11. QED
  BY <1>2, <1>3, <1>4, <1>5, <1>6, <1>7, <1>8, <1>9, <1>10

(* The fields of the Graph that a load makes.                              *)
LEMMA ImportFields ==
  ASSUME NEW c
  PROVE  LET g == ImportCompiled(c) IN
         /\ DOMAIN g = GraphFields
         /\ g.identity = c.identities /\ g.next = NextStableId(c)
         /\ g.entities = [id \in Ids |-> IF id \in LiveEntities(c) THEN c.entities[id]
                                                                   ELSE NoEntity]
         /\ g.types = [h \in Handles |-> IF h \in LiveSlots(c) THEN c.types[h] ELSE NoType]
         /\ g.slots = Len(c.types) /\ g.free = DOMAIN c.types \ LiveSlots(c)
         /\ g.deps = RebuildDependencyIndex(c).deps
         /\ g.dependents = RebuildDependencyIndex(c).dependents
         /\ g.named = EmptyGraph.named /\ g.anonymous = EmptyGraph.anonymous
         /\ g.counts = EmptyGraph.counts
         /\ g = [f \in GraphFields |-> g[f]]
<1> DEFINE entities == [id \in Ids |-> IF id \in LiveEntities(c) THEN c.entities[id]
                                                                 ELSE NoEntity]
           types == [h \in Handles |-> IF h \in LiveSlots(c) THEN c.types[h] ELSE NoType]
           index == RebuildDependencyIndex(c)
           g == ImportCompiled(c)
<1>1. g = [EmptyGraph EXCEPT
             !.identity = c.identities, !.next = NextStableId(c),
             !.entities = entities, !.types = types,
             !.slots = Len(c.types), !.free = DOMAIN c.types \ LiveSlots(c),
             !.deps = index.deps, !.dependents = index.dependents]
  BY DEF ImportCompiled
<1>2. DOMAIN EmptyGraph = GraphFields
  BY DEF EmptyGraph, GraphFields
<1> HIDE DEF entities, types, index, g
<1>3. /\ DOMAIN g = GraphFields
      /\ g.identity = c.identities /\ g.next = NextStableId(c)
      /\ g.entities = entities /\ g.types = types
      /\ g.slots = Len(c.types) /\ g.free = DOMAIN c.types \ LiveSlots(c)
      /\ g.deps = index.deps /\ g.dependents = index.dependents
      /\ g.named = EmptyGraph.named /\ g.anonymous = EmptyGraph.anonymous
      /\ g.counts = EmptyGraph.counts
  BY <1>1, <1>2 DEF GraphFields
<1>4. g = [f \in GraphFields |-> g[f]]
  BY <1>1, <1>2
<1>5. QED
  BY <1>3, <1>4 DEF entities, types, index, g

(* A Graph in order survives export, decoding and import.                  *)
LEMMA RoundTrips == BaseInv /\ TablesInv => CompiledRoundTrip
<1> SUFFICES ASSUME BaseInv, TablesInv, phase = "idle",
                    NEW size \in graph.next..(Cardinality(Names) + 1)
             PROVE  LET c == ExportCompiled(graph, size)
                        loaded == ImportCompiled(c)
                    IN
                    /\ DecodeAccepts(c) /\ ImportAccepts(c)
                    /\ loaded = [graph EXCEPT !.next = loaded.next,
                                              !.named = EmptyGraph.named,
                                              !.anonymous = EmptyGraph.anonymous,
                                              !.counts = EmptyGraph.counts]
                    /\ loaded.next >= graph.next
  BY DEF CompiledRoundTrip
<1> DEFINE c == ExportCompiled(graph, size)
           loaded == ImportCompiled(c)
<1>1. /\ StateOK(graph) /\ Identities(graph) /\ Partitioned(graph) /\ Linked(graph)
      /\ DOMAIN graph = GraphFields /\ DependencyIndexExact
      /\ graph.free = (1..graph.slots) \ Owned(graph)
      /\ graph.deps \in [Handles -> SUBSET Handles]
      /\ graph.dependents \in [Handles -> SUBSET Handles]
  BY DEF BaseInv, GraphOK, TablesInv, CommittedInv, Sound
<1>2. /\ c.identities = graph.identity
      /\ DOMAIN c.entities = 1..(size - 1) /\ 1..(size - 1) \subseteq Ids
      /\ \A id \in 1..(size - 1) : c.entities[id] = graph.entities[id]
      /\ DOMAIN c.types = 1..graph.slots /\ 1..graph.slots \subseteq Handles
      /\ \A h \in 1..graph.slots : c.types[h] = graph.types[h]
      /\ Len(c.types) = graph.slots
      /\ LiveEntities(c) = {id \in Ids : graph.entities[id] # NoEntity}
      /\ LiveSlots(c) = Owned(graph)
      /\ \A h \in LiveSlots(c) : DefinedMembers(c, h) = graph.types[h].members
      /\ size \in Nat /\ graph.next <= size /\ graph.slots \in Nat
  BY ExportFacts
<1> HIDE DEF c
<1>3. \A id \in LiveEntities(c) : id \in 1..(size - 1)
  BY <1>2 DEF LiveEntities
<1>4. \A h \in Owned(graph) : h \in Handles /\ h \in 1..graph.slots
  BY <1>2 DEF LiveSlots
<1>5. DecodeAccepts(c)
  <2>1. ASSUME NEW id \in DOMAIN c.entities, id \notin LiveEntities(c)
        PROVE  c.entities[id].type = 0
    BY <2>1, <1>2 DEF NoEntity
  <2>2. ASSUME NEW h \in DOMAIN c.types, h \notin LiveSlots(c)
        PROVE  c.types[h] = NoType
    BY <2>2, <1>1, <1>2 DEF Partitioned
  <2>3. QED
    BY <2>1, <2>2 DEF DecodeAccepts
<1>6. ImportAccepts(c)
  <2>1. ASSUME NEW id \in LiveEntities(c)
        PROVE  c.entities[id].type \in LiveSlots(c)
    <3>1. id \in Ids /\ graph.entities[id].type # 0 /\ c.entities[id] = graph.entities[id]
      BY <2>1, <1>1, <1>2, <1>3 DEF Identities
    <3>2. QED
      BY <3>1, <1>1, <1>2, OwnedFacts
  <2>2. ASSUME NEW n \in Names, c.identities[n] # 0
        PROVE  /\ c.identities[n] \in DOMAIN c.entities
               /\ \A m \in Names : c.identities[m] = c.identities[n] => m = n
               /\ c.entities[c.identities[n]].name \in {0, n}
    <3> DEFINE id == graph.identity[n]
    <3>1. id \in Nat /\ id # 0 /\ id < graph.next /\ graph.next \in Nat
      BY <2>2, <1>1, <1>2, StateFacts DEF Identities
    <3>2. id \in 1..(size - 1) /\ id \in Ids
      BY <3>1, <1>2
    <3>3. \A m \in Names : graph.identity[m] = id => m = n
      BY <3>1, <1>1 DEF Identities
    <3>4. graph.entities[id].name \in {0, n}
      <4>1. CASE graph.entities[id] = NoEntity
        BY <4>1 DEF NoEntity
      <4>2. CASE graph.entities[id] # NoEntity
        BY <3>2, <3>3, <4>2, <1>1 DEF Identities
      <4>3. QED
        BY <4>1, <4>2
    <3>5. QED
      BY <3>2, <3>3, <3>4, <1>2
  <2>3. ASSUME NEW h \in LiveSlots(c)
        PROVE  DefinedMembers(c, h) \subseteq LiveSlots(c)
    <3>1. h \in Handles /\ DefinedMembers(c, h) = graph.types[h].members
      BY <1>2, <1>4
    <3>2. \A m \in graph.types[h].members : m \in Owned(graph)
      BY <3>1, <1>1 DEF Linked, Live, Partitioned, NoType
    <3>3. QED
      BY <3>1, <3>2, <1>2
  <2>4. QED
    BY <2>1, <2>2, <2>3 DEF ImportAccepts
<1>7. /\ DOMAIN loaded = GraphFields
      /\ loaded.identity = c.identities /\ loaded.next = NextStableId(c)
      /\ loaded.entities = [id \in Ids |-> IF id \in LiveEntities(c) THEN c.entities[id]
                                                                     ELSE NoEntity]
      /\ loaded.types = [h \in Handles |-> IF h \in LiveSlots(c) THEN c.types[h] ELSE NoType]
      /\ loaded.slots = Len(c.types) /\ loaded.free = DOMAIN c.types \ LiveSlots(c)
      /\ loaded.deps = RebuildDependencyIndex(c).deps
      /\ loaded.dependents = RebuildDependencyIndex(c).dependents
      /\ loaded.named = EmptyGraph.named /\ loaded.anonymous = EmptyGraph.anonymous
      /\ loaded.counts = EmptyGraph.counts
      /\ loaded = [f \in GraphFields |-> loaded[f]]
  BY ImportFields
<1> HIDE DEF loaded
<1>8. loaded.entities = graph.entities
  <2>1. graph.entities = [id \in Ids |-> graph.entities[id]]
    BY <1>1 DEF StateOK
  <2>2. \A id \in Ids : (IF id \in LiveEntities(c) THEN c.entities[id] ELSE NoEntity)
                          = graph.entities[id]
    BY <1>2, <1>3
  <2>3. QED
    BY <2>1, <2>2, <1>7
<1>9. loaded.types = graph.types
  <2>1. graph.types = [h \in Handles |-> graph.types[h]]
    BY <1>1 DEF StateOK
  <2>2. \A h \in Handles : (IF h \in LiveSlots(c) THEN c.types[h] ELSE NoType) = graph.types[h]
    BY <1>1, <1>2, <1>4 DEF Partitioned
  <2>3. QED
    BY <2>1, <2>2, <1>7
<1>10. loaded.slots = graph.slots /\ loaded.free = graph.free /\ loaded.identity = graph.identity
  BY <1>1, <1>2, <1>7
<1> DEFINE dependencies(h) == IF h \in LiveSlots(c) THEN DefinedMembers(c, h) ELSE {}
<1>11. \A h \in Handles : dependencies(h) = graph.types[h].members
  <2> SUFFICES ASSUME NEW h \in Handles
               PROVE  dependencies(h) = graph.types[h].members
    OBVIOUS
  <2>1. CASE h \in LiveSlots(c)
    BY <2>1, <1>2
  <2>2. CASE h \notin LiveSlots(c)
    <3>1. graph.types[h] = NoType
      BY <2>2, <1>1, <1>2 DEF Partitioned
    <3>2. QED
      BY <2>2, <3>1 DEF NoType
  <2>3. QED
    BY <2>1, <2>2
<1>12. /\ loaded.deps = [h \in Handles |-> dependencies(h)]
       /\ loaded.dependents = [h \in Handles |-> {g \in LiveSlots(c) : h \in dependencies(g)}]
  BY <1>7 DEF RebuildDependencyIndex
<1>13. LiveSlots(c) \subseteq Handles /\ \A g \in Handles \ LiveSlots(c) : dependencies(g) = {}
  BY <1>2, <1>4
<1> HIDE DEF dependencies
<1>14. loaded.deps = graph.deps
  <2>1. graph.deps = [h \in Handles |-> graph.deps[h]]
    BY <1>1
  <2>2. \A h \in Handles : dependencies(h) = graph.deps[h]
    BY <1>1, <1>11 DEF DependencyIndexExact
  <2>3. QED
    BY <2>1, <2>2, <1>12
<1>15. loaded.dependents = graph.dependents
  <2>1. graph.dependents = [h \in Handles |-> graph.dependents[h]]
    BY <1>1
  <2>2. ASSUME NEW h \in Handles
        PROVE  {g \in LiveSlots(c) : h \in dependencies(g)} = graph.dependents[h]
    <3>1. graph.dependents[h] = {g \in Handles : h \in graph.types[g].members}
      BY <1>1 DEF DependencyIndexExact
    <3>2. QED
      BY <3>1, <1>11, <1>13
  <2>3. QED
    BY <2>1, <2>2, <1>12
<1>16. loaded = [graph EXCEPT !.next = loaded.next,
                              !.named = EmptyGraph.named,
                              !.anonymous = EmptyGraph.anonymous,
                              !.counts = EmptyGraph.counts]
  <2> DEFINE g == [graph EXCEPT !.next = loaded.next,
                                !.named = EmptyGraph.named,
                                !.anonymous = EmptyGraph.anonymous,
                                !.counts = EmptyGraph.counts]
  <2>1. /\ DOMAIN g = GraphFields
        /\ g.identity = graph.identity /\ g.next = loaded.next
        /\ g.entities = graph.entities /\ g.types = graph.types
        /\ g.slots = graph.slots /\ g.free = graph.free
        /\ g.deps = graph.deps /\ g.dependents = graph.dependents
        /\ g.named = EmptyGraph.named /\ g.anonymous = EmptyGraph.anonymous
        /\ g.counts = EmptyGraph.counts
    BY <1>1 DEF GraphFields
  <2>2. \A f \in GraphFields : loaded[f] = g[f]
    <3> HIDE DEF g
    <3>1. QED
      BY <2>1, <1>7, <1>8, <1>9, <1>10, <1>14, <1>15 DEF GraphFields
  <2>3. loaded = [f \in GraphFields |-> loaded[f]]
    BY <1>7
  <2>4. QED
    BY <2>1, <2>2, <2>3
<1>17. loaded.next >= graph.next
  <2>1. IsFiniteSet(1..(size - 1)) /\ Cardinality(1..(size - 1)) = size - 1
    <3>1. graph.next >= 1
      BY <1>1 DEF StateOK
    <3>2. 1 \in Int /\ size - 1 \in Int /\ size >= 1
      BY <3>1, <1>1, <1>2, StateFacts
    <3>3. Cardinality(1..(size - 1)) = IF 1 > size - 1 THEN 0 ELSE (size - 1) - 1 + 1
      BY <3>2, FS_Interval
    <3>4. IsFiniteSet(1..(size - 1))
      BY <3>2, FS_Interval
    <3>5. QED
      BY <3>2, <3>3, <3>4
  <2>2. NextStableId(c) = size
    BY <2>1, <1>2 DEF NextStableId
  <2>3. graph.next \in Nat
    BY <1>1, StateFacts
  <2>4. QED
    BY <2>2, <2>3, <1>2, <1>7
<1>18. QED
  BY <1>5, <1>6, <1>16, <1>17 DEF loaded, c

(* If rebuilds are only asked of Sources without anonymous enums, every    *)
(* committed Graph survives a compiled checkpoint: a load accepts what was *)
(* written, rebuilds the free list and the dependency indexes as they      *)
(* were, and gives out no stable_id again.                                 *)
THEOREM CompiledRoundTripHolds ==
  ASSUME NamedRebuilds
  PROVE  Spec => []CompiledRoundTrip
BY TablesAlways, RoundTrips, PTL
===============================================================================
