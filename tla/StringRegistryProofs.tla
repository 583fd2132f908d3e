------------------------ MODULE StringRegistryProofs ------------------------
(***************************************************************************)
(* Proofs about StringRegistry for every set of strings and updates.       *)
(*                                                                         *)
(* LookupExact and IssuedIdsStable are not inductive: a publication is     *)
(* right only because the candidate it publishes was right.  UpdateInv     *)
(* says what a candidate is while its base is the current generation: its  *)
(* added strings are new to the registry, occupy the next slots and are    *)
(* indexed there; a compacted candidate agrees with the committed slots up *)
(* to tombstones.  A stale update needs no invariant, because it can only  *)
(* be refused.                                                             *)
(***************************************************************************)
EXTENDS StringRegistry, TLAPS

(* What an update that is not stale has built so far.                      *)
AddedInv(u) ==
  /\ \A i \in DOMAIN added[u] :
       addedLookup[u][added[u][i]] = Len(records) + i
  /\ \A s \in Strings : addedLookup[u][s] # 0 =>
       /\ lookup[s] = 0
       /\ \E i \in DOMAIN added[u] :
            added[u][i] = s /\ addedLookup[u][s] = Len(records) + i
  /\ \A p \in given[u] :
       /\ p[2] \in 1..(Len(records) + Len(added[u]))
       /\ p[2] <= Len(records) => records[p[2]] = p[1]
       /\ p[2] > Len(records) => added[u][p[2] - Len(records)] = p[1]

(* What a compaction has prepared.                                         *)
RebuiltInv(u) ==
  /\ Exact(rebuilt[u], rebuiltLookup[u])
  /\ Len(records) <= Len(rebuilt[u])
  /\ \A i \in DOMAIN records : rebuilt[u][i] \in {records[i], Tombstone}
  /\ \A p \in given[u] :
       p[2] \in DOMAIN rebuilt[u] /\ rebuilt[u][p[2]] \in {p[1], Tombstone}

(* An update object that has not begun holds nothing.                      *)
EmptyInv(u) ==
  /\ added[u] = <<>>
  /\ addedLookup[u] = NoIndex
  /\ ~compacted[u]
  /\ given[u] = {}

UpdateInv(u) ==
  /\ phase[u] = "none" => EmptyInv(u)
  /\ phase[u] # "none" =>
       base[u] <= generation /\ (base[u] = generation => opened[u] = epoch)
  /\ phase[u] = "prepared" =>
       /\ base[u] = generation
       /\ \A v \in Updates : phase[v] = "prepared" => v = u
  /\ phase[u] = "open" => ~compacted[u]
  /\ phase[u] # "none" /\ base[u] = generation /\ ~compacted[u] => AddedInv(u)
  /\ phase[u] = "prepared" /\ compacted[u] => RebuiltInv(u)

IndInv ==
  /\ TypeOK
  /\ LookupExact
  /\ IssuedIdsStable
  /\ \A u \in Updates : UpdateInv(u)

-----------------------------------------------------------------------------
(* An index built from slots that hold no string twice is exact; this is   *)
(* what import_slots and prepare_rebuild_compaction rely on.               *)
LEMMA IndexOfExact ==
  ASSUME NEW slots \in Seq(Slot), Injective(slots)
  PROVE  /\ IndexOf(slots) \in Index
         /\ Exact(slots, IndexOf(slots))
<1> DEFINE at(s) == CHOOSE i \in DOMAIN slots : slots[i] = s
<1>1. \A i \in DOMAIN slots : i \in Nat /\ i # 0 /\ slots[i] \in Slot
  OBVIOUS
<1>2. ASSUME NEW s \in Strings, \E i \in DOMAIN slots : slots[i] = s
      PROVE  at(s) \in DOMAIN slots /\ slots[at(s)] = s
  BY <1>2
<1>3. ASSUME NEW s \in Strings
      PROVE  IndexOf(slots)[s] = IF \E i \in DOMAIN slots : slots[i] = s
                                 THEN at(s) ELSE 0
  BY DEF IndexOf
<1>4. IndexOf(slots) \in Index
  BY <1>1, <1>2 DEF IndexOf, Index
<1>5. ASSUME NEW i \in DOMAIN slots, slots[i] # Tombstone
      PROVE  IndexOf(slots)[slots[i]] = i
  <2>1. slots[i] \in Strings
    BY <1>1, <1>5 DEF Slot
  <2>2. /\ at(slots[i]) \in DOMAIN slots
        /\ slots[at(slots[i])] = slots[i]
    BY <1>2, <2>1
  <2>3. at(slots[i]) = i
    BY <2>2, <1>5 DEF Injective
  <2>4. QED
    BY <1>3, <2>1, <2>3
<1>6. ASSUME NEW s \in Strings, IndexOf(slots)[s] # 0
      PROVE  IndexOf(slots)[s] \in DOMAIN slots /\ slots[IndexOf(slots)[s]] = s
  BY <1>2, <1>3, <1>6
<1>7. QED
  BY <1>4, <1>5, <1>6 DEF Exact

(* The initial registry satisfies the inductive invariant.                 *)
LEMMA InitIndInv == Init => IndInv
<1> SUFFICES ASSUME Init PROVE IndInv
  OBVIOUS
<1> USE DEF Init, NoIndex
<1>1. TypeOK
  BY DEF TypeOK, Index, Phases
<1>2. LookupExact
  BY DEF LookupExact, Exact
<1>3. IssuedIdsStable
  BY DEF IssuedIdsStable
<1>4. \A u \in Updates : UpdateInv(u)
  BY DEF UpdateInv, EmptyInv
<1>5. QED
  BY <1>1, <1>2, <1>3, <1>4 DEF IndInv

(* Ending an update disturbs no other one, so an action that ends u and    *)
(* leaves the registry alone keeps the invariant.                          *)
LEMMA DiscardIndInv ==
  ASSUME IndInv, NEW u \in Updates, Discard(u), UNCHANGED registry
  PROVE  IndInv'
<1> USE DEF registry, Discard
<1>1. TypeOK'
  BY DEF IndInv, TypeOK, Index, Phases, NoIndex
<1>2. LookupExact' /\ IssuedIdsStable'
  BY DEF IndInv, LookupExact, Exact, IssuedIdsStable
<1>3. ASSUME NEW v \in Updates PROVE UpdateInv(v)'
  <2>1. CASE v = u
    <3>1. phase'[v] = "none" /\ EmptyInv(v)'
      BY <2>1 DEF IndInv, TypeOK, EmptyInv
    <3>2. QED
      BY <3>1 DEF UpdateInv
  <2>2. CASE v # u
    <3>1. /\ phase'[v] = phase[v] /\ base'[v] = base[v]
          /\ added'[v] = added[v] /\ addedLookup'[v] = addedLookup[v]
          /\ compacted'[v] = compacted[v] /\ rebuilt'[v] = rebuilt[v]
          /\ rebuiltLookup'[v] = rebuiltLookup[v] /\ given'[v] = given[v]
          /\ opened'[v] = opened[v]
      BY <2>2 DEF IndInv, TypeOK
    <3>2. \A w \in Updates : phase'[w] = "prepared" => phase[w] = "prepared"
      BY DEF IndInv, TypeOK
    <3>3. AddedInv(v) => AddedInv(v)'
      BY <3>1 DEF AddedInv
    <3>4. RebuiltInv(v) => RebuiltInv(v)'
      BY <3>1 DEF RebuiltInv, Exact
    <3>5. EmptyInv(v) => EmptyInv(v)'
      BY <3>1 DEF EmptyInv
    <3>6. UpdateInv(v)
      BY DEF IndInv
    <3> HIDE DEF Discard
    <3>7. QED
      BY <3>1, <3>2, <3>3, <3>4, <3>5, <3>6 DEF UpdateInv
  <2>3. QED
    BY <2>1, <2>2
<1>4. QED
  BY <1>1, <1>2, <1>3 DEF IndInv

(* Replacing the committed content under a larger generation leaves every  *)
(* open update stale, whatever the new content is.                         *)
LEMMA ReplaceIndInv ==
  ASSUME IndInv, Idle,
         UNCHANGED <<phase, base, candidate, given, opened>>,
         records' \in Seq(Slot), lookup' \in Index, generation' \in Nat,
         epoch' \in Nat, issued' = {}, Exact(records', lookup'),
         \A u \in Updates : phase[u] = "open" => base[u] < generation'
  PROVE  IndInv'
<1> USE DEF candidate
<1>1. TypeOK'
  BY DEF IndInv, TypeOK
<1>2. LookupExact' /\ IssuedIdsStable'
  BY DEF LookupExact, Exact, IssuedIdsStable
<1>3. ASSUME NEW v \in Updates PROVE UpdateInv(v)'
  <2>1. phase[v] \in {"none", "open"} /\ base[v] \in Nat
    BY DEF IndInv, TypeOK, Phases, Idle
  <2>2. phase[v] = "open" => base[v] < generation' /\ ~compacted[v]
    BY DEF IndInv, UpdateInv
  <2>3. phase[v] = "none" => EmptyInv(v)'
    BY DEF IndInv, UpdateInv, EmptyInv
  <2>4. QED
    BY <2>1, <2>2, <2>3 DEF UpdateInv
<1>4. QED
  BY <1>1, <1>2, <1>3 DEF IndInv

(* Initialization empties the registry and moves the generation on, so     *)
(* that every update still open has become stale.                          *)
LEMMA InitializeIndInv ==
  ASSUME IndInv, Initialize
  PROVE  IndInv'
<1>1. records' \in Seq(Slot) /\ lookup' \in Index /\ Exact(records', lookup')
  BY DEF Initialize, NoIndex, Index, Exact
<1>2. generation' \in Nat /\ epoch' \in Nat
  BY DEF Initialize, IndInv, TypeOK
<1>3. ASSUME NEW u \in Updates, phase[u] = "open" PROVE base[u] < generation'
  <2>1. base[u] <= generation /\ base[u] \in Nat /\ generation \in Nat
    BY <1>3 DEF IndInv, TypeOK, UpdateInv
  <2>2. QED
    BY <2>1 DEF Initialize
<1>4. QED
  BY <1>1, <1>2, <1>3, ReplaceIndInv DEF Initialize

(* A load exchanges the generation too, so it is safe only because no      *)
(* update is open.                                                         *)
LEMMA SwapCompiledIndInv ==
  ASSUME IndInv, NEW slots \in Artifacts, SwapCompiled(slots)
  PROVE  IndInv'
<1>1. slots \in Seq(Slot)
  <2>1. PICK n \in 0..MaxSlots : slots \in [1..n -> Slot]
    BY DEF Artifacts
  <2>2. n \in Nat
    BY <2>1, StringRegistryAssumption
  <2>3. QED
    BY <2>1, <2>2
<1>2. IndexOf(slots) \in Index /\ Exact(slots, IndexOf(slots))
  BY <1>1, IndexOfExact DEF SwapCompiled
<1>3. generation' \in Nat /\ epoch' \in Nat
  BY DEF SwapCompiled, ImportedGeneration, IndInv, TypeOK
<1>4. QED
  BY <1>1, <1>2, <1>3, ReplaceIndInv DEF SwapCompiled, Idle

(* A new update starts empty, from the current generation.                 *)
LEMMA BeginUpdateIndInv ==
  ASSUME IndInv, NEW u \in Updates, BeginUpdate(u)
  PROVE  IndInv'
<1> USE DEF BeginUpdate, registry, candidate
<1>1. TypeOK'
  BY DEF IndInv, TypeOK, Phases
<1>2. LookupExact' /\ IssuedIdsStable'
  BY DEF IndInv, LookupExact, Exact, IssuedIdsStable
<1>3. ASSUME NEW v \in Updates PROVE UpdateInv(v)'
  <2>1. /\ phase'[v] = IF v = u THEN "open" ELSE phase[v]
        /\ base'[v] = IF v = u THEN generation ELSE base[v]
        /\ opened'[v] = IF v = u THEN epoch ELSE opened[v]
    BY DEF IndInv, TypeOK
  <2>2. phase'[v] # "prepared"
    BY <2>1 DEF Idle
  <2>3. CASE v = u
    <3>1. EmptyInv(u)
      BY DEF IndInv, UpdateInv
    <3>2. AddedInv(u)'
      BY <3>1 DEF EmptyInv, AddedInv, NoIndex
    <3>3. QED
      BY <2>1, <2>2, <2>3, <3>1, <3>2 DEF UpdateInv, EmptyInv, IndInv, TypeOK
  <2>4. CASE v # u
    <3>1. AddedInv(v) => AddedInv(v)'
      BY DEF AddedInv
    <3>2. QED
      BY <2>1, <2>2, <2>4, <3>1 DEF IndInv, UpdateInv, EmptyInv
  <2>5. QED
    BY <2>3, <2>4
<1>4. QED
  BY <1>1, <1>2, <1>3 DEF IndInv

(* What intern() must establish: only the candidate of u changes, so every *)
(* other update is as it was.                                              *)
LEMMA InternFrame ==
  ASSUME IndInv, NEW u \in Updates, phase[u] = "open",
         UNCHANGED <<registry, phase, base, opened,
                     compacted, rebuilt, rebuiltLookup>>,
         \A v \in Updates : v # u => /\ added'[v] = added[v]
                                     /\ addedLookup'[v] = addedLookup[v]
                                     /\ given'[v] = given[v],
         TypeOK', AddedInv(u)'
  PROVE  IndInv'
<1> USE DEF registry
<1>1. LookupExact' /\ IssuedIdsStable'
  BY DEF IndInv, LookupExact, Exact, IssuedIdsStable
<1>2. ASSUME NEW v \in Updates PROVE UpdateInv(v)'
  <2>1. UpdateInv(v)
    BY DEF IndInv
  <2>2. CASE v = u
    BY <2>1, <2>2 DEF UpdateInv
  <2>3. CASE v # u
    <3>1. AddedInv(v) => AddedInv(v)'
      BY <2>3 DEF AddedInv
    <3>2. RebuiltInv(v) => RebuiltInv(v)'
      BY <2>3 DEF RebuiltInv, Exact
    <3>3. EmptyInv(v) => EmptyInv(v)'
      BY <2>3 DEF EmptyInv
    <3>4. QED
      BY <2>1, <3>1, <3>2, <3>3 DEF UpdateInv
  <2>4. QED
    BY <2>2, <2>3
<1>3. QED
  BY <1>1, <1>2 DEF IndInv

(* intern() gives a new string the next slot of the candidate.             *)
LEMMA InternIndInv ==
  ASSUME IndInv, NEW u \in Updates, NEW s \in Strings, Intern(u, s)
  PROVE  IndInv'
<1> USE DEF registry, candidate
<1> DEFINE next == Len(records) + Len(added[u]) + 1
<1>0. TypeOK /\ AddedInv(u) /\ LookupExact
  BY DEF IndInv, UpdateInv, Intern
<1>a. /\ phase[u] = "open" /\ base[u] = generation /\ ~compacted[u]
      /\ Len(records) \in Nat /\ Len(added[u]) \in Nat
      /\ lookup[s] \in Nat /\ addedLookup[u][s] \in Nat
      /\ records \in Seq(Slot) /\ added[u] \in Seq(Strings)
  BY <1>0 DEF IndInv, UpdateInv, Intern, TypeOK, Index
<1>b. UNCHANGED <<registry, phase, base, opened, compacted, rebuilt, rebuiltLookup>>
  BY DEF Intern
<1>1. CASE Find(u, s) # 0
  <2>1. /\ UNCHANGED <<added, addedLookup>>
        /\ given' = [given EXCEPT ![u] = @ \cup {<<s, Find(u, s)>>}]
    BY <1>1 DEF Intern
  <2>2. Find(u, s) \in 1..(Len(records) + Len(added[u]))
    BY <1>0, <1>a, <1>1 DEF Find, AddedInv, LookupExact, Exact
  <2>3. /\ Find(u, s) <= Len(records) => records[Find(u, s)] = s
        /\ Find(u, s) > Len(records) => added[u][Find(u, s) - Len(records)] = s
    BY <1>0, <1>a, <1>1 DEF Find, AddedInv, LookupExact, Exact
  <2>4. TypeOK'
    BY <1>0, <1>a, <1>b, <2>1, <2>2 DEF TypeOK
  <2>5. AddedInv(u)'
    <3>1. given'[u] = given[u] \cup {<<s, Find(u, s)>>}
      BY <1>0, <2>1 DEF TypeOK
    <3>2. QED
      BY <1>0, <1>b, <2>1, <2>2, <2>3, <3>1 DEF AddedInv
  <2>6. \A v \in Updates : v # u => given'[v] = given[v]
    BY <1>0, <2>1 DEF TypeOK
  <2>7. QED
    BY <1>a, <1>b, <2>1, <2>4, <2>5, <2>6, InternFrame
<1>2. CASE Find(u, s) = 0
  <2>1. /\ added' = [added EXCEPT ![u] = Append(@, s)]
        /\ addedLookup' = [addedLookup EXCEPT ![u][s] = next]
        /\ given' = [given EXCEPT ![u] = @ \cup {<<s, next>>}]
    BY <1>2 DEF Intern
  <2>2. /\ added'[u] = Append(added[u], s)
        /\ addedLookup'[u] = [addedLookup[u] EXCEPT ![s] = next]
        /\ given'[u] = given[u] \cup {<<s, next>>}
        /\ \A v \in Updates : v # u => /\ added'[v] = added[v]
                                     /\ addedLookup'[v] = addedLookup[v]
                                     /\ given'[v] = given[v]
    BY <1>0, <2>1 DEF TypeOK
  <2>3. /\ Len(added'[u]) = Len(added[u]) + 1
        /\ DOMAIN added[u] = 1..Len(added[u])
        /\ DOMAIN added'[u] = 1..(Len(added[u]) + 1)
        /\ \A i \in 1..Len(added[u]) : added'[u][i] = added[u][i]
        /\ added'[u][Len(added[u]) + 1] = s
    BY <1>a, <2>2
  <2>4. /\ addedLookup'[u][s] = next
        /\ \A t \in Strings \ {s} : addedLookup'[u][t] = addedLookup[u][t]
    BY <1>0, <2>2 DEF TypeOK, Index
  <2>5. lookup[s] = 0 /\ addedLookup[u][s] = 0
    BY <1>2 DEF Find
  <2>6. TypeOK'
    <3>1. next \in Nat
      BY <1>a
    <3>2. added' \in [Updates -> Seq(Strings)]
      BY <1>0, <2>1 DEF TypeOK
    <3>3. addedLookup' \in [Updates -> Index]
      BY <1>0, <2>1, <3>1 DEF TypeOK, Index
    <3>4. given' \in [Updates -> SUBSET (Strings \X Nat)]
      BY <1>0, <2>1, <3>1 DEF TypeOK
    <3>5. QED
      BY <1>0, <1>b, <3>2, <3>3, <3>4 DEF TypeOK
  <2>7. AddedInv(u)'
    <3>1. ASSUME NEW i \in DOMAIN added'[u]
          PROVE  addedLookup'[u][added'[u][i]] = Len(records) + i
      <4>1. CASE i = Len(added[u]) + 1
        BY <1>a, <2>3, <2>4, <4>1
      <4>2. CASE i \in 1..Len(added[u])
        <5>1. added[u][i] \in Strings /\ addedLookup[u][added[u][i]] = Len(records) + i
          BY <1>0, <1>a, <2>3, <4>2 DEF AddedInv
        <5>2. added[u][i] # s
          BY <1>a, <2>5, <4>2, <5>1
        <5>3. QED
          BY <2>3, <2>4, <4>2, <5>1, <5>2
      <4>3. QED
        BY <1>a, <2>3, <4>1, <4>2
    <3>2. ASSUME NEW t \in Strings, addedLookup'[u][t] # 0
          PROVE  /\ lookup[t] = 0
                 /\ \E i \in DOMAIN added'[u] :
                      added'[u][i] = t /\ addedLookup'[u][t] = Len(records) + i
      <4>1. CASE t = s
        <5>1. /\ Len(added[u]) + 1 \in DOMAIN added'[u]
              /\ next = Len(records) + (Len(added[u]) + 1)
          BY <1>a, <2>3
        <5> HIDE DEF next
        <5>2. QED
          BY <2>3, <2>4, <2>5, <4>1, <5>1
      <4>2. CASE t # s
        <5>1. addedLookup'[u][t] = addedLookup[u][t] /\ addedLookup[u][t] # 0
          BY <2>4, <3>2, <4>2
        <5>2. PICK i \in DOMAIN added[u] :
                added[u][i] = t /\ addedLookup[u][t] = Len(records) + i
          BY <1>0, <5>1 DEF AddedInv
        <5>3. i \in DOMAIN added'[u] /\ added'[u][i] = t
          BY <1>a, <2>3, <5>2
        <5>4. lookup[t] = 0
          BY <1>0, <5>1 DEF AddedInv
        <5>5. QED
          BY <5>1, <5>2, <5>3, <5>4
      <4>3. QED
        BY <4>1, <4>2
    <3>3. ASSUME NEW p \in given'[u]
          PROVE  /\ p[2] \in 1..(Len(records) + Len(added'[u]))
                 /\ p[2] <= Len(records) => records[p[2]] = p[1]
                 /\ p[2] > Len(records) => added'[u][p[2] - Len(records)] = p[1]
      <4>1. CASE p = <<s, next>>
        BY <1>a, <2>3, <4>1
      <4>2. CASE p \in given[u]
        <5>1. /\ p[2] \in 1..(Len(records) + Len(added[u]))
              /\ p[2] <= Len(records) => records[p[2]] = p[1]
              /\ p[2] > Len(records) => added[u][p[2] - Len(records)] = p[1]
          BY <1>0, <4>2 DEF AddedInv
        <5>2. p[2] > Len(records) => p[2] - Len(records) \in 1..Len(added[u])
          BY <1>a, <5>1
        <5>3. QED
          BY <1>a, <2>3, <5>1, <5>2
      <4>3. QED
        BY <2>2, <4>1, <4>2
    <3>4. QED
      BY <1>b, <3>1, <3>2, <3>3 DEF AddedInv
  <2>8. QED
    BY <1>a, <1>b, <2>2, <2>6, <2>7, InternFrame
<1>3. QED
  BY <1>1, <1>2

(* prepare_publish() freezes a candidate that is still current.            *)
LEMMA PreparePublishIndInv ==
  ASSUME IndInv, NEW u \in Updates, PreparePublish(u)
  PROVE  IndInv'
<1>1. CASE base[u] # generation
  BY <1>1, DiscardIndInv DEF PreparePublish
<1>2. CASE base[u] = generation
  <2> USE DEF registry, candidate
  <2>1. /\ phase[u] = "open" /\ phase' = [phase EXCEPT ![u] = "prepared"]
        /\ UNCHANGED <<registry, base, candidate, given, opened>>
        /\ Idle
    BY <1>2 DEF PreparePublish
  <2>2. TypeOK'
    BY <2>1 DEF IndInv, TypeOK, Phases
  <2>3. LookupExact' /\ IssuedIdsStable'
    BY <2>1 DEF IndInv, LookupExact, Exact, IssuedIdsStable
  <2>4. ASSUME NEW v \in Updates PROVE UpdateInv(v)'
    <3>1. phase'[v] = IF v = u THEN "prepared" ELSE phase[v]
      BY <2>1 DEF IndInv, TypeOK
    <3>2. \A w \in Updates : phase'[w] = "prepared" => w = u
      BY <2>1 DEF IndInv, TypeOK, Idle
    <3>3. UpdateInv(v)
      BY DEF IndInv
    <3>4. AddedInv(v) => AddedInv(v)'
      BY <2>1 DEF AddedInv
    <3>5. EmptyInv(v) => EmptyInv(v)'
      BY <2>1 DEF EmptyInv
    <3>6. phase[v] # "prepared"
      BY <2>1 DEF Idle
    <3>7. compacted'[v] = compacted[v] /\ compacted[v] \in BOOLEAN
      BY <2>1 DEF IndInv, TypeOK
    <3>8. CASE v = u
      BY <1>2, <2>1, <3>1, <3>2, <3>3, <3>4, <3>7, <3>8 DEF UpdateInv
    <3>9. CASE v # u
      BY <2>1, <3>1, <3>3, <3>4, <3>5, <3>6, <3>7, <3>9 DEF UpdateInv
    <3>10. QED
      BY <3>8, <3>9
  <2>5. QED
    BY <2>2, <2>3, <2>4 DEF IndInv
<1>3. QED
  BY <1>1, <1>2

(* A candidate's slots hold no string twice, and the ids it has given out  *)
(* name their strings in it.                                               *)
LEMMA CandidateSlotsExact ==
  ASSUME IndInv, NEW u \in Updates, AddedInv(u)
  PROVE  /\ CandidateSlots(u) \in Seq(Slot)
         /\ Len(CandidateSlots(u)) = Len(records) + Len(added[u])
         /\ \A i \in 1..Len(records) : CandidateSlots(u)[i] = records[i]
         /\ \A i \in 1..Len(added[u]) :
              CandidateSlots(u)[Len(records) + i] = added[u][i]
         /\ Injective(CandidateSlots(u))
         /\ \A p \in given[u] :
              /\ p[2] \in DOMAIN CandidateSlots(u)
              /\ CandidateSlots(u)[p[2]] = p[1]
<1> DEFINE slots == CandidateSlots(u)
           n == Len(records)
           m == Len(added[u])
<1>1. /\ records \in Seq(Slot) /\ added[u] \in Seq(Strings)
      /\ added[u] \in Seq(Slot)
      /\ n \in Nat /\ m \in Nat
      /\ DOMAIN records = 1..n /\ DOMAIN added[u] = 1..m
  BY DEF IndInv, TypeOK, Slot
<1>2. /\ slots \in Seq(Slot) /\ Len(slots) = n + m
      /\ DOMAIN slots = 1..(n + m)
      /\ \A i \in 1..n : slots[i] = records[i]
      /\ \A i \in 1..m : slots[n + i] = added[u][i]
  BY <1>1 DEF CandidateSlots
<1>3. ASSUME NEW i \in DOMAIN slots, slots[i] # Tombstone
      PROVE  /\ slots[i] \in Strings
             /\ i <= n => lookup[slots[i]] = i
             /\ i > n => addedLookup[u][slots[i]] = i /\ lookup[slots[i]] = 0
  <2>1. slots[i] \in Strings
    BY <1>2, <1>3 DEF Slot
  <2>2. CASE i <= n
    <3>1. i \in DOMAIN records /\ slots[i] = records[i]
      BY <1>1, <1>2, <2>2
    <3>2. QED
      BY <1>1, <1>2, <1>3, <2>1, <2>2, <3>1 DEF IndInv, LookupExact, Exact
  <2>3. CASE i > n
    <3>1. i - n \in DOMAIN added[u] /\ n + (i - n) = i
      BY <1>1, <1>2, <2>3
    <3>2. slots[i] = added[u][i - n]
      BY <1>1, <1>2, <3>1
    <3>3. addedLookup[u][slots[i]] = i
      BY <3>1, <3>2 DEF AddedInv
    <3>4. lookup[slots[i]] = 0
      BY <1>1, <1>2, <2>1, <2>3, <3>3 DEF AddedInv
    <3>5. QED
      BY <1>1, <1>2, <2>1, <2>3, <3>3, <3>4
  <2>4. QED
    BY <1>1, <1>2, <2>2, <2>3
<1>4. Injective(slots)
  <2> SUFFICES ASSUME NEW i \in DOMAIN slots, NEW j \in DOMAIN slots,
                      slots[i] = slots[j], slots[i] # Tombstone
               PROVE  i = j
    BY DEF Injective
  <2>1. i \in Nat /\ j \in Nat /\ i # 0 /\ j # 0
    BY <1>1, <1>2
  <2> HIDE DEF slots, n, m
  <2>2. QED
    BY <1>1, <1>3, <2>1
<1>5. ASSUME NEW p \in given[u]
      PROVE  p[2] \in DOMAIN slots /\ slots[p[2]] = p[1]
  <2>1. /\ p[2] \in 1..(n + m)
        /\ p[2] <= n => records[p[2]] = p[1]
        /\ p[2] > n => added[u][p[2] - n] = p[1]
    BY DEF AddedInv
  <2> HIDE DEF slots, n, m
  <2>2. ASSUME p[2] > n
        PROVE  p[2] - n \in 1..m /\ n + (p[2] - n) = p[2]
    BY <1>1, <2>1, <2>2
  <2>3. QED
    BY <1>1, <1>2, <2>1, <2>2
<1>6. QED
  BY <1>2, <1>4, <1>5

(* A compaction keeps every slot number and drops only bytes, whichever of *)
(* its outcomes is taken.                                                  *)
LEMMA PrepareRebuildCompactionIndInv ==
  ASSUME IndInv, NEW u \in Updates, NEW retained,
         PrepareRebuildCompaction(u, retained)
  PROVE  IndInv'
<1> DEFINE slots == CandidateSlots(u)
<1>0. /\ phase[u] = "prepared" /\ ~compacted[u] /\ base[u] = generation
      /\ AddedInv(u) /\ TypeOK
      /\ \A v \in Updates : phase[v] = "prepared" => v = u
  BY DEF PrepareRebuildCompaction, IndInv, UpdateInv
<1>a. /\ slots \in Seq(Slot) /\ Injective(slots)
      /\ Len(slots) = Len(records) + Len(added[u])
      /\ \A i \in 1..Len(records) : slots[i] = records[i]
      /\ \A p \in given[u] : p[2] \in DOMAIN slots /\ slots[p[2]] = p[1]
  BY <1>0, CandidateSlotsExact
<1>b. /\ Len(records) \in Nat /\ Len(added[u]) \in Nat /\ records \in Seq(Slot)
      /\ DOMAIN records = 1..Len(records) /\ DOMAIN slots = 1..Len(slots)
  BY <1>0, <1>a DEF TypeOK
(* It is enough that the rebuilt registry of u is right.                   *)
<1>c. ASSUME NEW r \in Seq(Slot), NEW x \in Index, Exact(r, x),
             Len(records) <= Len(r),
             \A i \in DOMAIN records : r[i] \in {records[i], Tombstone},
             \A p \in given[u] : p[2] \in DOMAIN r /\ r[p[2]] \in {p[1], Tombstone},
             rebuilt' = [rebuilt EXCEPT ![u] = r],
             rebuiltLookup' = [rebuiltLookup EXCEPT ![u] = x],
             compacted' = [compacted EXCEPT ![u] = TRUE],
             added' \in [Updates -> Seq(Strings)],
             addedLookup' \in [Updates -> Index],
             \A v \in Updates : v # u => /\ added'[v] = added[v]
                                         /\ addedLookup'[v] = addedLookup[v],
             UNCHANGED <<registry, phase, base, given, opened>>
      PROVE  IndInv'
  <2> HIDE DEF slots
  <2> USE DEF registry
  <2>1. TypeOK'
    BY <1>0, <1>c DEF TypeOK
  <2>2. LookupExact' /\ IssuedIdsStable'
    BY <1>c DEF IndInv, LookupExact, Exact, IssuedIdsStable
  <2>3. ASSUME NEW v \in Updates PROVE UpdateInv(v)'
    <3>1. UpdateInv(v)
      BY DEF IndInv
    <3>2. CASE v = u
      <4>1. rebuilt'[u] = r /\ rebuiltLookup'[u] = x /\ compacted'[u]
        BY <1>0, <1>c DEF TypeOK
      <4>2. RebuiltInv(u)'
        BY <1>c, <4>1 DEF RebuiltInv, Exact
      <4>3. QED
        BY <1>0, <1>c, <3>1, <3>2, <4>1, <4>2 DEF UpdateInv
    <3>3. CASE v # u
      <4>1. /\ compacted'[v] = compacted[v] /\ rebuilt'[v] = rebuilt[v]
            /\ rebuiltLookup'[v] = rebuiltLookup[v]
        BY <1>0, <1>c, <3>3 DEF TypeOK
      <4>2. phase'[v] = phase[v] /\ phase[v] # "prepared"
        BY <1>0, <1>c, <3>3
      <4>3. AddedInv(v) => AddedInv(v)'
        <5>1. /\ added'[v] = added[v] /\ addedLookup'[v] = addedLookup[v]
              /\ given' = given /\ records' = records /\ lookup' = lookup
          BY <1>c, <3>3
        <5>2. QED
          BY <5>1 DEF AddedInv
      <4>4. EmptyInv(v) => EmptyInv(v)'
        BY <1>c, <3>3, <4>1 DEF EmptyInv
      <4>5. QED
        BY <1>c, <3>1, <4>1, <4>2, <4>3, <4>4 DEF UpdateInv
    <3>4. QED
      BY <3>2, <3>3
  <2>4. QED
    BY <2>1, <2>2, <2>3 DEF IndInv
<1>1. CASE /\ retained = DOMAIN slots
           /\ records = <<>>
           /\ rebuilt' = [rebuilt EXCEPT ![u] = added[u]]
           /\ rebuiltLookup' = [rebuiltLookup EXCEPT ![u] = addedLookup[u]]
           /\ added' = [added EXCEPT ![u] = <<>>]
           /\ addedLookup' = [addedLookup EXCEPT ![u] = NoIndex]
           /\ compacted' = [compacted EXCEPT ![u] = TRUE]
           /\ UNCHANGED <<registry, phase, base, given, opened>>
  <2>1. Len(records) = 0 /\ DOMAIN records = {}
    BY <1>1
  <2>2. added[u] \in Seq(Slot) /\ added[u] \in Seq(Strings) /\ addedLookup[u] \in Index
    BY <1>0 DEF TypeOK, Slot
  <2>3. Exact(added[u], addedLookup[u])
    BY <1>0, <1>b, <2>1, <2>2 DEF AddedInv, Exact
  <2>4. \A p \in given[u] :
          p[2] \in DOMAIN added[u] /\ added[u][p[2]] \in {p[1], Tombstone}
    <3> SUFFICES ASSUME NEW p \in given[u]
                 PROVE  p[2] \in DOMAIN added[u] /\ added[u][p[2]] = p[1]
      OBVIOUS
    <3>1. /\ p[2] \in 1..(0 + Len(added[u]))
          /\ p[2] > 0 => added[u][p[2] - 0] = p[1]
      BY <1>0, <2>1 DEF AddedInv
    <3>2. QED
      BY <1>b, <2>2, <3>1
  <2>5. /\ added' \in [Updates -> Seq(Strings)]
        /\ addedLookup' \in [Updates -> Index]
        /\ \A v \in Updates : v # u => /\ added'[v] = added[v]
                                       /\ addedLookup'[v] = addedLookup[v]
    BY <1>0, <1>1 DEF TypeOK, NoIndex, Index
  <2>6. Len(records) <= Len(added[u])
    BY <1>b, <2>1
  <2> HIDE DEF slots
  <2>7. QED
    BY <1>1, <1>c, <2>1, <2>2, <2>3, <2>4, <2>5, <2>6
<1>2. CASE Discard(u) /\ UNCHANGED registry
  BY <1>2, DiscardIndInv
<1>3. CASE /\ rebuilt' = [rebuilt EXCEPT ![u] = Compacted(slots, retained)]
           /\ rebuiltLookup' =
                [rebuiltLookup EXCEPT ![u] = IndexOf(Compacted(slots, retained))]
           /\ compacted' = [compacted EXCEPT ![u] = TRUE]
           /\ UNCHANGED <<registry, added, addedLookup, phase, base, given, opened>>
  <2> DEFINE r == Compacted(slots, retained)
  <2>1. /\ r \in Seq(Slot) /\ DOMAIN r = DOMAIN slots /\ Len(r) = Len(slots)
        /\ \A i \in DOMAIN slots : r[i] \in {slots[i], Tombstone}
    BY <1>a, <1>b DEF Compacted, Slot
  <2>2. Injective(r)
    BY <1>a, <2>1 DEF Injective
  <2>3. IndexOf(r) \in Index /\ Exact(r, IndexOf(r))
    BY <2>1, <2>2, IndexOfExact
  <2>4. /\ Len(records) <= Len(r)
        /\ \A i \in DOMAIN records : r[i] \in {records[i], Tombstone}
        /\ \A p \in given[u] : p[2] \in DOMAIN r /\ r[p[2]] \in {p[1], Tombstone}
    BY <1>a, <1>b, <2>1
  <2>5. added' \in [Updates -> Seq(Strings)] /\ addedLookup' \in [Updates -> Index]
    BY <1>0, <1>3 DEF TypeOK
  <2> HIDE DEF r, slots
  <2>6. QED
    BY <1>3, <1>c, <2>1, <2>3, <2>4, <2>5 DEF r
<1>4. QED
  BY <1>1, <1>2, <1>3 DEF PrepareRebuildCompaction

(* Publication installs the candidate; every other open update becomes     *)
(* stale, because the generation moves past its base.                      *)
LEMMA PublishPreparedIndInv ==
  ASSUME IndInv, NEW u \in Updates, PublishPrepared(u)
  PROVE  /\ IndInv'
         /\ \A i \in DOMAIN records :
              i \in DOMAIN records' /\ records'[i] \in {records[i], Tombstone}
<1>0. /\ phase[u] = "prepared" /\ base[u] = generation /\ TypeOK
      /\ compacted[u] \in BOOLEAN
      /\ ~compacted[u] => AddedInv(u)
      /\ compacted[u] => RebuiltInv(u)
      /\ \A v \in Updates : phase[v] = "prepared" => v = u
  BY DEF PublishPrepared, IndInv, UpdateInv, TypeOK
<1>1. /\ records' \in Seq(Slot) /\ lookup' \in Index /\ Exact(records', lookup')
      /\ \A i \in DOMAIN records :
           i \in DOMAIN records' /\ records'[i] \in {records[i], Tombstone}
      /\ \A p \in given[u] :
           p[2] \in DOMAIN records' /\ records'[p[2]] \in {p[1], Tombstone}
  <2>1. CASE compacted[u]
    <3>1. records' = rebuilt[u] /\ lookup' = rebuiltLookup[u] /\ RebuiltInv(u)
      BY <1>0, <2>1 DEF PublishPrepared
    <3>2. /\ rebuilt[u] \in Seq(Slot) /\ rebuiltLookup[u] \in Index
          /\ records \in Seq(Slot)
      BY <1>0 DEF TypeOK
    <3>3. DOMAIN records \subseteq DOMAIN rebuilt[u]
      BY <3>1, <3>2 DEF RebuiltInv
    <3>4. QED
      BY <3>1, <3>2, <3>3 DEF RebuiltInv
  <2>2. CASE ~compacted[u]
    <3> DEFINE slots == CandidateSlots(u)
               n == Len(records)
               m == Len(added[u])
    <3>1. records' = slots /\ lookup' = Merge(lookup, addedLookup[u]) /\ AddedInv(u)
      BY <1>0, <2>2 DEF PublishPrepared, CandidateSlots
    <3>2. /\ slots \in Seq(Slot) /\ Len(slots) = n + m
          /\ \A i \in 1..n : slots[i] = records[i]
          /\ \A i \in 1..m : slots[n + i] = added[u][i]
          /\ \A p \in given[u] : p[2] \in DOMAIN slots /\ slots[p[2]] = p[1]
      BY <3>1, CandidateSlotsExact
    <3>3. /\ lookup \in Index /\ addedLookup[u] \in Index
          /\ n \in Nat /\ m \in Nat
          /\ DOMAIN records = 1..n /\ DOMAIN added[u] = 1..m
          /\ added[u] \in Seq(Strings)
      BY <1>0 DEF TypeOK
    <3>4. DOMAIN slots = 1..(n + m)
      BY <3>2
    <3> HIDE DEF slots, n, m
    <3>5. lookup' \in Index
      BY <3>1, <3>3 DEF Merge, Index
    <3>6. \A s \in Strings :
            lookup'[s] = IF lookup[s] # 0 THEN lookup[s] ELSE addedLookup[u][s]
      BY <3>1 DEF Merge
    <3>7. ASSUME NEW i \in DOMAIN slots, slots[i] # Tombstone
          PROVE  lookup'[slots[i]] = i
      <4>1. CASE i \in 1..n
        <5>1. slots[i] = records[i] /\ slots[i] \in Strings
          BY <3>2, <3>7, <4>1 DEF Slot
        <5>2. lookup[slots[i]] = i
          BY <3>3, <3>7, <4>1, <5>1 DEF IndInv, LookupExact, Exact
        <5>3. QED
          BY <3>3, <3>6, <4>1, <5>1, <5>2
      <4>2. CASE i \notin 1..n
        <5>1. i - n \in 1..m /\ n + (i - n) = i
          BY <3>3, <3>4, <4>2
        <5>2. slots[i] = added[u][i - n] /\ slots[i] \in Strings
          BY <3>2, <3>3, <5>1
        <5>3. addedLookup[u][slots[i]] = i
          BY <3>1, <3>3, <5>1, <5>2 DEF AddedInv, n
        <5>4. lookup[slots[i]] = 0
          BY <3>1, <3>3, <3>4, <5>2, <5>3 DEF AddedInv
        <5>5. QED
          BY <3>6, <5>2, <5>3, <5>4
      <4>3. QED
        BY <4>1, <4>2
    <3>8. ASSUME NEW s \in Strings, lookup'[s] # 0
          PROVE  lookup'[s] \in DOMAIN slots /\ slots[lookup'[s]] = s
      <4>1. CASE lookup[s] # 0
        <5>1. lookup[s] \in 1..n /\ records[lookup[s]] = s
          BY <3>3, <4>1 DEF IndInv, LookupExact, Exact
        <5>2. QED
          BY <3>2, <3>3, <3>4, <3>6, <4>1, <5>1
      <4>2. CASE lookup[s] = 0
        <5>1. lookup'[s] = addedLookup[u][s] /\ addedLookup[u][s] # 0
          BY <3>6, <3>8, <4>2
        <5>2. PICK i \in 1..m : added[u][i] = s /\ addedLookup[u][s] = n + i
          BY <3>1, <3>3, <5>1 DEF AddedInv, n
        <5>3. QED
          BY <3>2, <3>3, <3>4, <5>1, <5>2
      <4>3. QED
        BY <4>1, <4>2
    <3>9. Exact(records', lookup')
      BY <3>1, <3>7, <3>8 DEF Exact
    <3>10. QED
      BY <3>1, <3>2, <3>3, <3>4, <3>5, <3>9
  <2>3. QED
    BY <1>0, <2>1, <2>2
<1>2. generation' = generation + 1 /\ generation \in Nat /\ epoch' \in Nat
  BY <1>0 DEF PublishPrepared, TypeOK
<1>3. TypeOK'
  <2>1. issued' \in SUBSET (Strings \X Nat)
    BY <1>0 DEF PublishPrepared, TypeOK
  <2>2. QED
    BY <1>0, <1>1, <1>2, <2>1
      DEF PublishPrepared, Discard, TypeOK, Index, Phases, NoIndex
<1>4. LookupExact'
  BY <1>1 DEF LookupExact, Exact
<1>5. IssuedIdsStable'
  <2> SUFFICES ASSUME NEW p \in issued'
               PROVE  p[2] \in DOMAIN records' /\ records'[p[2]] \in {p[1], Tombstone}
    BY DEF IssuedIdsStable
  <2>1. CASE p \in given[u]
    BY <1>1, <2>1
  <2>2. CASE p \in issued
    <3>1. p[2] \in DOMAIN records /\ records[p[2]] \in {p[1], Tombstone}
      BY <2>2 DEF IndInv, IssuedIdsStable
    <3>2. QED
      BY <1>1, <3>1
  <2>3. QED
    BY <2>1, <2>2 DEF PublishPrepared
<1>6. ASSUME NEW v \in Updates PROVE UpdateInv(v)'
  <2>1. CASE v = u
    <3>1. phase'[v] = "none" /\ EmptyInv(v)'
      BY <1>0, <2>1 DEF PublishPrepared, Discard, TypeOK, EmptyInv
    <3>2. QED
      BY <3>1 DEF UpdateInv
  <2>2. CASE v # u
    <3>1. /\ phase'[v] = phase[v] /\ base'[v] = base[v]
          /\ compacted'[v] = compacted[v] /\ added'[v] = added[v]
          /\ addedLookup'[v] = addedLookup[v] /\ given'[v] = given[v]
      BY <1>0, <2>2 DEF PublishPrepared, Discard, TypeOK
    <3>2. phase[v] # "prepared" /\ base[v] \in Nat
      BY <1>0, <2>2 DEF TypeOK
    <3>3. UpdateInv(v)
      BY DEF IndInv
    <3>4. phase[v] # "none" => base'[v] < generation'
      BY <1>2, <3>1, <3>2, <3>3 DEF UpdateInv
    <3>5. EmptyInv(v) => EmptyInv(v)'
      BY <3>1 DEF EmptyInv
    <3>6. QED
      BY <1>2, <3>1, <3>2, <3>3, <3>4, <3>5 DEF UpdateInv
  <2>3. QED
    BY <2>1, <2>2
<1>7. QED
  BY <1>1, <1>3, <1>4, <1>5, <1>6 DEF IndInv

-----------------------------------------------------------------------------
(* Every step keeps the inductive invariant.                               *)
LEMMA NextIndInv ==
  ASSUME IndInv, [Next]_vars
  PROVE  IndInv'
<1>1. CASE UNCHANGED vars
  <2> USE <1>1 DEF vars, registry, candidate
  <2>1. TypeOK' /\ LookupExact' /\ IssuedIdsStable'
    BY DEF IndInv, TypeOK, LookupExact, Exact, IssuedIdsStable
  <2>2. \A u \in Updates : UpdateInv(u)'
    BY DEF IndInv, UpdateInv, EmptyInv, AddedInv, RebuiltInv, Exact
  <2>3. QED
    BY <2>1, <2>2 DEF IndInv
<1>2. CASE Initialize
  BY <1>2, InitializeIndInv
<1>3. ASSUME NEW slots \in Artifacts, SwapCompiled(slots) PROVE IndInv'
  BY <1>3, SwapCompiledIndInv
<1>4. ASSUME NEW u \in Updates, BeginUpdate(u) PROVE IndInv'
  BY <1>4, BeginUpdateIndInv
<1>5. ASSUME NEW u \in Updates, NEW s \in Strings, Intern(u, s) PROVE IndInv'
  BY <1>5, InternIndInv
<1>6. ASSUME NEW u \in Updates, PreparePublish(u) PROVE IndInv'
  BY <1>6, PreparePublishIndInv
<1>7. ASSUME NEW u \in Updates, NEW retained \in SUBSET (1..MaxSlots),
             PrepareRebuildCompaction(u, retained)
      PROVE  IndInv'
  BY <1>7, PrepareRebuildCompactionIndInv
<1>8. ASSUME NEW u \in Updates, PublishPrepared(u) PROVE IndInv'
  BY <1>8, PublishPreparedIndInv
<1>9. ASSUME NEW u \in Updates, Cancel(u) PROVE IndInv'
  BY <1>9, DiscardIndInv DEF Cancel
<1>10. QED
  BY <1>1, <1>2, <1>3, <1>4, <1>5, <1>6, <1>7, <1>8, <1>9 DEF Next

(* The inductive invariant holds throughout.                               *)
LEMMA Inductive == Spec => []IndInv
<1>1. IndInv /\ [Next]_vars => IndInv'
  BY NextIndInv
<1>2. QED
  BY InitIndInv, <1>1, PTL DEF Spec

(* Every reachable registry is well typed, whatever the mix of updates,    *)
(* compactions, loads and re-initialisations (string_registry.cpp).        *)
THEOREM TypeCorrect == Spec => []TypeOK
<1>1. IndInv => TypeOK
  BY DEF IndInv
<1>2. QED
  BY Inductive, <1>1, PTL

(* The committed index is exact in every reachable state: find() returns   *)
(* the slot that holds a string, and only that (rebuild_lookup_index,      *)
(* publish_prepared, swap_compiled).                                       *)
THEOREM LookupAlwaysExact == Spec => []LookupExact
<1>1. IndInv => LookupExact
  BY DEF IndInv
<1>2. QED
  BY Inductive, <1>1, PTL

(* An id handed out by a committed update never names another string.      *)
THEOREM IssuedIdsAlwaysStable == Spec => []IssuedIdsStable
<1>1. IndInv => IssuedIdsStable
  BY DEF IndInv
<1>2. QED
  BY Inductive, <1>1, PTL

(* No update built against replaced content is ever prepared.              *)
THEOREM NoStalePreparation == Spec => []StaleNeverPrepared
<1>1. IndInv => StaleNeverPrepared
  BY DEF IndInv, UpdateInv, StaleNeverPrepared
<1>2. QED
  BY Inductive, <1>1, PTL

(* While an update is prepared, no step moves a slot, gives it another     *)
(* string or revives it: publish_prepared only appends and reclaims.       *)
THEOREM SlotsAreNeverReused == Spec => SlotsNeverReused
<1> DEFINE Kept == \A i \in DOMAIN records :
                     i \in DOMAIN records' /\ records'[i] \in {records[i], Tombstone}
<1>1. ASSUME IndInv, [Next]_vars, NEW w \in Updates, phase[w] = "prepared"
      PROVE  Kept
  <2>1. ~Idle
    BY <1>1 DEF Idle
  <2>2. CASE UNCHANGED records
    BY <2>2
  <2>3. ASSUME NEW u \in Updates, PublishPrepared(u) PROVE Kept
    BY <1>1, <2>3, PublishPreparedIndInv
  <2>4. QED
    BY <1>1, <2>1, <2>2, <2>3
      DEF Next, vars, registry, Idle, Initialize, SwapCompiled, BeginUpdate, Intern,
          PreparePublish, PrepareRebuildCompaction, Cancel
<1>2. IndInv /\ [Next]_vars =>
        [(\E u \in Updates : phase[u] = "prepared") => Kept]_vars
  BY <1>1
<1>3. QED
  BY Inductive, <1>2, PTL DEF Spec, SlotsNeverReused

=============================================================================
