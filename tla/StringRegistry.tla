---------------------------- MODULE StringRegistry ----------------------------
(***************************************************************************)
(* The String Registry (project/string/string_registry.{hpp,cpp}): the     *)
(* owner of every interned string, and the isolated append-only updates    *)
(* that are built against one generation of it.                            *)
(*                                                                         *)
(* A string_id is a one-based slot number of `records`; 0 is the invalid   *)
(* id.  The value-to-id index `lookup_index` is a container of its own in  *)
(* the code, so it is a variable of its own here.  string bytes are        *)
(* elements of Strings; their storage addresses are left out.              *)
(*                                                                         *)
(* graph_build_transaction::commit() runs prepare, compaction and publish  *)
(* of one update in one synchronous call, so no other operation happens    *)
(* while an update is prepared (operator Idle).                            *)
(***************************************************************************)
EXTENDS Integers, Sequences

CONSTANTS
  Strings,        \* the byte strings that can be interned
  Updates,        \* string_registry_update objects
  Tombstone,      \* a null record: a slot whose bytes G0 has reclaimed
  MaxSlots,       \* bound on the number of slots of a candidate
  MaxEpoch        \* bound on the replacements of the committed content

ASSUME StringRegistryAssumption ==
  /\ Tombstone \notin Strings
  /\ MaxSlots \in Nat
  /\ MaxEpoch \in Nat

VARIABLES
  records,        \* the committed slots, Seq(Strings \cup {Tombstone})
  lookup,         \* lookup_index: string -> id, 0 when absent
  generation,
  phase,          \* the flags (owner, failure, prepared, committed) of an update
  base,           \* base_generation
  added,          \* added_records
  addedLookup,    \* added_lookup
  compacted,      \* rebuild_compaction_prepared
  rebuilt,        \* rebuilt_records
  rebuiltLookup,  \* rebuilt_lookup
  given,          \* history: the <<string, id>> pairs intern() has returned
  issued,         \* history: the pairs returned by updates since committed
  epoch,          \* history: how often the committed content was replaced
  opened          \* history: the epoch at which an update began

registry == <<records, lookup, generation, epoch, issued>>
candidate == <<added, addedLookup, compacted, rebuilt, rebuiltLookup>>
vars == <<registry, phase, base, candidate, given, opened>>

Slot == Strings \cup {Tombstone}
NoIndex == [s \in Strings |-> 0]

(* An update that has committed, failed or been cancelled refuses every    *)
(* call, so it is the same as no update at all: phase "none".              *)
Phases == {"none", "open", "prepared"}

(* lookup_index is rebuilt from the slots: each live slot is the id of its *)
(* string.                                                                 *)
IndexOf(slots) ==
  [s \in Strings |-> IF \E i \in DOMAIN slots : slots[i] = s
                     THEN CHOOSE i \in DOMAIN slots : slots[i] = s
                     ELSE 0]

(* No string occupies two slots.                                           *)
Injective(slots) ==
  \A i, j \in DOMAIN slots :
    slots[i] = slots[j] /\ slots[i] # Tombstone => i = j

Init ==
  /\ records = <<>>
  /\ lookup = NoIndex
  /\ generation = 0
  /\ phase = [u \in Updates |-> "none"]
  /\ base = [u \in Updates |-> 0]
  /\ added = [u \in Updates |-> <<>>]
  /\ addedLookup = [u \in Updates |-> NoIndex]
  /\ compacted = [u \in Updates |-> FALSE]
  /\ rebuilt = [u \in Updates |-> <<>>]
  /\ rebuiltLookup = [u \in Updates |-> NoIndex]
  /\ given = [u \in Updates |-> {}]
  /\ issued = {}
  /\ epoch = 0
  /\ opened = [u \in Updates |-> 0]

Idle == \A u \in Updates : phase[u] # "prepared"

(* The end of an update, committed or not: nothing of it can be reached    *)
(* any more.                                                               *)
Discard(u) ==
  /\ phase' = [phase EXCEPT ![u] = "none"]
  /\ base' = [base EXCEPT ![u] = 0]
  /\ added' = [added EXCEPT ![u] = <<>>]
  /\ addedLookup' = [addedLookup EXCEPT ![u] = NoIndex]
  /\ compacted' = [compacted EXCEPT ![u] = FALSE]
  /\ rebuilt' = [rebuilt EXCEPT ![u] = <<>>]
  /\ rebuiltLookup' = [rebuiltLookup EXCEPT ![u] = NoIndex]
  /\ given' = [given EXCEPT ![u] = {}]
  /\ opened' = [opened EXCEPT ![u] = 0]

-------------------------------------------------------------------------------
(* string_registry::initialize: every slot and the index are dropped; the  *)
(* generation moves on, so an open update becomes stale.                   *)
Initialize ==
  /\ Idle
  /\ epoch < MaxEpoch
  /\ records' = <<>>
  /\ lookup' = NoIndex
  /\ generation' = generation + 1
  /\ issued' = {}
  /\ epoch' = epoch + 1
  /\ UNCHANGED <<phase, base, candidate, given, opened>>

(* string_registry::begin_update: a new update object, empty.              *)
BeginUpdate(u) ==
  /\ Idle
  /\ phase[u] = "none"
  /\ phase' = [phase EXCEPT ![u] = "open"]
  /\ base' = [base EXCEPT ![u] = generation]
  /\ opened' = [opened EXCEPT ![u] = epoch]
  /\ UNCHANGED <<registry, candidate, given>>

(* string_registry_update::find: the update's own strings first, then the  *)
(* committed index.                                                        *)
Find(u, s) == IF addedLookup[u][s] # 0 THEN addedLookup[u][s] ELSE lookup[s]

(* string_registry_update::intern on a live update whose base is current;  *)
(* otherwise the call is refused and changes nothing.                      *)
Intern(u, s) ==
  /\ Idle
  /\ phase[u] = "open"
  /\ base[u] = generation
  /\ IF Find(u, s) # 0
     THEN /\ given' = [given EXCEPT ![u] = @ \cup {<<s, Find(u, s)>>}]
          /\ UNCHANGED candidate
     ELSE LET next == Len(records) + Len(added[u]) + 1 IN
          /\ next <= MaxSlots
          /\ added' = [added EXCEPT ![u] = Append(@, s)]
          /\ addedLookup' = [addedLookup EXCEPT ![u][s] = next]
          /\ given' = [given EXCEPT ![u] = @ \cup {<<s, next>>}]
          /\ UNCHANGED <<compacted, rebuilt, rebuiltLookup>>
  /\ UNCHANGED <<registry, phase, base, opened>>

(* Mutant: the owner's generation is not compared.                         *)
PreparePublish_Unchecked(u) ==
  /\ Idle
  /\ phase[u] = "open"
  /\ phase' = [phase EXCEPT ![u] = "prepared"]
  /\ UNCHANGED <<registry, base, candidate, given, opened>>

(* string_registry_update::prepare_publish: freezes the candidate; a stale *)
(* base latches the failure.                                               *)
PreparePublish(u) ==
  /\ Idle
  /\ phase[u] = "open"
  /\ \/ /\ base[u] = generation
        /\ phase' = [phase EXCEPT ![u] = "prepared"]
        /\ UNCHANGED <<base, candidate, given, opened>>
     \/ /\ base[u] # generation
        /\ Discard(u)
  /\ UNCHANGED registry

(* Mutant: the update's own strings are numbered first.                    *)
CandidateSlots_AddedFirst(u) == added[u] \o records

(* get_for_validation over every slot of the candidate.                    *)
CandidateSlots(u) == records \o added[u]

(* Mutant: reclaimed slots are closed up instead of left as tombstones.    *)
Compacted_Renumbered(slots, retained) ==
  SelectSeq(slots, LAMBDA x : \E i \in retained : slots[i] = x)

(* The slots that survive a compaction keep their numbers; the others      *)
(* become tombstones.                                                      *)
Compacted(slots, retained) ==
  [i \in DOMAIN slots |-> IF i \in retained THEN slots[i] ELSE Tombstone]

(* string_registry_update::prepare_rebuild_compaction with the set of ids  *)
(* Graph retains.  Three outcomes: nothing to reclaim (the candidate is    *)
(* adopted whole when the owner is still empty, else left as it is), a     *)
(* retained slot without bytes (failure), or a rebuilt registry.           *)
PrepareRebuildCompaction(u, retained) ==
  LET slots == CandidateSlots(u)
  IN
  /\ phase[u] = "prepared"
  /\ ~compacted[u]
  /\ retained \subseteq DOMAIN slots
  /\ \/ /\ retained = DOMAIN slots
        /\ records = <<>>
        /\ rebuilt' = [rebuilt EXCEPT ![u] = added[u]]
        /\ rebuiltLookup' = [rebuiltLookup EXCEPT ![u] = addedLookup[u]]
        /\ added' = [added EXCEPT ![u] = <<>>]
        /\ addedLookup' = [addedLookup EXCEPT ![u] = NoIndex]
        /\ compacted' = [compacted EXCEPT ![u] = TRUE]
        /\ UNCHANGED <<phase, base, given, opened>>
     \/ /\ retained # DOMAIN slots
        /\ \E i \in retained : slots[i] = Tombstone
        /\ Discard(u)
     \/ /\ retained # DOMAIN slots
        /\ \A i \in retained : slots[i] # Tombstone
        /\ rebuilt' = [rebuilt EXCEPT ![u] = Compacted(slots, retained)]
        /\ rebuiltLookup' =
             [rebuiltLookup EXCEPT ![u] = IndexOf(Compacted(slots, retained))]
        /\ compacted' = [compacted EXCEPT ![u] = TRUE]
        /\ UNCHANGED <<added, addedLookup, phase, base, given, opened>>
  /\ UNCHANGED registry

(* Mutant: the published strings are not indexed.                          *)
Merge_Dropped(index, other) == index

(* unordered_map::merge keeps the entry the destination already has.       *)
Merge(index, other) ==
  [s \in Strings |-> IF index[s] # 0 THEN index[s] ELSE other[s]]

(* string_registry_update::publish_prepared.                               *)
PublishPrepared(u) ==
  /\ phase[u] = "prepared"
  /\ epoch < MaxEpoch
  /\ records' = IF compacted[u] THEN rebuilt[u] ELSE records \o added[u]
  /\ lookup' = IF compacted[u] THEN rebuiltLookup[u]
                               ELSE Merge(lookup, addedLookup[u])
  /\ generation' = generation + 1
  /\ issued' = issued \cup given[u]
  /\ epoch' = epoch + 1
  /\ Discard(u)

(* string_registry_update::cancel, and the failure latch of an allocation  *)
(* error: the candidate is dropped and the registry is untouched.          *)
Cancel(u) ==
  /\ phase[u] \in {"open", "prepared"}
  /\ Discard(u)
  /\ UNCHANGED registry

(* graph_manager::load_compiled_checkpoint fills a detached registry       *)
(* (generation 0 -> initialize -> import_slots = 2), which refuses a       *)
(* repeated string, and swap_compiled exchanges it with the owned one,     *)
(* generation included.  The generation can therefore go back, or stay the *)
(* same, and would not show an open update that it is stale; the guard on  *)
(* open updates is graph_manager's single-writer contract, not a test in   *)
(* the code.                                                               *)
ImportedGeneration == 2

SwapCompiled(slots) ==
  /\ \A u \in Updates : phase[u] = "none"
  /\ epoch < MaxEpoch
  /\ Injective(slots)
  /\ records' = slots
  /\ lookup' = IndexOf(slots)
  /\ generation' = ImportedGeneration
  /\ issued' = {}
  /\ epoch' = epoch + 1
  /\ UNCHANGED <<phase, base, candidate, given, opened>>

Artifacts == UNION {[1..n -> Slot] : n \in 0..MaxSlots}

Next ==
  \/ Initialize
  \/ \E slots \in Artifacts : SwapCompiled(slots)
  \/ \E u \in Updates :
       \/ BeginUpdate(u)
       \/ \E s \in Strings : Intern(u, s)
       \/ PreparePublish(u)
       \/ \E retained \in SUBSET (1..MaxSlots) :
            PrepareRebuildCompaction(u, retained)
       \/ PublishPrepared(u)
       \/ Cancel(u)

Spec == Init /\ [][Next]_vars

-------------------------------------------------------------------------------
Index == [Strings -> Nat]

(* The variables have their types; a base is always a generation number.   *)
TypeOK ==
  /\ records \in Seq(Slot)
  /\ lookup \in Index
  /\ generation \in Nat
  /\ phase \in [Updates -> Phases]
  /\ base \in [Updates -> Nat]
  /\ added \in [Updates -> Seq(Strings)]
  /\ addedLookup \in [Updates -> Index]
  /\ compacted \in [Updates -> BOOLEAN]
  /\ rebuilt \in [Updates -> Seq(Slot)]
  /\ rebuiltLookup \in [Updates -> Index]
  /\ given \in [Updates -> SUBSET (Strings \X Nat)]
  /\ issued \in SUBSET (Strings \X Nat)
  /\ epoch \in Nat
  /\ opened \in [Updates -> Nat]

(* An index is exact for a sequence of slots when it maps every string to  *)
(* the slot that holds it, and nothing else.                               *)
Exact(slots, index) ==
  /\ \A i \in DOMAIN slots : slots[i] # Tombstone => index[slots[i]] = i
  /\ \A s \in Strings : index[s] # 0 =>
       index[s] \in DOMAIN slots /\ slots[index[s]] = s

(* The committed index finds every live string at its slot and finds       *)
(* nothing else, after any mix of appends, compactions, loads and          *)
(* re-initialisations (string_registry.cpp: "dense registry contract").    *)
LookupExact == Exact(records, lookup)

(* An id that intern() returned in an update that was committed names its  *)
(* string for as long as the registry is not replaced, or names nothing    *)
(* once G0 reclaimed the bytes; it never names another string              *)
(* (ARCHITECTURE_V2 invariant 18).                                         *)
IssuedIdsStable ==
  \A p \in issued :
    p[2] \in DOMAIN records /\ records[p[2]] \in {p[1], Tombstone}

(* An update reaches publication only when the content it was built        *)
(* against is still the committed one (string_registry.hpp:                *)
(* "stale candidates cannot commit").                                      *)
StaleNeverPrepared ==
  \A u \in Updates : phase[u] = "prepared" => opened[u] = epoch

(* Publishing an update moves no slot, gives no slot another string and    *)
(* revives no tombstone: slots are only appended or reclaimed.             *)
SlotsNeverReused ==
  [][(\E u \in Updates : phase[u] = "prepared") =>
       \A i \in DOMAIN records :
         i \in DOMAIN records' /\ records'[i] \in {records[i], Tombstone}]_vars

===============================================================================
