--------------------------- MODULE GraphTransaction ---------------------------
(***************************************************************************)
(* The Graph Manager and its build transaction (graph/graph_manager.cpp,   *)
(* graph/graph_build_transaction.cpp): one logical publication over four   *)
(* layers, each with a candidate of its own, prepared in one order and     *)
(* published in another, any of which may fail while it is prepared.       *)
(*                                                                         *)
(* What a layer holds is abstracted to the revision of every Source it     *)
(* represents: a revision is the number of the build that published the    *)
(* Source, 0 when the layer has nothing of it.  The String Registry holds  *)
(* the strings of a set of <<source, revision>> pairs.  Each Source owns   *)
(* one slot, with the Source's number, of the string records, of the       *)
(* contribution cache and of the identity vector of the Graph, which is    *)
(* indexed by the Source's string.  `slots` is the slots these vectors     *)
(* have: the last two are lengthened while the transaction is only being   *)
(* prepared.                                                               *)
(*                                                                         *)
(* There is one writer (graph_manager.hpp), so one transaction at a time;  *)
(* a reader may look at project_state between any two steps.               *)
(***************************************************************************)
EXTENDS Naturals

CONSTANTS
  NumSources,     \* Source numbers are 1..NumSources
  MaxRevision     \* bound on the builds that are begun

ASSUME GraphTransactionAssumption ==
  /\ NumSources \in Nat
  /\ MaxRevision \in Nat

VARIABLES
  state,          \* current_state, a project_state
  sources,        \* Source Manager: source -> revision
  stableView,     \* the Source Manager serves a mapped source checkpoint
  strings,        \* String Registry: the <<source, revision>> it has strings of
  contributions,  \* Source contribution cache: source -> revision
  complete,       \* provenance_complete
  graph,          \* canonical G: source -> revision
  slots,          \* slots of the committed string, contribution and Graph vectors
  scratch,        \* slots of candidate_identities, which outlive an update
  tx,             \* the build transaction
  load,           \* progress of load_compiled_checkpoint
  file,           \* a saved compiled checkpoint
  clock,          \* history: builds begun so far
  opened          \* history: the layers when the build or load began

Sources == 1..NumSources
Revision == 0..MaxRevision
Content == [Sources -> Revision]
Nothing == [s \in Sources |-> 0]
Pairs == Sources \X (1..MaxRevision)
Grown == {"contribution", "graph"}
Vectors == Grown \cup {"string"}
NoSlots == [l \in Vectors |-> {}]

layers == <<sources, strings, contributions, graph, slots>>
vars == <<state, layers, scratch, stableView, complete, tx, load, file, clock, opened>>

(* The strings a program needs.                                            *)
StringsOf(content) == {p \in Pairs : content[p[1]] = p[2]}

(* The slots a vector must have for the Sources of a content: it has to    *)
(* reach the highest number.                                               *)
Needed(content) ==
  {t \in Sources : \E s \in Sources : content[s] # 0 /\ t <= s}

NoFile == [strings |-> {}, graph |-> Nothing, slots |-> NoSlots, saved |-> FALSE]

(* A transaction that is over, committed or failed, accepts no call.       *)
NoTransaction ==
  [step |-> "none", incremental |-> FALSE, live |-> FALSE,
   delta |-> Nothing, grown |-> {}, undo |-> [l \in Grown |-> {}]]

(* The steps of a transaction, in the order commit() takes them: each name *)
(* says what has just been done.                                           *)
Preparing == {"building", "source", "string", "graph", "retention"}
Publishing == {"prepared", "sources_out", "strings_out", "contributions_out",
               "graph_out"}
Steps == {"none", "failing"} \cup Preparing \cup Publishing

Init ==
  /\ state = "error"
  /\ sources = Nothing
  /\ stableView = FALSE
  /\ strings = {}
  /\ contributions = Nothing
  /\ complete = TRUE
  /\ graph = Nothing
  /\ slots = NoSlots
  /\ scratch = {}
  /\ tx = NoTransaction
  /\ load = "none"
  /\ file = NoFile
  /\ clock = 0
  /\ opened = layers

Quiet == tx.step = "none" /\ load = "none"

(* The layers after a replacement of the Sources in delta.                 *)
Merged(content, delta) ==
  [s \in Sources |-> IF delta[s] # 0 THEN delta[s] ELSE content[s]]

Replaced(content) == IF tx.incremental THEN Merged(content, tx.delta)
                                       ELSE tx.delta

-------------------------------------------------------------------------------
(* graph_manager::initialize: strings, contributions and Graph are         *)
(* emptied; source_manager::initialize does nothing.                       *)
Initialize ==
  /\ Quiet
  /\ state' = "error"
  /\ strings' = {}
  /\ contributions' = Nothing
  /\ complete' = TRUE
  /\ graph' = Nothing
  /\ slots' = NoSlots
  /\ scratch' = {}
  /\ UNCHANGED <<sources, stableView, tx, load, file, clock, opened>>

(* The process is started again: only the checkpoint file is left.         *)
Restart ==
  /\ state' = "error"
  /\ sources' = Nothing
  /\ stableView' = FALSE
  /\ strings' = {}
  /\ contributions' = Nothing
  /\ complete' = TRUE
  /\ graph' = Nothing
  /\ slots' = NoSlots
  /\ scratch' = {}
  /\ tx' = NoTransaction
  /\ load' = "none"
  /\ UNCHANGED <<file, clock, opened>>

(* Mutant: the requested mode is taken as it is.                           *)
EffectiveIncremental_Requested(incremental) == incremental

(* An incremental build needs the contributions of the committed Graph;    *)
(* without them it becomes a rebuild.                                      *)
EffectiveIncremental(incremental) == incremental /\ complete

(* graph_manager::begin_build and the constructor of the transaction.  The *)
(* Source update of a Source Manager that serves a mapped checkpoint has   *)
(* no owner and refuses every call.                                        *)
BeginBuild(incremental) ==
  /\ Quiet
  /\ clock < MaxRevision
  /\ clock' = clock + 1
  /\ state' = "building"
  /\ tx' = [NoTransaction EXCEPT
              !.step = "building",
              !.incremental = EffectiveIncremental(incremental),
              !.live = ~stableView]
  /\ opened' = layers
  /\ UNCHANGED <<scratch, layers, stableView, complete, load, file>>

(* publish_source_entry / project_builder::build for one Source: its       *)
(* physical state, strings, contribution and canonical delta enter the     *)
(* four candidates; touch_identity lengthens candidate_identities at once. *)
(* A Source is replaced once in a transaction, and its string gets the     *)
(* next number.                                                            *)
ReplaceSource(s) ==
  /\ tx.step = "building"
  /\ tx.live
  /\ tx.delta[s] = 0
  /\ \A t \in 1..(s - 1) : t \in slots["string"] \/ tx.delta[t] # 0
  /\ tx' = [tx EXCEPT !.delta[s] = clock]
  /\ scratch' = scratch \cup (1..s)
  /\ UNCHANGED <<state, layers, stableView, complete, load, file, clock, opened>>

-------------------------------------------------------------------------------
(* prepare(): one candidate after the other.                               *)
Advance(from, to) == tx.step = from /\ tx' = [tx EXCEPT !.step = to]

PrepareSource ==
  /\ tx.live
  /\ Advance("building", "source")
  /\ UNCHANGED <<scratch, state, layers, stableView, complete, load, file, clock,
                 opened>>

PrepareString ==
  /\ Advance("source", "string")
  /\ UNCHANGED <<scratch, state, layers, stableView, complete, load, file, clock,
                 opened>>

(* What a committed vector must reach: the contribution cache computes the *)
(* highest Source of the update, the Graph takes the length of             *)
(* candidate_identities, with what earlier updates left there.             *)
Target(l) == slots[l] \cup (IF l = "graph" THEN scratch ELSE Needed(tx.delta))

(* The committed vector of layer l is lengthened for the Sources of the    *)
(* candidate; its old length is noted first, for cancel().  An exception   *)
(* may leave the vector as it was.                                         *)
Grow(l, step) ==
  \E reached \in {slots[l], Target(l)} :
    /\ step # "failing" => reached = Target(l)
    /\ slots' = [slots EXCEPT ![l] = reached]
    /\ tx' = [tx EXCEPT !.step = step, !.grown = @ \cup {l},
                        !.undo[l] = slots[l]]

(* graph_update::prepare_publish: an incremental update grows the          *)
(* committed vectors, a full reconstruction builds new ones on the side.   *)
PrepareGraph ==
  /\ tx.step = "string"
  /\ IF tx.incremental
     THEN Grow("graph", "graph")
     ELSE Advance("string", "graph") /\ UNCHANGED slots
  /\ UNCHANGED <<scratch, state, sources, strings, contributions, graph, stableView,
                 complete, load, file, clock, opened>>

(* collect_rebuild_string_retention and prepare_rebuild_compaction: on the *)
(* side of the candidate, for a rebuild only.                              *)
PrepareRetention ==
  /\ Advance("graph", "retention")
  /\ UNCHANGED <<scratch, state, layers, stableView, complete, load, file, clock,
                 opened>>

PrepareContribution ==
  /\ tx.step = "retention"
  /\ Grow("contribution", "prepared")
  /\ UNCHANGED <<scratch, state, sources, strings, contributions, graph, stableView,
                 complete, load, file, clock, opened>>

(* One of the preparations returns an error: a refused candidate, or an    *)
(* allocation that fails before, during or after the growth.               *)
PrepareFails ==
  /\ \/ /\ tx.step \in Preparing
        /\ tx' = [tx EXCEPT !.step = "failing"]
        /\ UNCHANGED slots
     \/ tx.step = "string" /\ tx.incremental /\ Grow("graph", "failing")
     \/ tx.step = "retention" /\ Grow("contribution", "failing")
  /\ UNCHANGED <<scratch, state, sources, strings, contributions, graph, stableView,
                 complete, load, file, clock, opened>>

(* Mutant: the contribution cache is cancelled without its rollback.       *)
RolledBack_GraphOnly ==
  [l \in Vectors |-> IF l \in tx.grown \cap {"graph"} THEN tx.undo[l]
                                                      ELSE slots[l]]

(* cancel() of the contribution and the Graph update: what was lengthened  *)
(* gets its old length again.                                              *)
RolledBack == [l \in Vectors |-> IF l \in tx.grown THEN tx.undo[l] ELSE slots[l]]

(* fail(): every candidate is cancelled and the state becomes error.       *)
(* Called by prepare(), by the builder and the frontend while the          *)
(* candidates are filled, and by the destructor of a transaction that is   *)
(* active or prepared.                                                     *)
Fail ==
  /\ tx.step \in {"building", "failing", "prepared"}
  /\ slots' = RolledBack
  /\ tx' = NoTransaction
  /\ state' = "error"
  /\ UNCHANGED <<scratch, sources, strings, contributions, graph, stableView, complete,
                 load, file, clock, opened>>

-------------------------------------------------------------------------------
(* publish_prepared(): the layers in their fixed order, then the state.    *)
PublishSource ==
  /\ Advance("prepared", "sources_out")
  /\ sources' = Merged(sources, tx.delta)
  /\ UNCHANGED <<scratch, state, strings, contributions, graph, slots, stableView,
                 complete, load, file, clock, opened>>

(* Mutant: an incremental update, too, keeps only what it has seen.        *)
PublishString_Compacted ==
  /\ Advance("sources_out", "strings_out")
  /\ strings' = StringsOf(tx.delta)
  /\ slots' = [slots EXCEPT !["string"] = @ \cup Needed(tx.delta)]
  /\ UNCHANGED <<scratch, state, sources, contributions, graph, stableView,
                 complete, load, file, clock, opened>>

(* A rebuild keeps the strings of the candidate Graph and of the names     *)
(* that are still reserved; an incremental update only adds.  Both keep    *)
(* every slot there was.                                                   *)
PublishString ==
  /\ Advance("sources_out", "strings_out")
  /\ LET new == StringsOf(tx.delta)
     IN  IF tx.incremental
         THEN strings' = strings \cup new
         ELSE \E reserved \in SUBSET strings : strings' = reserved \cup new
  /\ slots' = [slots EXCEPT !["string"] = @ \cup Needed(tx.delta)]
  /\ UNCHANGED <<scratch, state, sources, contributions, graph, stableView,
                 complete, load, file, clock, opened>>

(* A rebuild clears the contributions of Sources it did not observe.       *)
PublishContribution ==
  /\ Advance("strings_out", "contributions_out")
  /\ contributions' = Replaced(contributions)
  /\ complete' = TRUE
  /\ UNCHANGED <<scratch, state, sources, strings, graph, slots, stableView, load, file,
                 clock, opened>>

(* build_rebuild_storage keeps the reserved names in the identity vector.  *)
PublishGraph ==
  /\ Advance("contributions_out", "graph_out")
  /\ graph' = Replaced(graph)
  /\ slots' = IF tx.incremental THEN slots
             ELSE [slots EXCEPT !["graph"] = @ \cup scratch]
  /\ UNCHANGED <<scratch, state, sources, strings, contributions, stableView, complete,
                 load, file, clock, opened>>

CompleteBuild ==
  /\ tx.step = "graph_out"
  /\ tx' = NoTransaction
  /\ state' = "valid"
  /\ UNCHANGED <<scratch, layers, stableView, complete, load, file, clock, opened>>

-------------------------------------------------------------------------------
(* validate_cross_references: no identity without a string slot.           *)
ArtifactAccepted == slots["graph"] \subseteq slots["string"]

(* graph_manager::save_compiled_checkpoint.  write_compiled_checkpoint     *)
(* decodes what it has written before it replaces the file, and a refused  *)
(* artifact leaves the old file.                                           *)
SaveCompiled ==
  /\ Quiet
  /\ ArtifactAccepted
  /\ file' = [strings |-> strings, graph |-> graph, slots |-> slots, saved |-> TRUE]
  /\ UNCHANGED <<scratch, state, layers, stableView, complete, tx, load, clock, opened>>

(* Mutant: readers are not turned away while the checkpoint is loaded.     *)
BeginLoad_StateLast ==
  /\ Quiet
  /\ load' = "reading"
  /\ opened' = layers
  /\ UNCHANGED <<scratch, state, layers, stableView, complete, tx, file, clock>>

(* graph_manager::load_compiled_checkpoint: the state first; then the file *)
(* is imported into detached objects, which may fail.                      *)
BeginLoad ==
  /\ Quiet
  /\ state' = "building"
  /\ load' = "reading"
  /\ opened' = layers
  /\ UNCHANGED <<scratch, layers, stableView, complete, tx, file, clock>>

LoadFails ==
  /\ load = "reading"
  /\ state' = "error"
  /\ load' = "none"
  /\ UNCHANGED <<scratch, layers, stableView, complete, tx, file, clock, opened>>

LoadStrings ==
  /\ load = "reading"
  /\ file.saved
  /\ strings' = file.strings
  /\ slots' = [slots EXCEPT !["string"] = file.slots["string"]]
  /\ load' = "strings_in"
  /\ UNCHANGED <<scratch, state, sources, contributions, graph, stableView,
                 complete, tx, file, clock, opened>>

LoadGraph ==
  /\ load = "strings_in"
  /\ graph' = file.graph
  /\ slots' = [slots EXCEPT !["graph"] = file.slots["graph"]]
  /\ scratch' = {}
  /\ load' = "graph_in"
  /\ UNCHANGED <<state, sources, strings, contributions, stableView, complete,
                 tx, file, clock, opened>>

(* The contribution cache is invalidated before the state becomes valid.   *)
FinishLoad ==
  /\ load = "graph_in"
  /\ contributions' = Nothing
  /\ slots' = [slots EXCEPT !["contribution"] = {}]
  /\ complete' = FALSE
  /\ state' = "valid"
  /\ load' = "none"
  /\ UNCHANGED <<scratch, sources, strings, graph, stableView, tx, file, clock, opened>>

(* graph_manager::load_source_checkpoint: no Graph comes with it, so the   *)
(* state is error.  A Source Manager that has Sources, or already serves a *)
(* checkpoint, refuses; opening the file may fail.                         *)
LoadSource ==
  /\ Quiet
  /\ state' = "error"
  /\ contributions' = Nothing
  /\ slots' = [slots EXCEPT !["contribution"] = {}]
  /\ complete' = FALSE
  /\ \/ UNCHANGED stableView
     \/ sources = Nothing /\ stableView' = TRUE
  /\ UNCHANGED <<scratch, sources, strings, graph, tx, load, file, clock, opened>>

Next ==
  \/ Initialize \/ Restart
  \/ \E incremental \in BOOLEAN : BeginBuild(incremental)
  \/ \E s \in Sources : ReplaceSource(s)
  \/ PrepareSource \/ PrepareString \/ PrepareGraph \/ PrepareRetention
  \/ PrepareContribution \/ PrepareFails \/ Fail
  \/ PublishSource \/ PublishString \/ PublishContribution \/ PublishGraph
  \/ CompleteBuild
  \/ SaveCompiled \/ BeginLoad \/ LoadFails \/ LoadStrings \/ LoadGraph
  \/ FinishLoad \/ LoadSource

Spec == Init /\ [][Next]_vars

-------------------------------------------------------------------------------
SlotsType == [Vectors -> SUBSET Sources]
LayersType == Content \X (SUBSET Pairs) \X Content \X Content \X SlotsType

TxType ==
  [step : Steps, incremental : BOOLEAN, live : BOOLEAN, delta : Content,
   grown : SUBSET Grown, undo : [Grown -> SUBSET Sources]]

(* The variables have their types; the state is building exactly while a   *)
(* build or a compiled load is under way (graph_manager.cpp:47, 104), so   *)
(* a reader is never let in before complete_build or the end of a load.    *)
TypeOK ==
  /\ state \in {"valid", "building", "error"}
  /\ layers \in LayersType
  /\ opened \in LayersType
  /\ scratch \in SUBSET Sources
  /\ stableView \in BOOLEAN
  /\ complete \in BOOLEAN
  /\ tx \in TxType
  /\ load \in {"none", "reading", "strings_in", "graph_in"}
  /\ tx.step = "none" \/ load = "none"
  /\ file \in [strings : SUBSET Pairs, graph : Content, slots : SlotsType,
              saved : BOOLEAN]
  /\ clock \in Revision
  /\ (state = "building") = ~Quiet

(* A reader that finds the state valid (graph_manager::runnable_graph)     *)
(* reaches one whole generation: every string the Graph needs is in the    *)
(* registry and every slot exists, whatever builds, failures and loads     *)
(* came before.                                                            *)
ValidIsWhole ==
  state = "valid" =>
    /\ StringsOf(graph) \subseteq strings
    /\ Needed(graph) \subseteq slots["graph"]

(* When provenance is complete and nothing is being published, the         *)
(* contribution cache describes exactly the committed Graph: that is what  *)
(* an incremental build subtracts from (graph_manager.cpp:54).             *)
ProvenanceExact ==
  complete /\ (Quiet \/ tx.step \in Preparing) => contributions = graph

(* No incremental build starts on a Graph whose contributions are unknown. *)
IncrementalHasProvenance ==
  tx.incremental /\ tx.step \in Preparing \cup {"prepared"}
    => complete /\ contributions = graph

(* The state is well formed, building exactly while a build or a load is   *)
(* under way, and provenance is what incremental builds take it for.       *)
ProvenanceSound == TypeOK /\ ProvenanceExact /\ IncrementalHasProvenance

(* A build that fails, at whatever stage, and a load that fails leave the  *)
(* four layers, the slots of their vectors included, as they were when     *)
(* it began (graph_build_transaction.hpp: all or nothing).                 *)
FailureLeavesNoTrace ==
  [][Fail \/ LoadFails => layers' = opened]_vars

(* What a committed build publishes is the same Source revisions in every  *)
(* layer, and nothing else has moved in an incremental one.                *)
CommitCoversAllLayers ==
  [][CompleteBuild =>
       /\ \A s \in Sources : tx.delta[s] # 0 =>
            sources[s] = clock /\ contributions[s] = clock /\ graph[s] = clock
       /\ contributions = graph
       /\ tx.incremental => graph = Merged(opened[4], tx.delta)
       /\ StringsOf(graph) \subseteq strings]_vars

(* All or nothing, over the four layers and the slots of their vectors: a  *)
(* build that ends has published one revision everywhere or nothing        *)
(* anywhere, whichever layer it stopped at.                                *)
AllOrNothing == FailureLeavesNoTrace /\ CommitCoversAllLayers

(* README.md: "Rollback of direct-index vector logical sizes on failed     *)
(* prepare".  candidate_identities keeps its size, and the next build that *)
(* is published hands it to the committed identity vector: a Project that  *)
(* is valid can then not be saved, because the writer's own verification   *)
(* refuses the artifact.                                                   *)
ValidCanBeSaved == state = "valid" => ArtifactAccepted

(* SERVER_ENTRY_ARCHITECTURE_V2.md: "Compiled or source-only checkpoint     *)
(* load invalidates contribution provenance.  The next Source build is     *)
(* therefore forced to the Rebuild/G0 path": that build can be prepared.    *)
NextBuildCanRebuild ==
  [][\A incremental \in BOOLEAN : BeginBuild(incremental) => tx'.live]_vars

-------------------------------------------------------------------------------
(* The readers' view: while the state is building nobody reads the layers, *)
(* so the published generation is still the one of the beginning.          *)
Project == INSTANCE PublishedProject WITH
  Generations <- Content,
  EmptyGeneration <- Nothing,
  published <- IF state = "building" THEN opened[4] ELSE graph

(* The four-layer transaction and the compiled load implement the          *)
(* Published Project: readers see generations change as a whole.           *)
PublishesAtomically == Project!Spec

===============================================================================
