----------------------- MODULE GraphTransactionProofs -----------------------
(***************************************************************************)
(* Proofs about GraphTransaction for any number of Sources and builds.     *)
(*                                                                         *)
(* The properties speak of the states in which nothing is under way; what  *)
(* makes them inductive is how far each layer is from the one it was when  *)
(* the build or the load began (`opened`).  Until the first layer is       *)
(* published all four are what they were, and what cancel() would restore  *)
(* is the slots there were.  While the layers are published one after the  *)
(* other, each is either still the old one or already Replaced, in the     *)
(* order of publish_prepared(), and the strings and slots the new Graph    *)
(* needs arrive before the Graph does.                                     *)
(***************************************************************************)
EXTENDS GraphTransaction, TLAPS

(* The Graph finds its strings and its slots.                              *)
Whole(content, strs, vectors) ==
  /\ StringsOf(content) \subseteq strs
  /\ Needed(content) \subseteq vectors["graph"]

(* No layer has been published yet, or none will be.                       *)
Before == Preparing \cup {"failing", "prepared"}

(* The candidates: a transaction that is over is empty, one that is under  *)
(* way replaces Sources by the revision of this build, and the scratch     *)
(* vector reaches what it replaces.                                        *)
CandidateInv ==
  /\ tx.step = "none" => tx = NoTransaction
  /\ Needed(tx.delta) \subseteq scratch
  /\ \A s \in Sources : tx.delta[s] \in {0, clock}
  /\ tx.step \in {"building", "source", "string"} => tx.grown = {}
  /\ tx.step \in {"graph", "retention"} => "contribution" \notin tx.grown
  /\ tx.incremental /\ tx.step \in {"graph", "retention"} \cup Publishing =>
       scratch \subseteq slots["graph"]

(* What a build started from, and its provenance.                          *)
BasisInv ==
  tx.step # "none" =>
    /\ Whole(opened[4], opened[2], opened[5])
    /\ opened[5]["graph"] \subseteq slots["graph"]
    /\ tx.incremental => opened[3] = opened[4]

(* Nothing is published while the candidates are prepared, and cancel()    *)
(* finds the old slots.                                                    *)
PreparingInv ==
  tx.step \in Before =>
    /\ sources = opened[1] /\ strings = opened[2]
    /\ contributions = opened[3] /\ graph = opened[4]
    /\ RolledBack = opened[5]
    /\ complete => opened[3] = opened[4]
    /\ tx.incremental => complete

(* How far publish_prepared() has come.                                    *)
SourcesOut ==
  \A s \in Sources : tx.delta[s] # 0 => sources[s] = tx.delta[s]
StringsOut == StringsOf(Replaced(opened[4])) \subseteq strings

PublishingInv ==
  /\ tx.step = "sources_out" =>
       /\ SourcesOut /\ strings = opened[2]
       /\ contributions = opened[3] /\ graph = opened[4]
  /\ tx.step = "strings_out" =>
       /\ SourcesOut /\ StringsOut
       /\ contributions = opened[3] /\ graph = opened[4]
  /\ tx.step = "contributions_out" =>
       /\ SourcesOut /\ StringsOut
       /\ contributions = Replaced(opened[3]) /\ graph = opened[4]
  /\ tx.step = "graph_out" =>
       /\ SourcesOut /\ StringsOut
       /\ contributions = Replaced(opened[3]) /\ graph = Replaced(opened[4])
       /\ Needed(graph) \subseteq slots["graph"]

(* How far a compiled load has come.                                       *)
LoadInv ==
  /\ load = "reading" =>
       /\ layers = opened
       /\ Whole(graph, strings, slots)
       /\ complete => contributions = graph
  /\ load = "strings_in" => StringsOf(file.graph) \subseteq strings
  /\ load = "graph_in" => Whole(graph, strings, slots)

(* Nothing is under way: the layers fit each other, whatever the state.    *)
QuietInv ==
  Quiet => /\ Whole(graph, strings, slots)
           /\ complete => contributions = graph

FileInv == Whole(file.graph, file.strings, file.slots)

IndInv ==
  /\ TypeOK
  /\ CandidateInv
  /\ BasisInv
  /\ PreparingInv
  /\ PublishingInv
  /\ LoadInv
  /\ QuietInv
  /\ FileInv

-----------------------------------------------------------------------------
(* The empty program needs no strings and no slots.                        *)
LEMMA NothingNeeded ==
  /\ Nothing \in Content
  /\ StringsOf(Nothing) = {}
  /\ Needed(Nothing) = {}
BY GraphTransactionAssumption
   DEF Nothing, Content, Revision, StringsOf, Needed, Pairs, Sources

(* What a program needs is within the pairs and slots there are.           *)
LEMMA NeedsTyped ==
  ASSUME NEW c \in Content
  PROVE  StringsOf(c) \in SUBSET Pairs /\ Needed(c) \in SUBSET Sources
BY DEF StringsOf, Needed

(* A merge of two programs is one, and needs no more than both of them.    *)
LEMMA MergedNeeds ==
  ASSUME NEW c \in Content, NEW d \in Content
  PROVE  /\ Merged(c, d) \in Content
         /\ StringsOf(Merged(c, d)) \subseteq StringsOf(c) \cup StringsOf(d)
         /\ Needed(Merged(c, d)) \subseteq Needed(c) \cup Needed(d)
<1>1. Merged(c, d) \in Content
  BY DEF Merged, Content
<1>2. ASSUME NEW s \in Sources PROVE Merged(c, d)[s] \in {c[s], d[s]}
  BY DEF Merged
<1>3. StringsOf(Merged(c, d)) \subseteq StringsOf(c) \cup StringsOf(d)
  BY <1>2 DEF StringsOf, Pairs
<1>4. Needed(Merged(c, d)) \subseteq Needed(c) \cup Needed(d)
  BY <1>2 DEF Needed
<1>5. QED
  BY <1>1, <1>3, <1>4

(* The layers, now and when the work under way began, taken apart.         *)
LEMMA LayersTyped ==
  ASSUME TypeOK
  PROVE  /\ sources \in Content /\ strings \in SUBSET Pairs
         /\ contributions \in Content /\ graph \in Content
         /\ slots \in SlotsType
         /\ opened = <<opened[1], opened[2], opened[3], opened[4], opened[5]>>
         /\ opened[1] \in Content /\ opened[2] \in SUBSET Pairs
         /\ opened[3] \in Content /\ opened[4] \in Content
         /\ opened[5] \in SlotsType
BY DEF TypeOK, LayersType, layers

(* What a build publishes is a program.                                    *)
LEMMA ReplacedTyped ==
  ASSUME TypeOK, NEW c \in Content
  PROVE  Replaced(c) \in Content
BY MergedNeeds DEF TypeOK, TxType, Replaced

(* Five well-typed layers are well typed.                                  *)
LEMMA LayersMade ==
  ASSUME NEW a \in Content, NEW b \in SUBSET Pairs, NEW c \in Content,
         NEW d \in Content, NEW e \in SlotsType
  PROVE  <<a, b, c, d, e>> \in LayersType
BY DEF LayersType

(* The empty transaction, vectors and file have their types.               *)
LEMMA EmptyTyped ==
  /\ NoTransaction \in TxType
  /\ NoTransaction.step = "none"
  /\ NoTransaction.delta = Nothing
  /\ ~NoTransaction.incremental
  /\ NoSlots \in SlotsType
  /\ NoFile \in [strings : SUBSET Pairs, graph : Content, slots : SlotsType,
                  saved : BOOLEAN]
<1>1. NoTransaction \in TxType
  BY NothingNeeded DEF NoTransaction, TxType, Steps, Grown
<1>2. NoSlots \in SlotsType
  BY DEF NoSlots, SlotsType
<1>3. QED
  BY <1>1, <1>2, NothingNeeded DEF NoTransaction, NoFile

-----------------------------------------------------------------------------
(* The initial state satisfies the invariant.                              *)
LEMMA InitIndInv == Init => IndInv
<1> SUFFICES ASSUME Init PROVE IndInv
  OBVIOUS
<1> USE NothingNeeded DEF Init
<1>1. TypeOK
  <2>1. layers \in LayersType /\ opened \in LayersType
    BY LayersMade, EmptyTyped DEF layers
  <2>2. Quiet /\ state # "building"
    BY EmptyTyped DEF Quiet
  <2>3. clock \in Revision
    BY GraphTransactionAssumption DEF Revision
  <2>4. QED
    BY <2>1, <2>2, <2>3, EmptyTyped DEF TypeOK
<1>2. CandidateInv /\ BasisInv /\ PreparingInv /\ PublishingInv
  BY DEF CandidateInv, BasisInv, PreparingInv, PublishingInv, NoTransaction,
         Before, Preparing, Publishing, Nothing
<1>3. LoadInv /\ QuietInv /\ FileInv
  BY DEF LoadInv, QuietInv, FileInv, Whole, NoFile
<1>4. QED
  BY <1>1, <1>2, <1>3 DEF IndInv
(* Steps of a transaction keep its type and change what they name.         *)
LEMMA AdvanceTx ==
  ASSUME tx \in TxType, NEW from, NEW to \in Steps, Advance(from, to)
  PROVE  /\ tx' \in TxType
         /\ tx.step = from /\ tx'.step = to
         /\ tx'.incremental = tx.incremental /\ tx'.live = tx.live
         /\ tx'.delta = tx.delta
         /\ tx'.grown = tx.grown /\ tx'.undo = tx.undo
BY DEF Advance, TxType

(* A candidate is prepared that no committed vector is lengthened for: the *)
(* Source update, the String update and the retention of a rebuild.        *)
LEMMA PrepareStep ==
  ASSUME IndInv, PrepareSource \/ PrepareString \/ PrepareRetention
  PROVE  IndInv'
<1> USE LayersTyped DEF IndInv
<1>1. PICK from \in {"building", "source", "graph"}, to \in {"source", "string", "retention"} :
        /\ Advance(from, to)
        /\ <<from, to>> \in {<<"building", "source">>, <<"source", "string">>, <<"graph", "retention">>}
  BY DEF PrepareSource, PrepareString, PrepareRetention
<1>2. UNCHANGED <<scratch, state, sources, strings, contributions, graph, slots,
                  stableView, complete, load, file, clock, opened>>
  BY DEF PrepareSource, PrepareString, PrepareRetention, layers
<1>3. /\ tx' \in TxType /\ tx.step = from /\ tx'.step = to
      /\ tx'.incremental = tx.incremental /\ tx'.delta = tx.delta
      /\ tx'.grown = tx.grown /\ tx'.undo = tx.undo
  BY <1>1, AdvanceTx DEF TypeOK, Steps, Preparing
<1>4. TypeOK'
  BY <1>1, <1>2, <1>3 DEF TypeOK, Quiet, layers
<1>5. CandidateInv' /\ BasisInv'
  BY <1>1, <1>2, <1>3 DEF CandidateInv, BasisInv, Publishing
<1>6. PreparingInv' /\ PublishingInv'
  BY <1>1, <1>2, <1>3 DEF PreparingInv, PublishingInv, Before, Preparing, RolledBack
<1>7. LoadInv' /\ QuietInv' /\ FileInv'
  BY <1>1, <1>2, <1>3 DEF LoadInv, QuietInv, FileInv, Quiet, layers
<1>8. QED
  BY <1>4, <1>5, <1>6, <1>7
(* A growing vector keeps its slots, and what cancel() would restore stays *)
(* what it was, because the old length is noted the first time.            *)
LEMMA GrowSlots ==
  ASSUME TypeOK, NEW l \in Grown, NEW step \in Steps, Grow(l, step),
         l \notin tx.grown
  PROVE  /\ tx' \in TxType /\ tx'.step = step
         /\ tx'.incremental = tx.incremental /\ tx'.live = tx.live
         /\ tx'.delta = tx.delta /\ tx'.grown = tx.grown \cup {l}
         /\ slots' \in SlotsType
         /\ slots[l] \subseteq slots'[l]
         /\ step # "failing" => slots'[l] = Target(l)
         /\ \A k \in Vectors : k # l => slots'[k] = slots[k]
         /\ RolledBack' = RolledBack
<1> USE LayersTyped
<1>1. tx \in TxType /\ slots \in SlotsType /\ l \in Vectors
  BY DEF TypeOK, Vectors
<1>2. Target(l) \in SUBSET Sources /\ slots[l] \in SUBSET Sources
      /\ slots[l] \subseteq Target(l)
  BY <1>1, NeedsTyped DEF Target, TypeOK, TxType, SlotsType
<1>3. PICK reached \in {slots[l], Target(l)} :
        /\ step # "failing" => reached = Target(l)
        /\ slots' = [slots EXCEPT ![l] = reached]
        /\ tx' = [tx EXCEPT !.step = step, !.grown = @ \cup {l},
                            !.undo[l] = slots[l]]
  BY DEF Grow
<1>4. /\ tx' \in TxType /\ tx'.step = step
      /\ tx'.incremental = tx.incremental /\ tx'.live = tx.live
      /\ tx'.delta = tx.delta /\ tx'.grown = tx.grown \cup {l}
      /\ tx'.undo = [tx.undo EXCEPT ![l] = slots[l]]
  BY <1>1, <1>2, <1>3 DEF TxType
<1>5. /\ slots' \in SlotsType
      /\ slots'[l] = reached
      /\ \A k \in Vectors : k # l => slots'[k] = slots[k]
  BY <1>1, <1>2, <1>3 DEF SlotsType
<1>6. RolledBack' = RolledBack
  <2>1. ASSUME NEW k \in Vectors
        PROVE  (IF k \in tx'.grown THEN tx'.undo[k] ELSE slots'[k])
               = (IF k \in tx.grown THEN tx.undo[k] ELSE slots[k])
    BY <1>1, <1>4, <1>5 DEF TxType
  <2>2. QED
    BY <2>1 DEF RolledBack
<1>7. QED
  BY <1>2, <1>3, <1>4, <1>5, <1>6

(* A committed vector grows for the candidate, with or without an error.   *)
LEMMA GrowStep ==
  ASSUME IndInv, NEW l \in Grown, NEW step \in Steps, Grow(l, step),
         \/ /\ tx.step = "string" /\ l = "graph" /\ tx.incremental
            /\ step \in {"graph", "failing"}
         \/ /\ tx.step = "retention" /\ l = "contribution"
            /\ step \in {"prepared", "failing"},
         UNCHANGED <<scratch, state, sources, strings, contributions, graph,
                     stableView, complete, load, file, clock, opened>>
  PROVE  IndInv'
<1> USE DEF IndInv
<1>1. l \notin tx.grown
  BY DEF CandidateInv
<1>2. /\ tx' \in TxType /\ tx'.step = step
      /\ tx'.incremental = tx.incremental
      /\ tx'.delta = tx.delta /\ tx'.grown = tx.grown \cup {l}
      /\ slots' \in SlotsType
      /\ slots[l] \subseteq slots'[l]
      /\ step # "failing" => slots'[l] = Target(l)
      /\ \A k \in Vectors : k # l => slots'[k] = slots[k]
      /\ RolledBack' = RolledBack
  BY <1>1, GrowSlots
<1>3. slots["graph"] \subseteq slots'["graph"]
  BY <1>2 DEF Vectors, Grown
<1>4. TypeOK'
  <2>1. layers' \in LayersType
    BY <1>2, LayersTyped, LayersMade DEF layers
  <2>2. QED
    BY <1>2, <2>1 DEF TypeOK, Quiet
<1>5. CandidateInv'
  <2>1. step = "graph" => scratch \subseteq slots'["graph"]
    BY <1>2 DEF Target
  <2>2. QED
    BY <1>2, <1>3, <2>1 DEF CandidateInv, Publishing, Grown
<1>6. BasisInv'
  BY <1>2, <1>3 DEF BasisInv
<1>7. PreparingInv' /\ PublishingInv'
  BY <1>2 DEF PreparingInv, PublishingInv, Before, Preparing
<1>8. LoadInv' /\ QuietInv' /\ FileInv'
  BY <1>2 DEF LoadInv, QuietInv, FileInv, Quiet, TypeOK
<1>9. QED
  BY <1>4, <1>5, <1>6, <1>7, <1>8

(* graph_update::prepare_publish.                                          *)
LEMMA PrepareGraphStep ==
  ASSUME IndInv, PrepareGraph
  PROVE  IndInv'
<1>1. CASE tx.incremental
  BY <1>1, GrowStep DEF PrepareGraph, Grown, Steps, Preparing
<1>2. CASE ~tx.incremental
  <2> USE DEF IndInv
  <2>1. /\ Advance("string", "graph") /\ "graph" \in Steps
        /\ UNCHANGED <<scratch, state, sources, strings, contributions, graph, slots,
                       stableView, complete, load, file, clock, opened>>
    BY <1>2 DEF PrepareGraph, Steps, Preparing
  <2>2. /\ tx' \in TxType /\ tx.step = "string" /\ tx'.step = "graph"
        /\ ~tx'.incremental /\ tx'.delta = tx.delta
        /\ tx'.grown = tx.grown /\ tx'.undo = tx.undo
    BY <1>2, <2>1, AdvanceTx DEF TypeOK
  <2>3. TypeOK'
    BY <2>1, <2>2 DEF TypeOK, Quiet, layers
  <2>4. CandidateInv' /\ BasisInv'
    BY <2>1, <2>2 DEF CandidateInv, BasisInv, Publishing
  <2>5. PreparingInv' /\ PublishingInv'
    BY <2>1, <2>2 DEF PreparingInv, PublishingInv, Before, Preparing, RolledBack
  <2>6. LoadInv' /\ QuietInv' /\ FileInv'
    BY <2>1, <2>2 DEF LoadInv, QuietInv, FileInv, Quiet, TypeOK
  <2>7. QED
    BY <2>3, <2>4, <2>5, <2>6
<1>3. QED
  BY <1>1, <1>2 DEF IndInv, TypeOK, TxType

(* The contribution cache is lengthened last.                              *)
LEMMA PrepareContributionStep ==
  ASSUME IndInv, PrepareContribution
  PROVE  IndInv'
BY GrowStep DEF PrepareContribution, Grown, Steps, Publishing

(* A preparation fails before, while or after it lengthens a vector.       *)
LEMMA PrepareFailsStep ==
  ASSUME IndInv, PrepareFails
  PROVE  IndInv'
<1>1. CASE /\ tx.step \in Preparing
           /\ tx' = [tx EXCEPT !.step = "failing"]
           /\ UNCHANGED slots
  <2> USE DEF IndInv
  <2>1. UNCHANGED <<scratch, state, sources, strings, contributions, graph, slots,
                    stableView, complete, load, file, clock, opened>>
    BY <1>1 DEF PrepareFails
  <2>2. /\ tx' \in TxType /\ tx'.step = "failing"
        /\ tx'.incremental = tx.incremental /\ tx'.delta = tx.delta
        /\ tx'.grown = tx.grown /\ tx'.undo = tx.undo
    BY <1>1 DEF TypeOK, TxType, Steps
  <2>3. TypeOK'
    BY <1>1, <2>1, <2>2 DEF TypeOK, Quiet, layers, Preparing
  <2>4. CandidateInv' /\ BasisInv'
    BY <1>1, <2>1, <2>2 DEF CandidateInv, BasisInv, Publishing, Preparing
  <2>5. PreparingInv' /\ PublishingInv'
    BY <1>1, <2>1, <2>2 DEF PreparingInv, PublishingInv, Before, Preparing, RolledBack
  <2>6. LoadInv' /\ QuietInv' /\ FileInv'
    BY <1>1, <2>1, <2>2 DEF LoadInv, QuietInv, FileInv, Quiet, TypeOK, Preparing
  <2>7. QED
    BY <2>3, <2>4, <2>5, <2>6
<1>2. CASE tx.step = "string" /\ tx.incremental /\ Grow("graph", "failing")
  BY <1>2, GrowStep DEF PrepareFails, Grown, Steps
<1>3. CASE tx.step = "retention" /\ Grow("contribution", "failing")
  BY <1>3, GrowStep DEF PrepareFails, Grown, Steps
<1>4. QED
  BY <1>1, <1>2, <1>3 DEF PrepareFails
(* fail() restores the slots of the beginning.                             *)
LEMMA FailRestores ==
  ASSUME IndInv, Fail
  PROVE  layers' = opened
<1>1. tx.step \in Before
  BY DEF Fail, Before, Preparing
<1>2. /\ sources = opened[1] /\ strings = opened[2]
      /\ contributions = opened[3] /\ graph = opened[4]
      /\ RolledBack = opened[5]
  BY <1>1 DEF IndInv, PreparingInv
<1>3. layers' = <<opened[1], opened[2], opened[3], opened[4], opened[5]>>
  BY <1>2 DEF Fail, layers
<1>4. QED
  BY <1>3, LayersTyped DEF IndInv

(* A step that leaves no build and no load under way.                      *)
LEMMA QuietIndInv ==
  ASSUME TypeOK', Quiet', CandidateInv', QuietInv', FileInv'
  PROVE  IndInv'
<1>1. BasisInv' /\ PreparingInv' /\ PublishingInv'
  BY DEF Quiet, BasisInv, PreparingInv, PublishingInv, Before, Preparing
<1>2. LoadInv'
  BY DEF Quiet, LoadInv
<1>3. QED
  BY <1>1, <1>2 DEF IndInv

(* fail() leaves no build and the layers of the beginning.                 *)
LEMMA FailStep ==
  ASSUME IndInv, Fail
  PROVE  IndInv'
<1> USE DEF IndInv
<1>1. layers' = opened /\ tx.step \in Before /\ tx.step # "none"
  BY FailRestores DEF Fail, Before, Preparing
<1>2. tx' = NoTransaction /\ load = "none" /\ load' = "none" /\ state' = "error"
      /\ UNCHANGED <<scratch, stableView, complete, file, clock, opened>>
  BY <1>1 DEF Fail, TypeOK
<1>3. Quiet'
  BY <1>2, EmptyTyped DEF Quiet
<1>4. TypeOK'
  BY <1>1, <1>2, <1>3, EmptyTyped DEF TypeOK
<1>5. CandidateInv'
  BY <1>2, EmptyTyped, NothingNeeded DEF CandidateInv, Publishing, Nothing
<1>6. QuietInv'
  <2>1. /\ strings' = opened[2] /\ contributions' = opened[3]
        /\ graph' = opened[4] /\ slots' = opened[5]
    BY <1>1 DEF layers
  <2>2. Whole(graph, strings, slots)'
    BY <1>1, <2>1 DEF BasisInv, Whole, StringsOf, Needed
  <2>3. QED
    BY <1>1, <1>2, <2>1, <2>2 DEF PreparingInv, QuietInv
<1>7. FileInv'
  BY <1>2 DEF FileInv
<1>8. QED
  BY <1>3, <1>4, <1>5, <1>6, <1>7, QuietIndInv

(* A step that empties everything in memory.                               *)
LEMMA EmptiedIndInv ==
  ASSUME TypeOK', Quiet', FileInv', tx' = NoTransaction,
         graph' = Nothing, contributions' = Nothing
  PROVE  IndInv'
<1>1. CandidateInv'
  BY EmptyTyped, NothingNeeded DEF CandidateInv, Publishing, Nothing
<1>2. QuietInv'
  BY NothingNeeded DEF QuietInv, Whole
<1>3. QED
  BY <1>1, <1>2, QuietIndInv

(* graph_manager::initialize.                                              *)
LEMMA InitializeStep ==
  ASSUME IndInv, Initialize
  PROVE  IndInv'
<1> USE DEF IndInv
<1>1. Quiet' /\ tx' = NoTransaction
  BY DEF Initialize, Quiet, CandidateInv
<1>2. TypeOK'
  <2>1. layers' \in LayersType
    BY EmptyTyped, NothingNeeded, LayersTyped, LayersMade DEF layers, Initialize
  <2>2. QED
    BY <1>1, <2>1 DEF TypeOK, Initialize
<1>3. FileInv'
  BY DEF FileInv, Initialize
<1>4. graph' = Nothing /\ contributions' = Nothing
  BY DEF Initialize
<1>5. QED
  BY <1>1, <1>2, <1>3, <1>4, EmptiedIndInv

(* The process is started again.                                           *)
LEMMA RestartStep ==
  ASSUME IndInv, Restart
  PROVE  IndInv'
<1> USE DEF IndInv
<1>1. Quiet' /\ tx' = NoTransaction
  BY EmptyTyped DEF Restart, Quiet
<1>2. TypeOK'
  <2>1. layers' \in LayersType
    BY EmptyTyped, NothingNeeded, LayersMade DEF layers, Restart
  <2>2. QED
    BY <1>1, <2>1, EmptyTyped DEF TypeOK, Restart
<1>3. FileInv'
  BY DEF FileInv, Restart
<1>4. graph' = Nothing /\ contributions' = Nothing
  BY DEF Restart
<1>5. QED
  BY <1>1, <1>2, <1>3, <1>4, EmptiedIndInv

(* A build begins: the layers are remembered, the candidates are empty and *)
(* incremental only if the contributions describe the Graph.               *)
LEMMA BeginBuildStep ==
  ASSUME IndInv, NEW incremental \in BOOLEAN, BeginBuild(incremental)
  PROVE  IndInv'
<1> USE DEF IndInv
<1>1. UNCHANGED <<sources, strings, contributions, graph, slots, scratch, stableView,
                  complete, load, file>>
  BY DEF BeginBuild, layers
<1>2. /\ tx' \in TxType /\ tx'.step = "building" /\ tx'.delta = Nothing
      /\ tx'.incremental => complete
      /\ tx'.grown = {}
  <2>1. EffectiveIncremental(incremental) \in BOOLEAN
        /\ (EffectiveIncremental(incremental) => complete) /\ (~stableView) \in BOOLEAN
    BY DEF EffectiveIncremental
  <2>2. QED
    BY <2>1, EmptyTyped DEF BeginBuild, NoTransaction, TxType, Steps, Preparing
<1>3. /\ opened' = <<sources, strings, contributions, graph, slots>>
      /\ Quiet /\ clock' = clock + 1 /\ clock < MaxRevision /\ state' = "building"
  BY DEF BeginBuild, layers
<1>4. TypeOK'
  <2>1. clock' \in Revision
    BY <1>3, GraphTransactionAssumption DEF TypeOK, Revision
  <2>2. layers' \in LayersType /\ opened' \in LayersType
    BY <1>1, <1>3 DEF TypeOK, layers
  <2>3. ~Quiet' /\ load' = "none"
    BY <1>1, <1>2, <1>3 DEF Quiet
  <2>4. QED
    BY <1>1, <1>2, <1>3, <2>1, <2>2, <2>3 DEF TypeOK
<1>5. Whole(graph, strings, slots) /\ (complete => contributions = graph)
  BY <1>3 DEF QuietInv
<1>6. CandidateInv'
  <2>1. \A s \in Sources : tx'.delta[s] = 0
    BY <1>2 DEF Nothing
  <2>2. QED
    BY <1>2, <2>1, NothingNeeded DEF CandidateInv, Publishing
<1>7. BasisInv'
  BY <1>1, <1>2, <1>3, <1>5 DEF BasisInv
<1>8. PreparingInv' /\ PublishingInv'
  <2>1. RolledBack' = slots
    <3>1. slots = [l \in Vectors |-> slots[l]]
      BY LayersTyped DEF SlotsType
    <3>2. QED
      BY <1>1, <1>2, <3>1 DEF RolledBack
  <2>2. QED
    BY <1>1, <1>2, <1>3, <1>5, <2>1 DEF PreparingInv, PublishingInv, Before, Preparing
<1>9. LoadInv' /\ QuietInv' /\ FileInv'
  BY <1>1, <1>2, <1>3 DEF LoadInv, QuietInv, FileInv, Quiet
<1>10. QED
  BY <1>4, <1>6, <1>7, <1>8, <1>9

(* One Source enters the candidates.                                       *)
LEMMA ReplaceSourceStep ==
  ASSUME IndInv, NEW s \in Sources, ReplaceSource(s)
  PROVE  IndInv'
<1> USE DEF IndInv
<1>1. UNCHANGED <<state, sources, strings, contributions, graph, slots, stableView,
                  complete, load, file, clock, opened>>
  BY DEF ReplaceSource, layers
<1>2. /\ tx' \in TxType /\ tx.step = "building" /\ tx'.step = "building"
      /\ tx'.delta = [tx.delta EXCEPT ![s] = clock]
      /\ tx'.incremental = tx.incremental
      /\ tx'.grown = tx.grown /\ tx'.undo = tx.undo
  BY DEF ReplaceSource, TypeOK, TxType, Content
<1>3. scratch' = scratch \cup (1..s) /\ 1..s \subseteq Sources
  BY GraphTransactionAssumption DEF ReplaceSource, Sources
<1>4. TypeOK'
  BY <1>1, <1>2, <1>3 DEF TypeOK, Quiet, layers
<1>5. CandidateInv'
  <2>1. tx.delta \in Content
    BY DEF TypeOK, TxType
  <2>2. \A t \in Sources : tx'.delta[t] \in {0, clock}
    BY <1>2, <2>1 DEF CandidateInv, Content
  <2>3. Needed(tx'.delta) \subseteq Needed(tx.delta) \cup (1..s)
    BY <1>2, <2>1 DEF Needed, Content, Sources
  <2>4. QED
    BY <1>1, <1>2, <1>3, <2>2, <2>3 DEF CandidateInv, Publishing, Needed
<1>6. BasisInv' /\ PreparingInv' /\ PublishingInv'
  BY <1>1, <1>2 DEF BasisInv, PreparingInv, PublishingInv, Before, Preparing, RolledBack
<1>7. LoadInv' /\ QuietInv' /\ FileInv'
  BY <1>1, <1>2 DEF LoadInv, QuietInv, FileInv, Quiet, TypeOK
<1>8. QED
  BY <1>4, <1>5, <1>6, <1>7

(* publish_prepared(): the Source Manager first.                           *)
LEMMA PublishSourceStep ==
  ASSUME IndInv, PublishSource
  PROVE  IndInv'
<1> USE DEF IndInv
<1>1. /\ Advance("prepared", "sources_out") /\ "sources_out" \in Steps
  BY DEF PublishSource, Steps, Publishing
<1>2. /\ tx' \in TxType /\ tx.step = "prepared" /\ tx'.step = "sources_out"
      /\ tx'.incremental = tx.incremental /\ tx'.delta = tx.delta
      /\ tx'.grown = tx.grown /\ tx'.undo = tx.undo
  BY <1>1, AdvanceTx DEF TypeOK
<1>3. UNCHANGED <<scratch, state, strings, contributions, graph, slots, stableView,
                  complete, load, file, clock, opened>>
  BY DEF PublishSource
<1>4. sources' = Merged(sources, tx.delta) /\ sources' \in Content
  BY LayersTyped, MergedNeeds DEF PublishSource, TypeOK, TxType
<1>5. TypeOK'
  <2>1. layers' \in LayersType
    BY <1>3, <1>4, LayersTyped, LayersMade DEF layers
  <2>2. QED
    BY <1>2, <1>3, <1>4, <2>1 DEF TypeOK, Quiet
<1>6. CandidateInv' /\ BasisInv'
  BY <1>2, <1>3, <1>4 DEF CandidateInv, BasisInv, Publishing
<1>7. PreparingInv' /\ PublishingInv'
  <2>1. SourcesOut'
    BY <1>2, <1>4 DEF SourcesOut, Merged
  <2>2. QED
    BY <1>2, <1>3, <2>1 DEF PreparingInv, PublishingInv, Before, Preparing
<1>8. LoadInv' /\ QuietInv' /\ FileInv'
  BY <1>2, <1>3, <1>4 DEF LoadInv, QuietInv, FileInv, Quiet, TypeOK
<1>9. QED
  BY <1>5, <1>6, <1>7, <1>8

(* The strings: at least those of the Graph that will be published.        *)
LEMMA PublishStringStep ==
  ASSUME IndInv, PublishString
  PROVE  IndInv'
<1> USE DEF IndInv
<1>1. /\ Advance("sources_out", "strings_out") /\ "strings_out" \in Steps
  BY DEF PublishString, Steps, Publishing
<1>2. /\ tx' \in TxType /\ tx.step = "sources_out" /\ tx'.step = "strings_out"
      /\ tx'.incremental = tx.incremental /\ tx'.delta = tx.delta
      /\ tx'.grown = tx.grown /\ tx'.undo = tx.undo
  BY <1>1, AdvanceTx DEF TypeOK
<1>3. UNCHANGED <<scratch, state, sources, contributions, graph, stableView,
                  complete, load, file, clock, opened>>
  BY DEF PublishString
<1>4. /\ strings' \in SUBSET Pairs /\ slots' \in SlotsType
      /\ StringsOf(tx.delta) \subseteq strings'
      /\ tx.incremental => strings \subseteq strings'
      /\ slots'["graph"] = slots["graph"]
  <2>1. tx.delta \in Content /\ strings \in SUBSET Pairs /\ slots \in SlotsType
    BY LayersTyped DEF TypeOK, TxType
  <2>2. /\ strings' \in SUBSET Pairs
        /\ StringsOf(tx.delta) \subseteq strings'
        /\ tx.incremental => strings \subseteq strings'
    BY <2>1, NeedsTyped DEF PublishString
  <2>3. slots' \in SlotsType /\ slots'["graph"] = slots["graph"]
    BY <2>1, NeedsTyped DEF PublishString, SlotsType, Vectors, Grown
  <2>4. QED
    BY <2>2, <2>3
<1>5. TypeOK'
  <2>1. layers' \in LayersType
    BY <1>3, <1>4, LayersTyped, LayersMade DEF layers
  <2>2. QED
    BY <1>2, <1>3, <1>4, <2>1 DEF TypeOK, Quiet
<1>6. CandidateInv' /\ BasisInv'
  BY <1>2, <1>3, <1>4 DEF CandidateInv, BasisInv, Publishing
<1>7. PreparingInv' /\ PublishingInv'
  <2>1. SourcesOut'
    BY <1>2, <1>3 DEF SourcesOut, PublishingInv
  <2>2. StringsOut'
    <3>1. StringsOf(opened[4]) \subseteq opened[2] /\ strings = opened[2]
      BY <1>2 DEF BasisInv, Whole, PublishingInv
    <3>2. StringsOf(Replaced(opened[4])) \subseteq strings'
      BY <1>4, <3>1, LayersTyped, MergedNeeds DEF Replaced, TypeOK, TxType
    <3>3. QED
      BY <1>2, <1>3, <3>2 DEF StringsOut, Replaced, StringsOf
  <2>3. QED
    BY <1>2, <1>3, <2>1, <2>2 DEF PreparingInv, PublishingInv, Before, Preparing
<1>8. LoadInv' /\ QuietInv' /\ FileInv'
  BY <1>2, <1>3, <1>4 DEF LoadInv, QuietInv, FileInv, Quiet, TypeOK
<1>9. QED
  BY <1>5, <1>6, <1>7, <1>8

(* The contributions: those of the candidate.                              *)
LEMMA PublishContributionStep ==
  ASSUME IndInv, PublishContribution
  PROVE  IndInv'
<1> USE DEF IndInv
<1>1. /\ Advance("strings_out", "contributions_out") /\ "contributions_out" \in Steps
  BY DEF PublishContribution, Steps, Publishing
<1>2. /\ tx' \in TxType /\ tx.step = "strings_out" /\ tx'.step = "contributions_out"
      /\ tx'.incremental = tx.incremental /\ tx'.delta = tx.delta
      /\ tx'.grown = tx.grown /\ tx'.undo = tx.undo
  BY <1>1, AdvanceTx DEF TypeOK
<1>3. UNCHANGED <<scratch, state, sources, strings, graph, slots, stableView, load,
                  file, clock, opened>>
  BY DEF PublishContribution
<1>4. contributions' = Replaced(contributions) /\ contributions' \in Content
      /\ complete' = TRUE
  BY LayersTyped, ReplacedTyped DEF PublishContribution
<1>5. TypeOK'
  <2>1. layers' \in LayersType
    BY <1>3, <1>4, LayersTyped, LayersMade DEF layers
  <2>2. QED
    BY <1>2, <1>3, <1>4, <2>1 DEF TypeOK, Quiet
<1>6. CandidateInv' /\ BasisInv'
  BY <1>2, <1>3, <1>4 DEF CandidateInv, BasisInv, Publishing
<1>7. PreparingInv' /\ PublishingInv'
  <2>1. SourcesOut' /\ StringsOut'
    BY <1>2, <1>3 DEF SourcesOut, StringsOut, PublishingInv, Replaced
  <2>2. contributions' = Replaced(opened[3])'
    BY <1>2, <1>3, <1>4 DEF PublishingInv, Replaced
  <2>3. QED
    BY <1>2, <1>3, <2>1, <2>2 DEF PreparingInv, PublishingInv, Before, Preparing
<1>8. LoadInv' /\ QuietInv' /\ FileInv'
  BY <1>2, <1>3, <1>4 DEF LoadInv, QuietInv, FileInv, Quiet, TypeOK
<1>9. QED
  BY <1>5, <1>6, <1>7, <1>8

(* The Graph last: its strings and its slots are there.                    *)
LEMMA PublishGraphStep ==
  ASSUME IndInv, PublishGraph
  PROVE  IndInv'
<1> USE DEF IndInv
<1>1. /\ Advance("contributions_out", "graph_out") /\ "graph_out" \in Steps
  BY DEF PublishGraph, Steps, Publishing
<1>2. /\ tx' \in TxType /\ tx.step = "contributions_out" /\ tx'.step = "graph_out"
      /\ tx'.incremental = tx.incremental /\ tx'.delta = tx.delta
      /\ tx'.grown = tx.grown /\ tx'.undo = tx.undo
  BY <1>1, AdvanceTx DEF TypeOK
<1>3. UNCHANGED <<scratch, state, sources, strings, contributions, stableView, complete,
                  load, file, clock, opened>>
  BY DEF PublishGraph
<1>4. /\ graph' = Replaced(graph) /\ graph' \in Content
      /\ slots' \in SlotsType /\ scratch \subseteq slots'["graph"]
      /\ slots["graph"] \subseteq slots'["graph"]
  <2>1. graph' = Replaced(graph) /\ graph' \in Content
    BY LayersTyped, ReplacedTyped DEF PublishGraph
  <2>2. CASE tx.incremental
    BY <1>2, <2>1, <2>2, LayersTyped DEF PublishGraph, CandidateInv, Publishing
  <2>3. CASE ~tx.incremental
    BY <2>1, <2>3, LayersTyped DEF PublishGraph, SlotsType, Vectors, Grown, TypeOK
  <2>4. QED
    BY <2>2, <2>3 DEF TypeOK, TxType
<1>5. TypeOK'
  <2>1. layers' \in LayersType
    BY <1>3, <1>4, LayersTyped, LayersMade DEF layers
  <2>2. QED
    BY <1>2, <1>3, <1>4, <2>1 DEF TypeOK, Quiet
<1>6. CandidateInv' /\ BasisInv'
  BY <1>2, <1>3, <1>4 DEF CandidateInv, BasisInv, Publishing
<1>7. PreparingInv' /\ PublishingInv'
  <2>1. SourcesOut' /\ StringsOut'
    BY <1>2, <1>3 DEF SourcesOut, StringsOut, PublishingInv, Replaced
  <2>2. graph' = Replaced(opened[4])' /\ contributions' = Replaced(opened[3])'
    BY <1>2, <1>3, <1>4 DEF PublishingInv, Replaced
  <2>3. Needed(graph') \subseteq slots'["graph"]
    <3>1. graph = opened[4] /\ Needed(opened[4]) \subseteq opened[5]["graph"]
          /\ opened[5]["graph"] \subseteq slots["graph"] /\ Needed(tx.delta) \subseteq scratch
      BY <1>2 DEF PublishingInv, BasisInv, Whole, CandidateInv
    <3>2. Needed(Replaced(graph)) \subseteq Needed(graph) \cup Needed(tx.delta)
      BY LayersTyped, MergedNeeds DEF Replaced, TypeOK, TxType
    <3>3. QED
      BY <1>4, <3>1, <3>2
  <2>4. QED
    BY <1>2, <1>3, <2>1, <2>2, <2>3 DEF PreparingInv, PublishingInv, Before, Preparing, Needed
<1>8. LoadInv' /\ QuietInv' /\ FileInv'
  BY <1>2, <1>3, <1>4 DEF LoadInv, QuietInv, FileInv, Quiet, TypeOK
<1>9. QED
  BY <1>5, <1>6, <1>7, <1>8

(* complete_build: the four layers are all replaced.                       *)
LEMMA CompleteBuildStep ==
  ASSUME IndInv, CompleteBuild
  PROVE  IndInv'
<1> USE DEF IndInv
<1>1. /\ tx' = NoTransaction /\ tx.step = "graph_out" /\ state' = "valid"
      /\ UNCHANGED <<scratch, sources, strings, contributions, graph, slots,
                     stableView, complete, load, file, clock, opened>>
  BY DEF CompleteBuild, layers
<1>2. Quiet'
  BY <1>1, EmptyTyped DEF Quiet, TypeOK
<1>3. TypeOK'
  BY <1>1, <1>2, EmptyTyped DEF TypeOK, layers
<1>4. CandidateInv'
  BY <1>1, EmptyTyped, NothingNeeded DEF CandidateInv, Publishing, Nothing
<1>5. contributions = graph
  BY <1>1 DEF PublishingInv, BasisInv, Replaced
<1>6. Whole(graph, strings, slots)
  BY <1>1 DEF PublishingInv, StringsOut, Whole
<1>7. QuietInv' /\ FileInv'
  BY <1>1, <1>5, <1>6 DEF QuietInv, FileInv
<1>8. QED
  BY <1>2, <1>3, <1>4, <1>7, QuietIndInv

(* A checkpoint is written from layers that fit each other.                *)
LEMMA SaveCompiledStep ==
  ASSUME IndInv, SaveCompiled
  PROVE  IndInv'
<1> USE DEF IndInv
<1>1. /\ Quiet /\ file' = [strings |-> strings, graph |-> graph, slots |-> slots,
                           saved |-> TRUE]
      /\ UNCHANGED <<scratch, state, sources, strings, contributions, graph, slots,
                     stableView, complete, tx, load, clock, opened>>
  BY DEF SaveCompiled, layers
<1>2. TypeOK' /\ Quiet'
  BY <1>1, LayersTyped DEF TypeOK, layers, Quiet
<1>3. CandidateInv' /\ QuietInv'
  BY <1>1 DEF CandidateInv, QuietInv, Quiet
<1>4. FileInv'
  BY <1>1 DEF FileInv, QuietInv, Whole
<1>5. QED
  BY <1>2, <1>3, <1>4, QuietIndInv

(* A step of a compiled load: no transaction is involved.                  *)
LEMMA LoadIndInv ==
  ASSUME TypeOK', tx' = NoTransaction, load' # "none", LoadInv', FileInv'
  PROVE  IndInv'
<1>1. CandidateInv'
  BY EmptyTyped, NothingNeeded DEF CandidateInv, Publishing, Nothing
<1>2. BasisInv' /\ PreparingInv' /\ PublishingInv' /\ QuietInv'
  BY EmptyTyped
     DEF BasisInv, PreparingInv, PublishingInv, QuietInv, Quiet, Before, Preparing
<1>3. QED
  BY <1>1, <1>2 DEF IndInv

(* While a load is under way there is no transaction.                      *)
LEMMA NoTransactionInLoad ==
  ASSUME IndInv, load # "none" \/ Quiet
  PROVE  tx = NoTransaction /\ tx.step = "none"
BY DEF IndInv, TypeOK, CandidateInv, Quiet

(* A compiled load begins: the layers are remembered.                      *)
LEMMA BeginLoadStep ==
  ASSUME IndInv, BeginLoad
  PROVE  IndInv'
<1> USE DEF IndInv
<1>1. /\ Quiet /\ state' = "building" /\ load' = "reading" /\ opened' = layers
      /\ UNCHANGED <<scratch, sources, strings, contributions, graph, slots,
                     stableView, complete, tx, file, clock>>
  BY DEF BeginLoad, layers
<1>2. tx' = NoTransaction /\ tx'.step = "none" /\ ~Quiet'
  BY <1>1, NoTransactionInLoad DEF Quiet
<1>3. TypeOK'
  BY <1>1, <1>2 DEF TypeOK, layers
<1>4. LoadInv' /\ FileInv'
  BY <1>1 DEF LoadInv, QuietInv, FileInv, layers
<1>5. QED
  BY <1>1, <1>2, <1>3, <1>4, LoadIndInv

(* The file is refused: nothing has been touched.                          *)
LEMMA LoadFailsStep ==
  ASSUME IndInv, LoadFails
  PROVE  IndInv'
<1> USE DEF IndInv
<1>1. /\ load = "reading" /\ state' = "error" /\ load' = "none"
      /\ UNCHANGED <<scratch, sources, strings, contributions, graph, slots,
                     stableView, complete, tx, file, clock, opened>>
  BY DEF LoadFails, layers
<1>2. tx' = NoTransaction /\ tx'.step = "none" /\ Quiet'
  BY <1>1, NoTransactionInLoad DEF Quiet
<1>3. TypeOK'
  BY <1>1, <1>2 DEF TypeOK, layers
<1>4. CandidateInv' /\ QuietInv' /\ FileInv'
  BY <1>1 DEF CandidateInv, LoadInv, QuietInv, FileInv
<1>5. QED
  BY <1>2, <1>3, <1>4, QuietIndInv

(* The strings of the file arrive first, ...                               *)
LEMMA LoadStringsStep ==
  ASSUME IndInv, LoadStrings
  PROVE  IndInv'
<1> USE DEF IndInv
<1>1. /\ load = "reading" /\ load' = "strings_in" /\ strings' = file.strings
      /\ UNCHANGED <<scratch, state, sources, contributions, graph, stableView,
                     complete, tx, file, clock, opened>>
  BY DEF LoadStrings
<1>2. tx' = NoTransaction /\ tx'.step = "none" /\ ~Quiet' /\ ~Quiet
  BY <1>1, NoTransactionInLoad DEF Quiet
<1>3. TypeOK'
  <2>1. strings' \in SUBSET Pairs /\ slots' \in SlotsType
    BY <1>1, LayersTyped DEF LoadStrings, TypeOK, SlotsType, Vectors
  <2>2. layers' \in LayersType
    BY <1>1, <2>1, LayersTyped, LayersMade DEF layers
  <2>3. QED
    BY <1>1, <1>2, <2>2 DEF TypeOK
<1>4. LoadInv' /\ FileInv'
  BY <1>1 DEF LoadInv, FileInv, Whole
<1>5. QED
  BY <1>1, <1>2, <1>3, <1>4, LoadIndInv

(* ... then its Graph and the slots of it.                                 *)
LEMMA LoadGraphStep ==
  ASSUME IndInv, LoadGraph
  PROVE  IndInv'
<1> USE DEF IndInv
<1>1. /\ load = "strings_in" /\ load' = "graph_in" /\ graph' = file.graph
      /\ scratch' = {}
      /\ UNCHANGED <<state, sources, strings, contributions, stableView, complete,
                     tx, file, clock, opened>>
  BY DEF LoadGraph
<1>2. tx' = NoTransaction /\ tx'.step = "none" /\ ~Quiet' /\ ~Quiet
  BY <1>1, NoTransactionInLoad DEF Quiet
<1>3. graph' \in Content /\ slots' \in SlotsType
      /\ slots'["graph"] = file.slots["graph"]
  BY <1>1, LayersTyped DEF LoadGraph, TypeOK, SlotsType, Vectors, Grown
<1>4. TypeOK'
  <2>1. layers' \in LayersType
    BY <1>1, <1>3, LayersTyped, LayersMade DEF layers
  <2>2. QED
    BY <1>1, <1>2, <2>1 DEF TypeOK
<1>5. LoadInv' /\ FileInv'
  BY <1>1, <1>3 DEF LoadInv, FileInv, Whole
<1>6. QED
  BY <1>1, <1>2, <1>4, <1>5, LoadIndInv

(* The end of a load: the contributions of the old Graph are dropped.      *)
LEMMA FinishLoadStep ==
  ASSUME IndInv, FinishLoad
  PROVE  IndInv'
<1> USE DEF IndInv
<1>1. /\ load = "graph_in" /\ load' = "none" /\ state' = "valid"
      /\ contributions' = Nothing /\ complete' = FALSE
      /\ slots' = [slots EXCEPT !["contribution"] = {}]
      /\ UNCHANGED <<scratch, sources, strings, graph, stableView, tx, file, clock,
                     opened>>
  BY DEF FinishLoad
<1>2. tx' = NoTransaction /\ tx'.step = "none" /\ Quiet'
  BY <1>1, NoTransactionInLoad DEF Quiet
<1>3. slots' \in SlotsType /\ slots'["graph"] = slots["graph"]
  BY <1>1, LayersTyped DEF SlotsType, Vectors, Grown
<1>4. TypeOK'
  <2>1. layers' \in LayersType
    BY <1>1, <1>3, NothingNeeded, LayersTyped, LayersMade DEF layers
  <2>2. QED
    BY <1>1, <1>2, <2>1 DEF TypeOK
<1>5. CandidateInv'
  BY <1>2, EmptyTyped, NothingNeeded DEF CandidateInv, Publishing, Nothing
<1>6. QuietInv' /\ FileInv'
  BY <1>1, <1>3 DEF LoadInv, QuietInv, FileInv, Whole
<1>7. QED
  BY <1>2, <1>4, <1>5, <1>6, QuietIndInv

(* A source checkpoint brings no Graph and takes the provenance away.      *)
LEMMA LoadSourceStep ==
  ASSUME IndInv, LoadSource
  PROVE  IndInv'
<1> USE DEF IndInv
<1>1. /\ Quiet /\ state' = "error"
      /\ contributions' = Nothing /\ complete' = FALSE
      /\ slots' = [slots EXCEPT !["contribution"] = {}]
      /\ stableView' \in BOOLEAN
      /\ UNCHANGED <<scratch, sources, strings, graph, tx, load, file, clock, opened>>
  BY DEF LoadSource, TypeOK
<1>2. tx' = NoTransaction /\ tx'.step = "none" /\ Quiet'
  BY <1>1, NoTransactionInLoad DEF Quiet
<1>3. slots' \in SlotsType /\ slots'["graph"] = slots["graph"]
  BY <1>1, LayersTyped DEF SlotsType, Vectors, Grown
<1>4. TypeOK'
  <2>1. layers' \in LayersType
    BY <1>1, <1>3, NothingNeeded, LayersTyped, LayersMade DEF layers
  <2>2. QED
    BY <1>1, <1>2, <2>1 DEF TypeOK
<1>5. CandidateInv'
  BY <1>2, EmptyTyped, NothingNeeded DEF CandidateInv, Publishing, Nothing
<1>6. QuietInv' /\ FileInv'
  BY <1>1, <1>3 DEF QuietInv, FileInv, Whole
<1>7. QED
  BY <1>2, <1>4, <1>5, <1>6, QuietIndInv

-----------------------------------------------------------------------------
(* Every step keeps the invariant.                                         *)
LEMMA NextIndInv ==
  ASSUME IndInv, [Next]_vars
  PROVE  IndInv'
<1>1. CASE UNCHANGED vars
  BY <1>1
     DEF vars, layers, IndInv, TypeOK, CandidateInv, BasisInv, PreparingInv, RolledBack,
         PublishingInv, SourcesOut, StringsOut, Replaced, LoadInv, QuietInv, FileInv, Quiet
<1>2. ASSUME NEW incremental \in BOOLEAN, BeginBuild(incremental) PROVE IndInv'
  BY <1>2, BeginBuildStep
<1>3. ASSUME NEW s \in Sources, ReplaceSource(s) PROVE IndInv'
  BY <1>3, ReplaceSourceStep
<1>4. QED
  BY <1>1, <1>2, <1>3, InitializeStep, RestartStep, PrepareStep, PrepareGraphStep,
     PrepareContributionStep, PrepareFailsStep, FailStep, PublishSourceStep,
     PublishStringStep, PublishContributionStep, PublishGraphStep, CompleteBuildStep,
     SaveCompiledStep, BeginLoadStep, LoadFailsStep, LoadStringsStep, LoadGraphStep,
     FinishLoadStep, LoadSourceStep
     DEF Next

(* The invariant holds in every reachable state.                           *)
LEMMA Inductive == Spec => []IndInv
<1>1. IndInv /\ [Next]_vars => IndInv'
  BY NextIndInv
<1>2. QED
  BY InitIndInv, <1>1, PTL DEF Spec

-----------------------------------------------------------------------------
(* Whatever builds, failures, loads and restarts came before: the state is *)
(* building exactly while a build or a load is under way, complete         *)
(* provenance describes the committed Graph, and an incremental build      *)
(* starts on such a Graph only (graph_manager.cpp, begin_build and         *)
(* load_compiled_checkpoint).                                              *)
THEOREM ProvenanceAlwaysSound == Spec => []ProvenanceSound
<1>1. IndInv => ProvenanceSound
  <2> SUFFICES ASSUME IndInv PROVE ProvenanceSound
    OBVIOUS
  <2> USE DEF IndInv
  <2>1. ProvenanceExact
    BY DEF ProvenanceExact, QuietInv, PreparingInv, Before
  <2>2. IncrementalHasProvenance
    BY DEF IncrementalHasProvenance, PreparingInv, Before, Preparing
  <2>3. QED
    BY <2>1, <2>2 DEF ProvenanceSound
<1>2. QED
  BY Inductive, <1>1, PTL

(* A reader that finds the state valid reaches a Graph with all its        *)
(* strings and slots (graph_manager::runnable_graph).                      *)
THEOREM ValidAlwaysWhole == Spec => []ValidIsWhole
<1>1. IndInv => ValidIsWhole
  BY DEF IndInv, TypeOK, ValidIsWhole, QuietInv, Whole
<1>2. QED
  BY Inductive, <1>1, PTL

(* A build or a load that fails leaves all layers and the slots of their   *)
(* vectors as they were when it began; one that completes has published    *)
(* one revision in every layer (graph_build_transaction.cpp, fail() and    *)
(* publish_prepared()).                                                    *)
THEOREM BuildIsAllOrNothing == Spec => AllOrNothing
<1>1. IndInv /\ [Next]_vars => [Fail \/ LoadFails => layers' = opened]_vars
  <2>1. ASSUME IndInv, LoadFails PROVE layers' = opened
    BY <2>1 DEF IndInv, LoadInv, LoadFails, layers
  <2>2. QED
    BY <2>1, FailRestores
<1>2. ASSUME IndInv, CompleteBuild
      PROVE  /\ \A s \in Sources : tx.delta[s] # 0 =>
                  sources[s] = clock /\ contributions[s] = clock /\ graph[s] = clock
             /\ contributions = graph
             /\ tx.incremental => graph = Merged(opened[4], tx.delta)
             /\ StringsOf(graph) \subseteq strings
  <2>1. /\ SourcesOut /\ StringsOut
        /\ contributions = Replaced(opened[3]) /\ graph = Replaced(opened[4])
    BY <1>2 DEF IndInv, PublishingInv, CompleteBuild
  <2>2. ASSUME NEW s \in Sources, tx.delta[s] # 0
        PROVE  /\ tx.delta[s] = clock
               /\ Replaced(opened[3])[s] = clock /\ Replaced(opened[4])[s] = clock
    BY <1>2, <2>2 DEF IndInv, CandidateInv, Replaced, Merged
  <2>3. contributions = graph
    BY <1>2, <2>1 DEF IndInv, BasisInv, CompleteBuild, Replaced
  <2>4. QED
    BY <2>1, <2>2, <2>3 DEF SourcesOut, StringsOut, Replaced
<1>3. IndInv /\ [Next]_vars =>
        [CompleteBuild =>
           /\ \A s \in Sources : tx.delta[s] # 0 =>
                sources[s] = clock /\ contributions[s] = clock /\ graph[s] = clock
           /\ contributions = graph
           /\ tx.incremental => graph = Merged(opened[4], tx.delta)
           /\ StringsOf(graph) \subseteq strings]_vars
  BY <1>2
<1>4. QED
  BY Inductive, <1>1, <1>3, PTL
     DEF Spec, AllOrNothing, FailureLeavesNoTrace, CommitCoversAllLayers

(* The transaction over four layers and the compiled load implement the    *)
(* Published Project: every step is one of its steps or is not seen by a   *)
(* reader, for whom the generation of the beginning stays published while  *)
(* the state is building.                                                  *)
THEOREM PublicationIsAtomic == Spec => PublishesAtomically
<1> DEFINE published == IF state = "building" THEN opened[4] ELSE graph
<1>1. Init => Project!Init
  BY DEF Init, Project!Init
<1>2. IndInv /\ [Next]_vars => [Project!Next]_(Project!vars)
  <2> SUFFICES ASSUME IndInv, [Next]_vars
               PROVE  \/ Project!Begin \/ Project!Publish \/ Project!Refuse
                      \/ Project!Reset
                      \/ state' = state /\ published' = published
    BY DEF Project!Next, Project!vars
  <2> USE DEF Project!Begin, Project!Publish, Project!Refuse, Project!Reset
  <2>1. (state = "building") <=> ~Quiet
    BY DEF IndInv, TypeOK
  <2>2. CASE Initialize \/ Restart
    BY <2>2 DEF Initialize, Restart
  <2>3. CASE \E incremental \in BOOLEAN : BeginBuild(incremental)
    BY <2>1, <2>3 DEF BeginBuild, layers
  <2>4. CASE BeginLoad
    BY <2>1, <2>4 DEF BeginLoad, layers
  <2>5. CASE Fail \/ LoadFails
    <3>1. layers' = opened
      BY <2>5, FailRestores DEF IndInv, LoadInv, LoadFails, layers
    <3>2. graph' = opened[4]
      BY <3>1 DEF layers
    <3>3. state = "building" /\ state' = "error"
      BY <2>1, <2>5 DEF Quiet, Fail, LoadFails
    <3>4. QED
      BY <3>2, <3>3
  <2>6. CASE CompleteBuild \/ FinishLoad
    <3>1. state = "building" /\ state' = "valid" /\ graph' = graph
      BY <2>1, <2>6 DEF Quiet, CompleteBuild, FinishLoad, layers
    <3>2. graph \in Content
      BY LayersTyped DEF IndInv
    <3>3. QED
      BY <3>1, <3>2
  <2>7. CASE LoadSource
    BY <2>1, <2>7 DEF LoadSource
  <2>8. CASE SaveCompiled \/ UNCHANGED vars
    BY <2>8 DEF SaveCompiled, vars, layers
  <2>9. CASE \/ \E s \in Sources : ReplaceSource(s)
             \/ PrepareSource \/ PrepareString \/ PrepareGraph \/ PrepareRetention
             \/ PrepareContribution \/ PrepareFails
             \/ PublishSource \/ PublishString \/ PublishContribution \/ PublishGraph
             \/ LoadStrings \/ LoadGraph
    <3>1. ~Quiet
      BY <2>9
         DEF Quiet, ReplaceSource, PrepareSource, PrepareString, PrepareGraph,
             PrepareRetention, PrepareContribution, PrepareFails, PublishSource,
             PublishString, PublishContribution, PublishGraph, LoadStrings, LoadGraph,
             Advance, Preparing
    <3>2. state' = state /\ opened' = opened
      BY <2>9
         DEF ReplaceSource, PrepareSource, PrepareString, PrepareGraph,
             PrepareRetention, PrepareContribution, PrepareFails, PublishSource,
             PublishString, PublishContribution, PublishGraph, LoadStrings, LoadGraph
    <3>3. QED
      BY <2>1, <3>1, <3>2
  <2>10. QED
    BY <2>2, <2>3, <2>4, <2>5, <2>6, <2>7, <2>8, <2>9 DEF Next
<1>3. QED
  BY Inductive, <1>1, <1>2, PTL DEF Spec, PublishesAtomically, Project!Spec
=============================================================================
