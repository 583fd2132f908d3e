--------------------------- MODULE PublishedProject ---------------------------
(***************************************************************************)
(* What the Graph Manager promises to a reader of the Project              *)
(* (graph/graph_manager.hpp): a project_state, and a published generation  *)
(* that is replaced as a whole, only at the moment the state becomes       *)
(* valid.  A build or a load that fails leaves the published generation    *)
(* as it was and the state error; initialization alone never makes a       *)
(* Project runnable.                                                       *)
(***************************************************************************)
CONSTANTS
  Generations,     \* the canonical programs that can be published
  EmptyGeneration  \* the program of a Project just initialized

VARIABLES
  state,           \* project_state
  published        \* the generation a reader reaches once state is valid

vars == <<state, published>>

Init ==
  /\ state = "error"
  /\ published = EmptyGeneration

(* A build or a load begins: readers are turned away until it is over.     *)
Begin ==
  /\ state' = "building"
  /\ UNCHANGED published

(* It succeeds: one new generation, whole.                                 *)
Publish ==
  /\ state = "building"
  /\ state' = "valid"
  /\ published' \in Generations

(* It fails, or the Project is declared unusable.                          *)
Refuse ==
  /\ state' = "error"
  /\ UNCHANGED published

(* It is initialized, or its process started, again.                       *)
Reset ==
  /\ state' = "error"
  /\ published' = EmptyGeneration

Next == Begin \/ Publish \/ Refuse \/ Reset

Spec == Init /\ [][Next]_vars

===============================================================================
