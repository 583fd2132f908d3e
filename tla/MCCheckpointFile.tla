--------------------------- MODULE MCCheckpointFile ---------------------------
(* Savers and temporary names are interchangeable.                         *)
EXTENDS CheckpointFile, TLC

Symmetry == Permutations(Savers) \cup Permutations(Names)
===============================================================================
