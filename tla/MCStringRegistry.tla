-------------------------- MODULE MCStringRegistry --------------------------
(* Model-checking instance of StringRegistry.                              *)
EXTENDS StringRegistry, TLC

CONSTANTS u1, u2, a, b

MCUpdates == {u1, u2}
MCStrings == {a, b}

Symmetry == Permutations(MCUpdates) \cup Permutations(MCStrings)
=============================================================================
