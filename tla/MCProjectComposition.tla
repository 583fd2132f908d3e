------------------------ MODULE MCProjectComposition ------------------------
(* Bodies with at most one reference and one item.                         *)
EXTENDS ProjectComposition

MCReferences == {<<>>} \cup {<<p>> : p \in Projects} \cup {<<p, Source>> : p \in Projects}
=============================================================================
