--------------------------- MODULE MCProjectContext ---------------------------
(* One root in the directory of the configuration; a second Source, in     *)
(* that directory or in another, that the root includes from its second    *)
(* version on: it is discovered by an incremental build.                   *)
EXTENDS ProjectContext

CONSTANTS root, leaf, config, here, there

MCSources == {root, leaf}
MCRoots == {root}
MCDirs == {here, there}
MCDirOf == [f \in MCSources \cup {config} |-> IF f = leaf THEN there ELSE here]
MCIncludes ==
  [s \in MCSources |-> [v \in 1..MaxVersion |->
     IF s = root /\ v >= 2 THEN {leaf} ELSE {}]]
===============================================================================
