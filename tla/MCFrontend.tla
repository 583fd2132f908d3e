----------------------------- MODULE MCFrontend -----------------------------
(* Full builds of three Sources with every choice of roots and includes,   *)
(* with and without faulty files, on two threads; and the incremental      *)
(* builds after those with one root.                                       *)
EXTENDS Frontend
=============================================================================
