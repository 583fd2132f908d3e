--------------------------- MODULE MCSourceManager ---------------------------
(* Three Sources that may include each other, also in cycles; two Sources  *)
(* of which one is edited while two acquisitions read them; and one that   *)
(* is edited twice.  What a Source includes and what its bytes are do not  *)
(* depend on each other, so each instance varies one of them.              *)
EXTENDS SourceCheckpoint

CONSTANTS p1, p2, p3

MCInstances ==
  {[paths |-> {p1, p2, p3}, contents |-> {1}, writes |-> 0, jobs |-> 1,
    includes |-> {{}, {1}, {2, 3}}],
   [paths |-> {p1, p2}, contents |-> {1, 2}, writes |-> 1, jobs |-> 2,
    includes |-> {{}}],
   [paths |-> {p1}, contents |-> {1, 2}, writes |-> 2, jobs |-> 2,
    includes |-> {{}}]}

(* The bytes of p1 begin those of p2.  p1 and p3 have the same hash, at    *)
(* the end of the index; p2 belongs where p3 is displaced to.              *)
MCEncoded == (p1 :> <<1>>) @@ (p2 :> <<1, 2>>) @@ (p3 :> <<2>>)

MCPathHash(bytes) ==
  IF Len(bytes) = 1 THEN [bucket |-> 7, fingerprint |-> 1]
  ELSE [bucket |-> 8, fingerprint |-> 2]
=============================================================================
