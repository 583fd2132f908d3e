-------------------------- MODULE MCGraphTransaction --------------------------
(* Two Sources, so that a build can leave one of them alone and a vector   *)
(* can be grown by a failed build; three builds, so that a rebuild, an     *)
(* incremental build and a failure follow one another around a load.       *)
EXTENDS GraphTransaction
===============================================================================
