------------------------------ MODULE Frontend ------------------------------
(***************************************************************************)
(* The two frontends after one another, as project_context runs them: a    *)
(* full build (SourceFrontend) whose committed generation is what the      *)
(* incremental builds (IncrementalFrontend) start from.  populate_cache    *)
(* hands the interfaces over and rebuild returns, which ends the life of   *)
(* everything the full build kept for itself.                              *)
(***************************************************************************)
EXTENDS SourceFrontend

CONSTANTS
  Roots,          \* bound: incremental builds are followed for these roots
  MayRecreate, EditedIncludes,
  MaxEdits, MaxGeneration   \* as in IncrementalFrontend

ASSUME FrontendAssumption ==
  /\ Roots \subseteq Sources
  /\ MayRecreate \in BOOLEAN
  /\ EditedIncludes \subseteq SUBSET Sources
  /\ MaxEdits \in Nat
  /\ MaxGeneration \in Nat \ {0}

VARIABLES disk, edits, committed, incremental, build

Inc == INSTANCE IncrementalFrontend WITH phase <- incremental

incrementalVars == <<disk, edits, committed, incremental, build>>
allVars == <<vars, incrementalVars>>

FrontendInit ==
  /\ Init
  /\ disk = [s \in Sources |-> Inc!Absent]
  /\ edits = 0
  /\ committed = [generation |-> 0, known |-> {}, physical |-> disk,
                  includes |-> [s \in Sources |-> {}], graph |-> disk,
                  cache |-> [s \in Sources |-> Inc!NoInterface]]
  /\ incremental = "off"
  /\ build = Inc!NoBuild

(* populate_cache: the interface of every Source of the build, with        *)
(* pointers to the interfaces of what it includes.                         *)
PopulateCache ==
  [s \in Sources |->
     IF state[s].published
     THEN [generation |-> 1, imports |-> state[s].dependencies \X {1}]
     ELSE Inc!NoInterface]

(* The build is committed, the cache handed over, and the generation and   *)
(* all it kept are destroyed.  A Source it never reached may not even      *)
(* exist.                                                                  *)
Release ==
  LET known == {s \in Sources : state[s].published}
      file(s) == Inc!File(0, includes[s])
      read == [s \in Sources |-> IF s \in known THEN file(s) ELSE Inc!Absent]
  IN
  /\ phase = "committed"
  /\ roots = Roots
  /\ phase' = "released"
  /\ \E missing \in SUBSET (Sources \ known) :
       disk' = [s \in Sources |-> IF s \in missing THEN Inc!Absent ELSE file(s)]
  /\ committed' =
       [generation |-> 1, known |-> known, physical |-> read, graph |-> read,
        includes |-> [s \in Sources |-> state[s].dependencies],
        cache |-> PopulateCache]
  /\ incremental' = "idle"
  /\ includes' = [s \in Sources |-> {}]
  /\ faulty' = FALSE
  /\ slots' = <<>>
  /\ independent' = FALSE
  /\ state' = [s \in Sources |-> InitialState]
  /\ worker' = [w \in Workers |-> Off]
  /\ UNCHANGED <<roots, wave, discovery_queue, semantic_queue,
                 semantic_remaining, failed, edits, build>>

FrontendNext ==
  \/ Next /\ UNCHANGED incrementalVars
  \/ Release
  \/ incremental # "off" /\ Inc!Next /\ UNCHANGED vars

FrontendSpec == FrontendInit /\ [][FrontendNext]_allVars /\ Fairness

-----------------------------------------------------------------------------
(* The three things the incremental builds keep (IncrementalFrontend), from *)
(* the full build on: interfaces that point to current interfaces, ...      *)
ImportsCurrent == Inc!ImportsCurrent

(* ... a Graph that holds the facts of the bytes on record, ...            *)
GraphMatchesBytes == Inc!GraphMatchesBytes

(* ... and nobody left waiting when a parse ends.                          *)
NobodyLeftWaiting == Inc!NobodyLeftWaiting

(* No Source stays in the Graph that nothing includes any more.            *)
GraphIsTheUniverse == Inc!GraphIsTheUniverse
=============================================================================
