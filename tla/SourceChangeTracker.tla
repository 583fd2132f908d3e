-------------------------- MODULE SourceChangeTracker --------------------------
(***************************************************************************)
(* The Source Change Tracker (source/source_change_tracker.{hpp,cpp}): a   *)
(* worker thread that turns Windows directory notifications into a set of  *)
(* dirty Sources, and the calls the Project thread makes on it.            *)
(*                                                                         *)
(* A file's content is abstracted to a version number.  The operating      *)
(* system (external) keeps the notifications of a directory from the       *)
(* moment its handle is first armed until the handle is closed, hands all  *)
(* of them to the armed request at once, and may drop them and report an   *)
(* overflow instead.                                                       *)
(***************************************************************************)
EXTENDS Naturals, FiniteSets

CONSTANTS
  Sources,        \* Source files of the Project
  Config,         \* the Project configuration file
  Dirs,           \* directories
  DirOf,          \* file -> its directory
  MaxVersion,     \* bound: versions of a Source file
  MaxConfigVersion, \* bound: versions of the configuration file
  MayOverflow,    \* whether a notification buffer can overflow
  MayFailToArm,   \* whether ReadDirectoryChangesW can refuse to be re-armed
  MayFail         \* whether an allocation, a build or a new watch can fail

Files == Sources \cup {Config}

ASSUME TrackerAssumption ==
  /\ Config \notin Sources
  /\ DirOf \in [Files -> Dirs]
  /\ MaxVersion \in Nat \ {0}
  /\ MaxConfigVersion \in 1..MaxVersion
  /\ MayOverflow \in BOOLEAN
  /\ MayFailToArm \in BOOLEAN
  /\ MayFail \in BOOLEAN

VARIABLES
  disk,           \* file -> version of its content
  running,
  tracked,        \* source_by_path: the Sources the tracker knows
  watch,          \* directory_watch: closed, armed, busy (completed), dead
  queue,          \* notifications the system holds for a directory
  overflowed,     \* the system dropped notifications of a directory
  buffer,         \* entries of the completed request not yet consumed
  pending,        \* pending_sources
  rescan,         \* rescan_required
  projectChanged, \* project_changed
  gap             \* history: Sources whose last edit produced no notification
                  \* for the tracker and that were not read since

trackerVars == <<running, tracked, watch, queue, overflowed, buffer, pending,
                 rescan, projectChanged>>

TrackerInit ==
  /\ disk = [f \in Files |-> 1]
  /\ running = FALSE
  /\ tracked = {}
  /\ watch = [d \in Dirs |-> "closed"]
  /\ queue = [d \in Dirs |-> {}]
  /\ overflowed = [d \in Dirs |-> FALSE]
  /\ buffer = [d \in Dirs |-> {}]
  /\ pending = {}
  /\ rescan = FALSE
  /\ projectChanged = FALSE
  /\ gap = {}

(* The tracker will be told of an edit of s.                               *)
Covered(s) == s \in tracked /\ watch[DirOf[s]] # "closed"

-------------------------------------------------------------------------------
(* The environment: someone writes a file.                                 *)
Edit(f) ==
  LET d == DirOf[f] IN
  /\ disk[f] < IF f = Config THEN MaxConfigVersion ELSE MaxVersion
  /\ disk' = [disk EXCEPT ![f] = @ + 1]
  /\ IF watch[d] = "closed"
     THEN UNCHANGED <<queue, overflowed>>
     ELSE \/ /\ queue' = [queue EXCEPT ![d] = @ \cup {f}]
             /\ UNCHANGED overflowed
          \/ /\ MayOverflow
             /\ queue' = [queue EXCEPT ![d] = {}]
             /\ overflowed' = [overflowed EXCEPT ![d] = TRUE]
  /\ gap' = IF f \in Sources /\ ~Covered(f) THEN gap \cup {f} ELSE gap
  /\ UNCHANGED <<running, tracked, watch, buffer, pending, rescan,
                 projectChanged>>

(* Mutant: a completion without bytes is passed over.                      *)
Complete_OverflowIgnored(d) ==
  /\ watch[d] = "armed"
  /\ queue[d] # {} \/ overflowed[d]
  /\ watch' = [watch EXCEPT ![d] = "busy"]
  /\ buffer' = [buffer EXCEPT ![d] = IF overflowed[d] THEN {} ELSE queue[d]]
  /\ queue' = [queue EXCEPT ![d] = {}]
  /\ overflowed' = [overflowed EXCEPT ![d] = FALSE]
  /\ UNCHANGED <<disk, running, tracked, pending, rescan, projectChanged, gap>>

(* GetQueuedCompletionStatus returns the request of d.  An overflow is a   *)
(* completion without bytes: the worker asks for a rescan.                 *)
Complete(d) ==
  /\ watch[d] = "armed"
  /\ queue[d] # {} \/ overflowed[d]
  /\ watch' = [watch EXCEPT ![d] = "busy"]
  /\ buffer' = [buffer EXCEPT ![d] = IF overflowed[d] THEN {} ELSE queue[d]]
  /\ rescan' = (rescan \/ overflowed[d])
  /\ queue' = [queue EXCEPT ![d] = {}]
  /\ overflowed' = [overflowed EXCEPT ![d] = FALSE]
  /\ UNCHANGED <<disk, running, tracked, pending, projectChanged, gap>>

(* consume(): one entry under the mutex.  A file the tracker does not know *)
(* is passed over.                                                         *)
Consume(d, f) ==
  /\ f \in buffer[d]
  /\ buffer' = [buffer EXCEPT ![d] = @ \ {f}]
  /\ projectChanged' = (projectChanged \/ f = Config)
  /\ pending' = pending \cup ({f} \cap tracked)
  /\ UNCHANGED <<disk, running, tracked, watch, queue, overflowed, rescan, gap>>

(* consume() when an allocation fails: the rest of the buffer is given up  *)
(* for a rescan.                                                           *)
Abandon(d) ==
  /\ MayFail
  /\ buffer[d] # {}
  /\ buffer' = [buffer EXCEPT ![d] = {}]
  /\ rescan' = TRUE
  /\ UNCHANGED <<disk, running, tracked, watch, queue, overflowed, pending,
                 projectChanged, gap>>

(* arm() after the last entry.  When it fails a rescan is asked for, and   *)
(* the directory is not watched any more.                                  *)
Arm(d) ==
  /\ watch[d] = "busy"
  /\ buffer[d] = {}
  /\ \/ /\ watch' = [watch EXCEPT ![d] = "armed"]
        /\ UNCHANGED rescan
     \/ /\ MayFailToArm
        /\ watch' = [watch EXCEPT ![d] = "dead"]
        /\ rescan' = TRUE
  /\ UNCHANGED <<disk, running, tracked, queue, overflowed, buffer, pending,
                 projectChanged, gap>>

-------------------------------------------------------------------------------
(* The calls of the Project thread, as parts of its actions.               *)

(* stop(): the worker is joined and everything forgotten.                  *)
Stop ==
  /\ running' = FALSE
  /\ tracked' = {}
  /\ watch' = [d \in Dirs |-> "closed"]
  /\ queue' = [d \in Dirs |-> {}]
  /\ overflowed' = [d \in Dirs |-> FALSE]
  /\ buffer' = [d \in Dirs |-> {}]
  /\ pending' = {}
  /\ rescan' = FALSE
  /\ projectChanged' = FALSE

(* initialize(): stop(), then every Source is registered and every         *)
(* directory watched before the worker starts.                             *)
Initialize(sources) ==
  /\ running' = TRUE
  /\ tracked' = sources
  /\ watch' = [d \in Dirs |->
                 IF \E f \in sources \cup {Config} : DirOf[f] = d
                 THEN "armed" ELSE "closed"]
  /\ queue' = [d \in Dirs |-> {}]
  /\ overflowed' = [d \in Dirs |-> FALSE]
  /\ buffer' = [d \in Dirs |-> {}]
  /\ pending' = {}
  /\ rescan' = FALSE
  /\ projectChanged' = FALSE

(* synchronize(): the new Sources are registered and their directories     *)
(* watched; watches that exist stay.                                       *)
Synchronize(sources) ==
  /\ tracked' = tracked \cup sources
  /\ watch' = [d \in Dirs |->
                 IF watch[d] = "closed" /\ \E s \in sources : DirOf[s] = d
                 THEN "armed" ELSE watch[d]]
  /\ UNCHANGED <<running, queue, overflowed, buffer, pending, rescan,
                 projectChanged>>

(* drain(): the pending Sources are handed over and both flags cleared.    *)
Drain ==
  /\ pending' = {}
  /\ rescan' = FALSE
  /\ projectChanged' = FALSE
  /\ UNCHANGED <<running, tracked, watch, queue, overflowed, buffer>>

TrackerTypeOK ==
  /\ disk \in [Files -> 1..MaxVersion]
  /\ running \in BOOLEAN
  /\ tracked \subseteq Sources
  /\ watch \in [Dirs -> {"closed", "armed", "busy", "dead"}]
  /\ queue \in [Dirs -> SUBSET Files]
  /\ overflowed \in [Dirs -> BOOLEAN]
  /\ buffer \in [Dirs -> SUBSET Files]
  /\ pending \subseteq tracked
  /\ rescan \in BOOLEAN
  /\ projectChanged \in BOOLEAN
  /\ gap \subseteq Sources

===============================================================================
