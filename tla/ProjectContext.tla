---------------------------- MODULE ProjectContext ----------------------------
(***************************************************************************)
(* The Project Context (project/project_context.cpp) over the Source       *)
(* Change Tracker: loading a Project, rebuilding it from the changes the   *)
(* tracker reports, and the flags that decide between doing nothing, an    *)
(* incremental build and a reconciliation of every Source.                 *)
(*                                                                         *)
(* The build itself is abstracted: the Sources are read one by one while   *)
(* others may write them, then all that was read is committed or the build *)
(* fails as a whole (module GraphTransaction).  What a Source includes     *)
(* depends on its content.                                                 *)
(***************************************************************************)
EXTENDS SourceChangeTracker

CONSTANTS
  Roots,          \* the Sources the configuration names
  Includes        \* source -> version -> the Sources that content includes

ASSUME ProjectAssumption ==
  /\ Roots \subseteq Sources
  /\ Includes \in [Sources -> [1..MaxVersion -> SUBSET Sources]]

VARIABLES
  configured,     \* active_configuration_path is not empty
  cacheComplete,  \* frontend_cache.complete()
  tracking,       \* change_tracking_ready
  attached,       \* runtime_attached
  gstate,         \* graphs.state()
  known,          \* the Sources of the Source Manager
  committed,      \* source -> version the Graph was built from, 0 for none
  op              \* the call in progress and its locals

contextVars == <<configured, cacheComplete, tracking, attached>>
vars == <<disk, trackerVars, gap, contextVars, gstate, known, committed, op>>

NoVersions == [s \in Sources |-> 0]

(* kind: the call; todo: Sources still to be read; got: versions read.     *)
Idle == [kind |-> "none", todo |-> {}, got |-> NoVersions]

Init ==
  /\ TrackerInit
  /\ configured = FALSE
  /\ cacheComplete = FALSE
  /\ tracking = FALSE
  /\ attached = FALSE
  /\ gstate = "error"
  /\ known = {}
  /\ committed = NoVersions
  /\ op = Idle

(* The first lines of load_project, of both checkpoint loads and of        *)
(* shutdown: nothing of an earlier Project can be rebuilt or run.          *)
Forget ==
  /\ configured' = FALSE
  /\ cacheComplete' = FALSE
  /\ tracking' = FALSE
  /\ attached' = FALSE
  /\ Stop

-------------------------------------------------------------------------------
(* project_context::initialize: the Graph Manager is emptied, the Source   *)
(* Manager keeps what it has.                                              *)
InitializeProject ==
  /\ op.kind = "none"
  /\ Forget
  /\ gstate' = "error"
  /\ committed' = NoVersions
  /\ UNCHANGED <<disk, gap, known, op>>

(* load_project.  The configuration is read, the Graph Manager initialized *)
(* and a rebuild begun.  A Source Manager that already has Sources refuses *)
(* to reserve the initial ones, which ends the call with the Graph empty   *)
(* and the state error.                                                    *)
LoadProject ==
  /\ op.kind = "none"
  /\ Forget
  /\ committed' = NoVersions
  /\ IF known = {}
     THEN /\ gstate' = "building"
          /\ op' = [Idle EXCEPT !.kind = "load", !.todo = Roots]
     ELSE /\ gstate' = "error"
          /\ UNCHANGED op
  /\ UNCHANGED <<disk, gap, known>>

(* load_project with a configuration that cannot be read: the call ends    *)
(* before the Graph Manager is touched.                                    *)
LoadUnreadable ==
  /\ Forget
  /\ op' = Idle
  /\ UNCHANGED <<disk, gap, gstate, known, committed>>

LoadFails == op.kind = "none" /\ MayFail /\ LoadUnreadable

(* One Source is read and parsed.  In a load every included Source follows *)
(* once; in a rebuild only those the Source Manager does not have yet.     *)
Acquire(s) ==
  LET seen == {r \in Sources : op.got[r] # 0} \cup
              (IF op.kind = "rebuild" THEN known ELSE {})
  IN
  /\ s \in op.todo
  /\ op' = [op EXCEPT
              !.got[s] = disk[s],
              !.todo = (@ \cup (Includes[s][disk[s]] \ seen)) \ {s}]
  /\ gap' = gap \ {s}
  /\ UNCHANGED <<disk, trackerVars, contextVars, gstate, known, committed>>

(* transaction.commit().                                                   *)
Commit ==
  /\ op.kind \in {"load", "rebuild"}
  /\ op.todo = {}
  /\ known' = known \cup {s \in Sources : op.got[s] # 0}
  /\ committed' = [s \in Sources |-> IF op.got[s] # 0 THEN op.got[s]
                                                      ELSE committed[s]]
  /\ gstate' = "valid"
  /\ op' = [Idle EXCEPT !.kind = IF op.kind = "load" THEN "loaded"
                                                     ELSE "rebuilt"]
  /\ UNCHANGED <<disk, trackerVars, gap, contextVars>>

(* The build fails at any stage.  A load has already forgotten the         *)
(* Project; a rebuild leaves path, cache and tracker as they are.  What    *)
(* was read is thrown away.                                                *)
BuildFails ==
  /\ MayFail
  /\ op.kind \in {"load", "rebuild"}
  /\ gstate' = "error"
  /\ op' = Idle
  /\ UNCHANGED <<disk, trackerVars, gap, contextVars, known, committed>>

(* The end of load_project: the frontend cache is filled, the path stored, *)
(* the tracker started.  What fails here is only a warning: without a path *)
(* or a cache the Project cannot be rebuilt, without a tracker every       *)
(* rebuild looks at every Source.                                          *)
FinishLoad ==
  /\ op.kind = "loaded"
  /\ \/ /\ configured' = TRUE
        /\ cacheComplete' = TRUE
        /\ tracking' = TRUE
        /\ Initialize(known)
     \/ /\ MayFail
        /\ configured' \in BOOLEAN
        /\ cacheComplete' \in {configured', FALSE}
        /\ tracking' = FALSE
        /\ UNCHANGED trackerVars
  /\ attached' = TRUE
  /\ op' = Idle
  /\ UNCHANGED <<disk, gap, gstate, known, committed>>

-------------------------------------------------------------------------------
(* Mutant: a failed build is not remembered.                               *)
ReconcileAll_TrackerOnly == ~tracking \/ rescan

(* Whether rebuild_sources must look at every Source: no tracker, a Graph  *)
(* that is not valid, or a batch that asks for a rescan.                   *)
ReconcileAll == ~tracking \/ gstate # "valid" \/ rescan

(* rebuild_sources can do nothing without a path and a complete cache.     *)
CanRebuild == op.kind = "none" /\ configured /\ cacheComplete

(* Mutant: the Runtime stays attached while the Graph is rebuilt.          *)
StartRebuild_Attached(dirty) ==
  /\ gstate' = "building"
  /\ op' = [Idle EXCEPT !.kind = "rebuild", !.todo = dirty]
  /\ UNCHANGED contextVars

(* The Runtime is detached and an incremental build begun.                 *)
StartRebuild(dirty) ==
  /\ attached' = FALSE
  /\ gstate' = "building"
  /\ op' = [Idle EXCEPT !.kind = "rebuild", !.todo = dirty]
  /\ UNCHANGED <<configured, cacheComplete, tracking>>

(* rebuild_sources: with a tracker its batch is drained first.             *)
RebuildSources ==
  /\ CanRebuild
  /\ tracking => ~projectChanged
  /\ ReconcileAll \/ pending # {}
  /\ StartRebuild(IF ReconcileAll THEN known ELSE pending)
  /\ IF tracking THEN Drain ELSE UNCHANGED trackerVars
  /\ UNCHANGED <<disk, gap, known, committed>>

(* rebuild_sources when the configuration changed: load_project is called  *)
(* with a reference to active_configuration_path, which is the member that *)
(* load_project clears before it reads its argument; an empty path cannot  *)
(* be read.                                                                *)
ReloadProject ==
  /\ CanRebuild
  /\ tracking /\ projectChanged
  /\ LoadUnreadable

(* The end of rebuild_sources: the tracker learns of new Sources; when     *)
(* that fails it is stopped.                                               *)
FinishRebuild ==
  /\ op.kind = "rebuilt"
  /\ \/ tracking /\ Synchronize(known) /\ UNCHANGED tracking
     \/ ~tracking /\ UNCHANGED <<trackerVars, tracking>>
     \/ tracking /\ MayFail /\ Stop /\ tracking' = FALSE
  /\ attached' = TRUE
  /\ op' = Idle
  /\ UNCHANGED <<disk, gap, configured, cacheComplete, gstate, known, committed>>

-------------------------------------------------------------------------------
(* load_compiled_checkpoint: a Graph without Sources behind it, or an      *)
(* error.                                                                  *)
LoadCompiled ==
  /\ op.kind = "none"
  /\ configured' = FALSE
  /\ cacheComplete' = FALSE
  /\ tracking' = FALSE
  /\ Stop
  /\ \/ gstate' = "valid" /\ attached' = TRUE /\ committed' = NoVersions
     \/ MayFail /\ gstate' = "error" /\ attached' = FALSE /\ UNCHANGED committed
  /\ UNCHANGED <<disk, gap, known, op>>

(* load_source_checkpoint leaves no Graph to run; shutdown leaves the      *)
(* Graph Manager alone.                                                    *)
LoadSource ==
  /\ op.kind = "none"
  /\ Forget
  /\ gstate' = "error"
  /\ UNCHANGED <<disk, gap, known, committed, op>>

Shutdown ==
  /\ op.kind = "none"
  /\ Forget
  /\ UNCHANGED <<disk, gap, gstate, known, committed, op>>

Worker(d) ==
  /\ \/ Complete(d) \/ Abandon(d) \/ Arm(d)
     \/ \E f \in Files : Consume(d, f)
  /\ UNCHANGED <<contextVars, gstate, known, committed, op>>

Write(f) ==
  /\ Edit(f)
  /\ UNCHANGED <<contextVars, gstate, known, committed, op>>

Build == (\E s \in Sources : Acquire(s)) \/ Commit \/ FinishLoad \/ FinishRebuild

Next ==
  \/ \E f \in Files : Write(f)
  \/ \E d \in Dirs : Worker(d)
  \/ InitializeProject \/ LoadProject \/ LoadFails \/ Build \/ BuildFails
  \/ RebuildSources \/ ReloadProject
  \/ LoadCompiled \/ LoadSource \/ Shutdown

Spec == Init /\ [][Next]_vars

(* The worker thread runs, a call that has begun goes on, whoever drives   *)
(* the Project keeps asking for rebuilds, and builds do not fail for ever. *)
Fairness ==
  /\ \A d \in Dirs : WF_vars(Worker(d))
  /\ WF_vars(Build)
  /\ WF_vars(RebuildSources)
  /\ []<><<RebuildSources>>_vars => []<><<Commit>>_vars

FairSpec == Spec /\ Fairness

-------------------------------------------------------------------------------
(* The variables have their types, and the Graph Manager is building       *)
(* exactly while a load or a rebuild has an open transaction.              *)
TypeOK ==
  /\ TrackerTypeOK
  /\ <<configured, cacheComplete, tracking, attached>> \in
       BOOLEAN \X BOOLEAN \X BOOLEAN \X BOOLEAN
  /\ gstate \in {"valid", "building", "error"}
  /\ known \subseteq Sources
  /\ committed \in [Sources -> 0..MaxVersion]
  /\ op \in [kind : {"none", "load", "loaded", "rebuild", "rebuilt"},
             todo : SUBSET Sources, got : [Sources -> 0..MaxVersion]]
  /\ (gstate = "building") = (op.kind \in {"load", "rebuild"})

(* The Runtime is attached only to a valid Graph, and never while a call   *)
(* that replaces the Graph is under way (project_context.cpp: fail-closed  *)
(* runtime_access).                                                        *)
AttachedOnlyToValid == attached => gstate = "valid" /\ op.kind = "none"

(* While change tracking is on and no call is running, every Source of the *)
(* Source Manager is registered and its directory has an open watch: what  *)
(* the next incremental build relies on.                                   *)
TrackingCoversSources ==
  tracking /\ op.kind = "none" =>
    running /\ \A s \in known : Covered(s)

(* The state is well formed, building exactly while a build runs, and what *)
(* the server and the next build rely on between calls holds: a Runtime is *)
(* attached to nothing else than a valid Graph, and tracking that is on    *)
(* covers every Source.                                                    *)
ContextSound == TypeOK /\ AttachedOnlyToValid /\ TrackingCoversSources

(* Nothing the tracker was told is still on its way.                       *)
Quiet ==
  /\ op.kind = "none"
  /\ configured /\ cacheComplete
  /\ gstate = "valid"
  /\ tracking
  /\ ~rescan /\ ~projectChanged /\ pending = {}
  /\ \A d \in Dirs :
       watch[d] # "dead" =>
         queue[d] = {} /\ buffer[d] = {} /\ ~overflowed[d] /\ watch[d] # "busy"

UpToDate(s) == committed[s] = disk[s]

(* A change made to a Source while its directory was watched is never      *)
(* lost: not when several edits fall into one batch, when a batch was      *)
(* drained by a build that failed, when the buffer overflowed or when the  *)
(* file was written again while it was being read.  Left out are the       *)
(* Sources edited while nothing watched them and the directories whose     *)
(* watch has died (see NoMissedChange, NoChangeMissedAfterArmFailure).     *)
WatchedChangesReachGraph ==
  Quiet => \A s \in known \ gap :
             watch[DirOf[s]] # "dead" => UpToDate(s)

(* Once the writing stops, the Graph catches up with the files and stays   *)
(* so, through batches, overflows, failed builds and the loss of the       *)
(* tracker, as long as the Project can be rebuilt and its configuration    *)
(* has not changed.                                                        *)
EventuallyUpToDate ==
  <>[](\/ ~configured \/ ~cacheComplete \/ projectChanged
       \/ \A s \in known \ gap : watch[DirOf[s]] # "dead" => UpToDate(s))

(* project_context.cpp logs "project configuration changed; full Project   *)
(* reload started": rebuild_sources then loads the Project again.          *)
ConfigurationChangeReloads == [][ReloadProject => op'.kind = "load"]_vars

(* source_change_tracker.hpp: "overflow, watcher failure, or restart       *)
(* requests a full Source reconciliation instead of risking a missed       *)
(* change", and synchronize avoids "a notification gap".                   *)
NoMissedChange == Quiet => \A s \in known : UpToDate(s)

(* The same for Sources that were watched all along, when a watch could    *)
(* not be armed again: "watcher failure ... requests a full Source         *)
(* reconciliation".                                                        *)
NoChangeMissedAfterArmFailure == Quiet => \A s \in known \ gap : UpToDate(s)

===============================================================================
