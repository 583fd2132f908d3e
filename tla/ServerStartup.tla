--------------------------- MODULE ServerStartup ---------------------------
(***************************************************************************)
(* How a Server comes to its Project: main (main.cpp) loads the Server's   *)
(* configuration, server_context::initialize and the beginning of          *)
(* project_context::load_project load the Project it names, and            *)
(* resolve_project_composition loads the Projects that one refers to.      *)
(*                                                                         *)
(* The composition of ConfigurationLoader, which says what a file means,   *)
(* and ProjectComposition, whose items and unreadable files are what the   *)
(* loader makes of the files.  Nothing writes the files meanwhile, so what *)
(* the loaders make of them is worked out once, in the initial state.      *)
(***************************************************************************)
EXTENDS ProjectComposition, ConfigurationLoader

CONSTANTS
  ServerFile(_),      \* the Server's file, by number: [readable, json, document]
  ProjectFile(_, _),  \* the file of a Project, by number
  Starts,             \* which numbers there may be: [servers, projects]
  ServerPath,         \* where the Server's configuration is
  PathOf              \* where the configuration of a Project is

ASSUME ServerStartupAssumption ==
  \A p, q \in Projects : PathOf[p] = PathOf[q] => p = q

VARIABLES
  server,    \* the Server's configuration file, by its number
  file,      \* the configuration file of every Project
  outcome,   \* what the loaders return for the Server's and the root's file
  startup    \* "server", "project", "resolve", or why it ended

startupVars == <<server, file, outcome, startup>>
allVars == <<vars, startupVars>>

(* What the loader makes of the file of a Project.                         *)
Configured(p) == LoadProjectConfiguration(ProjectFile(p, file[p]), PathOf[p])

(* Its items as the composition sees them: cache and visit_state know a    *)
(* Project by its path.                                                    *)
Items(got) ==
  [i \in DOMAIN got.rows |->
     IF got.rows[i].role = "project"
     THEN CHOOSE p \in Projects : PathOf[p] = got.rows[i].path
     ELSE Source]

(* A Project path at which there is nothing fails when load_project opens  *)
(* it.                                                                     *)
ServerOutcome ==
  LET got == LoadServerConfiguration(ServerFile(server), ServerPath) IN
  IF got.status = "ok" /\ got.project # PathOf[Root] THEN "read_failed" ELSE got.status

StartupInit ==
  /\ \E start \in Starts : server \in start.servers /\ file \in start.projects
  /\ config = [p \in Projects |-> Items(Configured(p))]
  /\ unreadable = {p \in Projects \ {Root} : Configured(p).status # "ok"}
  /\ outcome = [server |-> ServerOutcome, root |-> Configured(Root).status]
  /\ startup = "server"
  /\ scarce \in BOOLEAN
  /\ InitPool

(* Memory runs out in a loader, which is noexcept.                         *)
LoaderThrows ==
  /\ scarce
  /\ startup \in {"server", "project"}
  /\ startup' = "initialization_failed"
  /\ UNCHANGED <<vars, server, file, outcome>>

(* main: the Server's configuration.                                       *)
LoadServer ==
  /\ startup = "server"
  /\ startup' = IF outcome.server = "ok" THEN "project" ELSE outcome.server
  /\ UNCHANGED <<vars, server, file, outcome>>

(* load_project: the configuration of the root Project.                    *)
LoadRoot ==
  /\ startup = "project"
  /\ startup' = IF outcome.root = "ok" THEN "resolve" ELSE outcome.root
  /\ UNCHANGED <<vars, server, file, outcome>>

(* resolve_project_composition runs.                                       *)
ResolvingCoordinator ==
  startup = "resolve" /\ Coordinator /\ UNCHANGED startupVars

ResolvingWorker(w) ==
  startup = "resolve" /\ Worker(w) /\ UNCHANGED startupVars

Loading == LoadServer \/ LoadRoot \/ LoaderThrows

StartupNext ==
  Loading \/ ResolvingCoordinator \/ \E w \in Workers : ResolvingWorker(w)

(* The same fairness as in ProjectComposition, and main does not stop.     *)
StartupSpec ==
  /\ StartupInit /\ [][StartupNext]_allVars
  /\ WF_allVars(Loading)
  /\ WF_allVars(ResolvingCoordinator)
  /\ \A w \in Workers : WF_allVars(ResolvingWorker(w))

-----------------------------------------------------------------------------
Ended == phase = "returned" \/ startup \notin {"server", "project", "resolve"}

(* The Server comes to an end of its startup when no worker leaves with an *)
(* exception: every worker that sleeps is woken by the one that completes  *)
(* the last job.                                                           *)
StartupEnds == ~scarce => <>Ended
=============================================================================
