SPECIFICATION FrontendSpec
CONSTANTS
  NumSources = 3
  HardwareThreads = 2
  Roots = {1}
  MayRecreate = FALSE
  EditedIncludes = {{}, {3}, {1, 2}}
  MaxEdits = 2
  MaxGeneration = 3
INVARIANTS
  ScheduleExact
  CommitIsComplete
  ImportsCurrent
  GraphMatchesBytes
  NobodyLeftWaiting
PROPERTIES
  RebuildReturns
  CleanBuildCommits
CHECK_DEADLOCK FALSE
