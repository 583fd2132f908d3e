SPECIFICATION FrontendSpec
CONSTANTS
  NumSources = 3
  HardwareThreads = 2
  Roots = {1}
  MayRecreate = TRUE
  EditedIncludes = {{}, {3}, {1, 2}}
  MaxEdits = 2
  MaxGeneration = 3
INVARIANT ImportsCurrent
CHECK_DEADLOCK FALSE
