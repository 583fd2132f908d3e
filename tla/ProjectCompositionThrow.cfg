SPECIFICATION FairSpec
CONSTANTS
  NumProjects = 3
  Bodies <- MCReferences
  WorkerLimit = 2
  MayFail = FALSE
PROPERTY ResolveReturns
CHECK_DEADLOCK FALSE
