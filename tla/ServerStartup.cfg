SPECIFICATION StartupSpec
CONSTANTS
  NumProjects = 3
  Bodies <- MCBodies
  WorkerLimit = 2
  MayFail = TRUE
  Texts <- MCTexts
  Spelled <- MCSpelled
  ServerFile <- MCServerFile
  ProjectFile <- MCProjectFile
  Starts <- MCStarts
  ServerPath <- MCServerPath
  PathOf <- MCPathOf
INVARIANTS
  StartupExact
  JobsExact
  ResultExact
PROPERTY
  StartupEnds
CHECK_DEADLOCK FALSE
