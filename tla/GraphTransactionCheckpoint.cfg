CONSTANTS
  NumSources = 2
  MaxRevision = 3
SPECIFICATION Spec
PROPERTY NextBuildCanRebuild
