CONSTANTS
  root = root
  leaf = leaf
  config = config
  here = here
  there = there
  Sources <- MCSources
  Config = config
  Dirs <- MCDirs
  DirOf <- MCDirOf
  Roots <- MCRoots
  Includes <- MCIncludes
  MaxVersion = 3
  MaxConfigVersion = 2
  MayOverflow = FALSE
  MayFailToArm = TRUE
  MayFail = FALSE
SPECIFICATION Spec
INVARIANT NoChangeMissedAfterArmFailure
