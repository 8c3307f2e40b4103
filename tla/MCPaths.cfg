\* One context that names its files through descriptors and paths.
CONSTANTS
  Fd = {3, 4}
  MaxPath = 3
  MaxDepth = 1
  HostCwd <- MCHostCwd
  Dirs <- MCDirs
  Files <- MCFiles
  Given <- MCGiven
  AtBases = {"fd"}
SPECIFICATION Spec
INVARIANTS ActsOnMeant CwdFaithful
CHECK_DEADLOCK FALSE
