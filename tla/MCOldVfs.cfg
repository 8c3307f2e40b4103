\* One program after the other, with two file systems.
CONSTANTS
  Mounts <- MCMounts
  NumHostFds = 5
  MaxFds = 5
  MaxHandles = 2
  MaxDepth = 1
  Dirs <- MCDirs
  Files <- MCFiles
  Given <- MCGiven
  News = {3, 4}
  Growing = FALSE
  FchdirTo = {TRUE}
SPECIFICATION Spec
INVARIANTS ActsOnMeant CwdFaithful EntryFaithful HostFdsOwned
CHECK_DEADLOCK FALSE
