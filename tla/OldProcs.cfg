CONSTANTS
  MaxPid = 3
  Main = "main"
  Programs = {"main", "prog", "noentry"}
  Entryless = {"noentry"}
  Execd = {"prog", "missing"}
  Spawned = {"prog", "noentry", "missing"}
  Codes = {263}
  Leavers = {2, 3}
  ExecdForks = FALSE
  Fits = {TRUE}
SPECIFICATION FairSpec
INVARIANTS StatusFaithful VforkHolds ImageRight
PROPERTIES BlockedGoOn
CHECK_DEADLOCK FALSE
