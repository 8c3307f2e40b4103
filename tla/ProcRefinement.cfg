\* The process table implements the life cycle of ProcLife, and waiters wake.
CONSTANTS
  NumProcs = 2
  MaxPid = 3
  Codes = {263}
  Signals = {}
  Calls = {"fork", "exit", "return", "waitpid", "setpgid", "setsid"}
  Faults = {"memory", "thread", "context"}
SPECIFICATION FairSpec
PROPERTY LifeCycle WaitReturns
CHECK_DEADLOCK FALSE
