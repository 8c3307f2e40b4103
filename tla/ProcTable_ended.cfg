\* yos-types.h:30, a process survives in ZOMBIE state until it is reaped.
CONSTANTS
  NumProcs = 2
  MaxPid = 2
  Codes = {0}
  Signals = {}
  Calls = {"fork", "return", "waitpid"}
  Faults = {}
SPECIFICATION Spec
INVARIANTS EndedIsZombie
CHECK_DEADLOCK FALSE
