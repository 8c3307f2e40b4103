\* A wait for any child racing yos_proc_exit, and the slot used again.
CONSTANTS
  NumProcs = 2
  MaxPid = 3
  Codes = {7}
  Signals = {}
  Calls = {"fork", "exit", "wait", "waitpid"}
  Faults = {}
SPECIFICATION Spec
INVARIANTS ReapedOnce
CHECK_DEADLOCK FALSE
