\* Guests that make every call but setpgid; kill and wait for any child included.
CONSTANTS
  NumProcs = 2
  MaxPid = 3
  Codes = {7}
  Signals = {9}
  Calls = {"fork", "exit", "return", "waitpid", "poll", "wait", "kill", "setsid"}
  Faults = {}
SPECIFICATION Spec
INVARIANTS TypeOK PidsUnique
CHECK_DEADLOCK FALSE
