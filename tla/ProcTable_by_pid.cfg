\* Guests that wait for their children by pid and send no signals; every host failure.
CONSTANTS
  NumProcs = 3
  MaxPid = 4
  Codes = {0, 263}
  Signals = {}
  Calls = {"fork", "exit", "return", "waitpid", "poll"}
  Faults = {"memory", "thread", "context"}
SPECIFICATION Spec
INVARIANTS OwnsSlot ReapedOnce StatusFaithful NoLostWakeup
PROPERTY ZombieUntilReaped
CHECK_DEADLOCK FALSE
