\* A context with every call, and one whose dup2 and closes come in between.
CONSTANTS
  Ctx = {1, 2}
  NumFds = 5
  NumDirs = 1
  NumHostFds = 12
  Files = {"f","g"}
  Olds = {0, 3}
  News = {4}
  Calls = {"open", "close", "dup", "dup2", "pipe", "opendir", "closedir"}
  ChildCalls = {"dup2", "close"}
SPECIFICATION Spec
INVARIANTS TypeOK EntryFaithful HostFdsOwned
CHECK_DEADLOCK FALSE
