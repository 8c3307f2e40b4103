\* Every call on a heap of one execution context, fork's child included.
CONSTANTS
  HeapBase = 512
  MemSize = 517
  Sizes = {0, 1, 2}
  Increments = {1}
  Targets = {512, 513}
  Tags = {1}
  Calls = {"malloc", "calloc", "free", "realloc", "sbrk", "brk", "fork"}
SPECIFICATION Spec
INVARIANTS TypeOK AreasDisjoint FreeListSound BigEnough ContentsKept
CHECK_DEADLOCK FALSE
