\* Four processes, forks of forks.
CONSTANTS
  Threads = {1, 2, 3, 4}
  MaxData = 3
SPECIFICATION FairSpec
INVARIANTS OneThreadRuns PidsUnique ReturnsTwice MemoryIsolated
PROPERTY ChildStarts ParentResumes
CHECK_DEADLOCK FALSE
