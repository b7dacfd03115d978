CONSTANTS
  MaxQueries = 2
  BufferPool = 1
  Requests = {1, 2}
  Qids <- MCQids
  Entries <- MCEntries
  PoolIdx <- MCPoolIdx
  MaxCalls = 3
  MaxFrees = 2
  Threads = {t1, t2}
  Cores = {0, 1}
  CoreArgs <- MCCoreArgs
  SetSize = 3

SPECIFICATION Spec

INVARIANT RejectionReported


\* A segfault or an exit ends the process: such a state has no successor.
CHECK_DEADLOCK FALSE
