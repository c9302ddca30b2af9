\* Two programs one after the other, one crash or failed call, one file changed.
\* The user may stop.
SPECIFICATION Spec
CONSTANTS
  a1 = a1
  a2 = a2
  b = b
  Paths = {1, 2, 3}
  MaxPath = 3
  Contents = {a1, a2, b}
  NoFile = NoFile
  Hash <- MCHash
  Trees <- MCTrees
  Maps <- MCMaps
  Logs <- MCLogs
  MaxRuns = 2
  MaxChanges = 1
  MaxErrors = 1
INVARIANTS
  SourceArrives
  MergeKeeps
  TransactorTrue
  LogReplays
CHECK_DEADLOCK FALSE
