SPECIFICATION Spec
CONSTANTS
  NumWorkers = 2
  Callers = {c1, c2}
  Ranges <- SmallRanges
  MaxCalls = 2
  MaxThrows = 1
CHECK_DEADLOCK FALSE
INVARIANTS
  TypeOK
  DoneWhenJoined
  LocalsOutliveTasks
PROPERTIES
  ParallelForReturns
  WorkersAreExecutors
