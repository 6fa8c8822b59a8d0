SPECIFICATION Spec
CONSTANTS
  Clients = {c1, c2}
  MaxTasks = 1
  MaxContinues = 1
  MaxThrows = 1
CHECK_DEADLOCK FALSE
PROPERTIES
  WaitCompletedReturns
  ForceRestartReturns
  ForceStopReturns
  DestructorReturns
