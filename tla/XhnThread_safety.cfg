SPECIFICATION Spec
CONSTANTS
  Clients = {c1, c2}
  MaxTasks = 3
  MaxContinues = 1
  MaxThrows = 1
SYMMETRY ClientSymmetry
CHECK_DEADLOCK FALSE
INVARIANTS
  TypeOK
  NoTaskVanishes
  QueueInOrder
  CompletedMeansDrained
  ErrorIsReported
  NoUseAfterDestroy
PROPERTIES
  TasksFinishInOrder
  ImplementsExecutor
