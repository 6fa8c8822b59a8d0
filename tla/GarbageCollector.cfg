SPECIFICATION Spec
CONSTANTS
  MaxNodes = 3
  MaxHandles = 1
CHECK_DEADLOCK FALSE
INVARIANTS
  TypeOK
  RetainCountsExact
  FullCollectsReclaim
PROPERTY KeepsWhatOlderHolds
