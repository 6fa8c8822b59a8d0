SPECIFICATION Spec
CONSTANTS
  Buffers = {b0, b1, b2}
  MaxCommits = 5
CHECK_DEADLOCK FALSE
INVARIANTS
  TypeOK
  OneOwnerEach
  NewestIsAnnounced
PROPERTIES
  ImplementsExchange
  BackOnlyAfterEarlyTake
  PrepareReturns
