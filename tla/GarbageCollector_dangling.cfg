SPECIFICATION Spec
CONSTANTS
  MaxNodes = 2
  MaxHandles = 1
CHECK_DEADLOCK FALSE
INVARIANT NoDanglingReferences
