SPECIFICATION Spec
CONSTANTS
  MaxNodes = 3
  MaxHandles = 2
CHECK_DEADLOCK FALSE
INVARIANT HandlesSurvive
