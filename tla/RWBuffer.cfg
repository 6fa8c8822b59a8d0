SPECIFICATION Spec
CONSTANTS
  NumberUints = 8
  UintSize = 2
  Sizes = {0, 2, 5}
  Values = {11, 12}
INVARIANT TypeOK
PROPERTIES
  NoOverwrite
  ImplementsQueue
