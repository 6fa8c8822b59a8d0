SPECIFICATION Spec
CONSTANTS
  NumberUints = 8
  UintSize = 2
  Sizes = {1, 2, 5}
  Values = {11, 12}
PROPERTY InsideAllocation
