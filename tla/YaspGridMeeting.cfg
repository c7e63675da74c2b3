CONSTANTS
  Cases <- Meeting
  Counts = {}
  LevelLimit = 1
  MaxProcs = 3
  DimBits = 4
  LevelBits = 2
SPECIFICATION Spec
INVARIANT AllReaches
