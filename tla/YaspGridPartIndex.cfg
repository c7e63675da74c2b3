CONSTANTS
  Cases <- Halves
  Counts = {}
  LevelLimit = 1
  MaxProcs = 4
  DimBits = 4
  LevelBits = 2
SPECIFICATION Spec
INVARIANT IndexOfEntity
