CONSTANTS
  Cases <- Closed
  Counts = {1}
  LevelLimit = 2
  MaxProcs = 4
  DimBits = 4
  LevelBits = 2
SPECIFICATION Spec
INVARIANT FatherOfSon
