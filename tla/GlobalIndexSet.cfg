CONSTANTS
  Cases <- Grids_
  Counts = {1}
  LevelLimit = 2
  MaxProcs = 3
  DimBits = 4
  LevelBits = 2
  Communications <- Args
SPECIFICATION IndexSpec
INVARIANTS IndexTypeOK DataArrives GlobalIndices
PROPERTY CallsReturn
