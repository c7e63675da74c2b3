CONSTANTS
  p1 = p1
  p2 = p2
  p3 = p3
  Procs = {p1}
  Neighbors <- Alone
  Counts <- Steps
  MaxCalls = 2
  LevelLimit = 2
SPECIFICATION Spec
PROPERTY NegativeMarksCoarsen
