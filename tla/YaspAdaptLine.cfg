CONSTANTS
  p1 = p1
  p2 = p2
  p3 = p3
  Procs = {p1, p2, p3}
  Neighbors <- Line
  Counts <- Steps
  MaxCalls = 2
  LevelLimit = 2
SPECIFICATION Spec
INVARIANTS TypeOK LevelsAgree MarksCount
PROPERTY Returns
