CONSTANTS
  numElements = 2
  Types = {"COPY"}
  Counts <- One
  LevelLimit = 2
  MaxAdapts = 2
  MaxMarks = 2
SPECIFICATION Spec
INVARIANT AssertionsHold
