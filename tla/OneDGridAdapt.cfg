CONSTANTS
  numElements = 2
  Types = {"LOCAL", "COPY"}
  Counts <- UpToTwo
  LevelLimit = 2
  MaxAdapts = 3
  MaxMarks = 3
SPECIFICATION Spec
INVARIANTS TypeOK ListsOrdered FamilyTies SharedIds LeafIndices InsertionOrder AssertionsHoldUncopied
PROPERTIES OnlyAnnounced ImplementsTree
