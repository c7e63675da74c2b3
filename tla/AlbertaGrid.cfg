CONSTANTS
  length = 2
  macros <- Fan
  macroNumbers <- FanNumbers
  RefCounts <- Once
  MaxLevel = 1
  MaxMarks = 4
  MaxAdapts = 2
SPECIFICATION Spec
INVARIANTS TypeOK NumbersConserved MarksCounted DerivedFresh
PROPERTIES DataPersists
