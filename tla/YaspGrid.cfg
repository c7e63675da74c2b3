CONSTANTS
  Cases <- AllCases
  Counts <- Steps
  LevelLimit = 3
  MaxProcs = 4
  DimBits = 4
  LevelBits = 2
SPECIFICATION Spec
INVARIANTS TypeOK SizeCheckUniform BalancerOptimal
INVARIANTS ListsMatch InteriorOnce OverlapWidth InteriorBorderReaches
INVARIANTS IdsUnique SubEntities IndicesConsecutive SonsPartition FacesNumbered
