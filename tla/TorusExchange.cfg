CONSTANTS
  Dims <- Dims21
  Rounds = 2
  Used <- UsedSome21
SPECIFICATION Spec
INVARIANTS TypeOK BuffersFree RoundSkew Delivered
PROPERTIES Termination ImplementsExchange
