CONSTANTS
  Null = Null
  Items = {a, b}
  MaxFills = 4
SPECIFICATION Spec
INVARIANTS TypeOK ExactlyOnceInOrder EosClosesBatches
PROPERTIES EngineLoopEnds ImplementsFifo
CHECK_DEADLOCK FALSE
