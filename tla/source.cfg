CONSTANTS
  Null = Null
  Cells = {c1, c2, c3, c4}
  Idle = Idle
  NumItems = 2
SPECIFICATION Spec
INVARIANTS TypeOK ServedInOrder DrainAfterRun
PROPERTIES OneRun EveryCallReturns
CHECK_DEADLOCK FALSE
