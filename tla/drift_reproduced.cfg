CONSTANTS
  Null = Null
  Jobs <- DriftAndSim
  Counts = {0, 2}
  MaxCalls <- MCMaxCalls
SPECIFICATION Spec
INVARIANTS DriftReproduced
CHECK_DEADLOCK FALSE
