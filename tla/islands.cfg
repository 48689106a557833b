CONSTANTS
  Null = Null
  Jobs <- MCJobs
  Counts = {0, 2}
  MaxCalls <- MCMaxCalls
SPECIFICATION Spec
INVARIANTS TypeOK NoResidue ResultIsOwn DepositionsLag
PROPERTIES CallsReturn
CHECK_DEADLOCK FALSE
