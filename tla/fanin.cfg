CONSTANTS
  Null = Null
  InPorts = {1, 2, 3}
  OutPorts = {1}
  Collect = FALSE
  Checked = TRUE
  Emits = {1}
  MaxCalls = 3
SPECIFICATION Spec
INVARIANTS RunIsDataThenEos NoResidue
PROPERTIES CallsReturn
CHECK_DEADLOCK FALSE
