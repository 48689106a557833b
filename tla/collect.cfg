CONSTANTS
  Null = Null
  InPorts = {1}
  OutPorts = {1}
  Collect = TRUE
  Checked = FALSE
  Emits = {0, 3}
  MaxCalls = 3
SPECIFICATION Spec
INVARIANTS NoResidue
PROPERTIES ImplementsPureCall
CHECK_DEADLOCK FALSE
