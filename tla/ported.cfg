CONSTANTS
  Null = Null
  InPorts = {1, 2}
  OutPorts = {1, 2}
  Collect = FALSE
  Checked = FALSE
  Emits = {0, 1}
  MaxCalls = 3
SPECIFICATION Spec
INVARIANTS TypeOK NoForeignProduct
PROPERTIES ImplementsPureCall
CHECK_DEADLOCK FALSE
