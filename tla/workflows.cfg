CONSTANTS
  Null = Null
  Unset = Unset
  Cells <- MCCells
  Workflows <- MCWorkflows
SPECIFICATION Spec
INVARIANTS TypeOK NoAbort EachCellItsOwn WritesOnce SameRecord
PROPERTIES AllDone
CHECK_DEADLOCK FALSE
