CONSTANTS
  PageSize = 1
  Earlier = 1
  MaxWritten = 3
  MaxOps = 3
SPECIFICATION MessagesSpec
INVARIANTS
  ViewInv
  InStep
CHECK_DEADLOCK FALSE
