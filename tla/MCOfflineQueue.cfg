CONSTANTS
  Conversations = {a, b}
  None = None
  MaxItems = 3
  WorkerCalls = {k, x, y}
  Generators = {k}
SPECIFICATION AllSpec
INVARIANTS QueueInv WorkerInv
PROPERTIES RetriedOnReconnect CallsReturn
CHECK_DEADLOCK FALSE
