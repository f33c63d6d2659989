CONSTANTS
  MaxLines = 9
  Capacity = 2
  MaxQueued = 3
SPECIFICATION Spec
INVARIANTS AssertsHold QueuedMeansAwake LinesInOrder
PROPERTIES StopReturns LinesLeaveMemory
CHECK_DEADLOCK FALSE
