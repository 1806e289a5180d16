CONSTANTS
  QueueLimit = 4
  QueueBytes = 6
  Size <- TwoSizes
  MaxVersion = 2
  MaxTicks = 1
  MaxUser = 1
  MaxFailures = 0
  MaxInFlight = 1
SPECIFICATION Spec
INVARIANTS PatchesInOrder
CHECK_DEADLOCK FALSE
