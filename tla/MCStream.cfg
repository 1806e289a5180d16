CONSTANTS
  QueueLimit = 2
  QueueBytes = 3
  Size <- TwoSizes
  MaxVersion = 2
  MaxTicks = 1
  MaxUser = 1
  MaxFailures = 1
  MaxInFlight = 1
SPECIFICATION MCSpec
INVARIANTS QueueSound LossVisible
CHECK_DEADLOCK FALSE
PROPERTIES Converges
