SPECIFICATION FairSpec
CONSTANTS
  None = None
  Name <- MCName
  Facts <- MCFacts
  Metric <- MCMetric
  Choice <- MCChoice
  Client = {c1}
  MaxIndex = 3
  MaxPuts = 1
  MaxChanges = 2
  MaxFaults = 1
  MaxDrops = 1
CHECK_DEADLOCK FALSE
INVARIANTS HooksAreOwned LossIsReported BoundaryFollows DropsKept
PROPERTIES AttachRetried
