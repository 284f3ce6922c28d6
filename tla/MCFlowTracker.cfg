SPECIFICATION Spec
CONSTANTS
  None = None
  Flow <- MCFlow
  Size <- MCSize
  Flags <- MCFlags
  Partial <- MCPartial
  IdleTimeout = 1
  EndedRetention = 2
  MaxTime = 4
  MaxPackets = 3
  MaxEvictions = 1
  MaxFails = 1
INVARIANTS
  NeverOvercounts
  PollIsComplete
  ClosuresAreTrue
PROPERTIES
  IdleIsQuiet
  ReopensOnNews
CHECK_DEADLOCK FALSE
