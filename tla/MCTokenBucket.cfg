SPECIFICATION BucketSpec
CONSTANTS
  Nothing = Nothing
  c1 = c1
  c2 = c2
  Cpu <- MCCpu
  Size <- MCSize
  Params <- MCParams
  Second = 4
  MaxTime = 4
  MaxPackets = 4
  MaxUpdates = 2
  MaxMapFaults = 1
SYMMETRY Symmetry
INVARIANTS
  LimitHolds
  HalfTheRate
CHECK_DEADLOCK FALSE
