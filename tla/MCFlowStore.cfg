SPECIFICATION Spec
CONSTANTS
  Flow <- MCFlow
  Remote = {a1}
  App = {app}
  Domain = {1}
  RemoteOf <- MCRemoteOf
  Rank <- MCRank
  f1 = f1
  f2 = f2
  a1 = a1
  app = app
  None = None
  Capacity = 1
  Retention = 1
  Ttl = 1
  PolicyEvery = 2
  MaxCandidates = 1
  HourLen = 2
  MinuteKeep = 1
  HourKeep = 3
  SightedAt = {2}
  MaxClock = 3
  MaxTotal = 2
  MaxEvents = 1
SYMMETRY Symmetry
INVARIANTS
  AggregatesAreExact
  RecordsAreKept
  PatchesApply
PROPERTIES
  NoLateAssociation
CHECK_DEADLOCK FALSE
