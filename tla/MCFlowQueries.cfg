SPECIFICATION Spec
CONSTANTS
  None = None
  Flow <- MCFlow
  Inbound = {"in"}
  Broadcast = {"in"}
  PairOf <- MCPair
  RemoteOf <- MCRemote
  AppOf <- MCApp
  ServiceOf <- MCService
  NamesOf <- MCNames
  TimeRange <- MCRange
  Span <- MCSpan
  Step <- MCStep
  Keep <- MCKeep
  Retention = 1
  PolicyEvery = 1
  PageTtl = 2
  PageCapacity = 1
  RateTtl = 1
  MaxUsage = 1
  MaxDestinations = 1
  Left <- MCLeft
  MaxTime = 3
  MaxWork = 3
  MaxKept = 1
INVARIANTS ListsAddUp TimelineIsWhole OverviewIsCurrent ExportsRecover
CHECK_DEADLOCK FALSE
