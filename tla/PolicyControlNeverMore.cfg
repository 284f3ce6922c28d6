SPECIFICATION Spec
CONSTANTS
  RuleId = {1, 2}
  Rate = {1}
  NoRate = NoRate
  None = None
  proc = proc
  cont = cont
  comm = comm
  cg1 = cg1
  main = main
  c1 = c1
  Target <- MCTarget
  KindOf <- MCKindOf
  MatchCapacity = 1
  StateCapacity = 4
  MaxFaults = 0
  Programs = {}
  Client = {main, c1}
  Main = main
  Selector <- MCSelector
  Evidence <- FixedEvidence
  Draft <- NoDraft
  Patch <- SharedPatch
  Stored <- SharedStored
  MaxRules = 2
  QueueCapacity = 1
  MaxRequests = 3
  MaxBreaks = 0
CONSTRAINT ClientsWait
INVARIANTS
  NeverMore
CHECK_DEADLOCK FALSE
