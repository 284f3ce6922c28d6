SPECIFICATION FairSpec
CONSTANTS
  RuleId = {1, 2, 3}
  Rate = {1}
  NoRate = NoRate
  None = None
  proc = proc
  cont = cont
  comm = comm
  cg1 = cg1
  main = main
  c1 = c1
  Target <- MCTarget
  KindOf <- MCKindOf
  MatchCapacity = 1
  StateCapacity = 4
  MaxFaults = 1
  Programs = {}
  Client = {main, c1}
  Main = main
  Selector <- MCSelector
  Evidence <- MCEvidence
  Draft <- MCDraft
  Patch <- MCPatch
  Stored <- MCStored
  MaxRules = 2
  QueueCapacity = 1
  MaxRequests = 2
  MaxBreaks = 1
INVARIANTS ApplyExact OldOrNew MatchHasState RemovalsFindTheirKey SwitchGuards StatusHonest
PROPERTIES HandlersEnd
CHECK_DEADLOCK FALSE
