SPECIFICATION FairSpec
CONSTANTS
  main_task = main_task
  c1 = c1
  c2 = c2
  None = None
  Client = {main_task, c1, c2}
  Main = main_task
  QueueCapacity = 1
  BatchCapacity = 2
  SeqBound = 4
  MaxRequests = 3
  MaxHangups = 1
  MaxStartupTicks = 2
INVARIANTS
  NoBatchLost
  StopsDetached
PROPERTIES
  StopEnds
  RequestsEnd
CHECK_DEADLOCK FALSE
