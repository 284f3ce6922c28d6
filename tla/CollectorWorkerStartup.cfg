SPECIFICATION FairSpec
CONSTANTS
  main_task = main_task
  c1 = c1
  c2 = c2
  None = None
  Client = {main_task, c1, c2}
  Main = main_task
  QueueCapacity = 4
  BatchCapacity = 4
  SeqBound = 8
  MaxRequests = 2
  MaxHangups = 0
  MaxStartupTicks = 1
PROPERTIES
  StartupEnds
CHECK_DEADLOCK FALSE
