SPECIFICATION DomainSpec
CONSTANTS
  NoName = NoName
  Frame <- MCFrame
  Spelling <- MCSpelling
  SampleMax = 6
  DomainRoom = 2
  MaxAnswers = 2
  MaxLabels = 3
  MaxExtensions = 3
  MaxHeaders = 2
  MinTTL = 1
  MaxTTL = 2
  DirectTTL = 2
  MaxFrames = 3
  MaxTime = 4
CHECK_DEADLOCK FALSE
INVARIANTS  ReportedOnce
