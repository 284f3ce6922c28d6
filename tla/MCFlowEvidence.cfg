SPECIFICATION Spec
CONSTANTS
  None = None
  KernelTask = KernelTask
  Silent = Silent
  Flow <- MCFlow
  Protocol <- MCProtocol
  Port <- MCPort
  Remote <- MCRemote
  App = {a1}
  Payload = {"get"}
  Document <- MCDocument
  Default <- MCDefault
  RingRoom = 1
  StashRoom = 1
  OwnerRoom = 1
  MaxRules = 2
  MaxPredicates = 1
  Idle = 1
  Retention = 3
  EndedRetention = 3
  SeedInterval = 2
  Gaps = {1, 4}
  MaxEvents = 3
CHECK_DEADLOCK FALSE
INVARIANTS EvidenceIsUsed
PROPERTIES IdentityIsKept
