SPECIFICATION FairSpec
CONSTANTS
  a1 = a1
  b1 = b1
  b2 = b2
  c1 = c1
  Generator = Generator
  None = None
  Instance <- FanInstance
  ServiceOf <- FanServiceOf
  Op <- FanOp
  OwnerOf <- FanOwnerOf
  DepName <- FanDepName
  DepsOf <- FanDepsOf
  TargetOf <- FanTargetOf
  UserOp <- OnlyOpA
  RetryInstance = {}
  MaxTries = 2
  Coincide = TRUE
  MaxUsers = 1
  MaxKills = 3
  MaxShutdowns = 1
CHECK_DEADLOCK FALSE
INVARIANTS
  IncompleteIsOpen
  SubmittedIsComputing
  ComputingIsHandled
  NeverAborts
PROPERTIES
  UserRequestsResolved
