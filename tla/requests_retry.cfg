SPECIFICATION Spec
CONSTANTS
  a1 = a1
  b1 = b1
  b2 = b2
  c1 = c1
  Generator = Generator
  None = None
  Instance <- FanInstance
  ServiceOf <- FanServiceOf
  Op <- FanOp
  OwnerOf <- FanOwnerOf
  DepName <- CallDepName
  DepsOf <- CallDepsOf
  TargetOf <- CallTargetOf
  UserOp <- OnlyOpA
  RetryInstance <- FanRetry
  MaxTries = 2
  Coincide = FALSE
  MaxUsers = 1
  MaxKills = 2
  MaxShutdowns = 1
CHECK_DEADLOCK FALSE
INVARIANTS
  TreeInvariant
  OpenIsUnderWay
  CountedOnceUnlessKilled
  OutgoingIsSent
  AttemptsBounded
PROPERTIES
  IsCallTree
