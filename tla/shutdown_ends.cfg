SPECIFICATION Spec
CONSTANTS
  a1 = a1
  b1 = b1
  b2 = b2
  c1 = c1
  Generator = Generator
  None = None
  Instance <- FanSmall
  ServiceOf <- FanServiceOf
  Op <- FanOp
  OwnerOf <- FanOwnerOf
  DepName <- CallDepName
  DepsOf <- CallDepsOf
  TargetOf <- CallTargetOf
  UserOp <- OnlyOpA
  RetryInstance = {}
  MaxTries = 2
  Coincide = FALSE
  MaxUsers = 1
  MaxKills = 1
  MaxShutdowns = 1
CHECK_DEADLOCK FALSE
INVARIANTS
  EmptyShutdownEnds
