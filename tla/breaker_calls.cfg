SPECIFICATION BreakerSpec
CONSTANTS
  a1 = a1
  b1 = b1
  b2 = b2
  c1 = c1
  d1 = d1
  d2 = d2
  d3 = d3
  Generator = Generator
  None = None
  Instance <- FanSmall
  ServiceOf <- FanServiceOf
  Op <- CallsOp
  OwnerOf <- CallsOwnerOf
  DepName <- CallsDepName
  DepsOf <- CallsDepsOf
  TargetOf <- CallsTargetOf
  UserOp <- CallsUserOp
  RetryInstance = {}
  MaxTries = 1
  Coincide = FALSE
  MaxUsers = 2
  MaxKills = 1
  MaxShutdowns = 1
  MaxStops = 1
  BreakerInstance <- BreakerOfA
  VolumeLimit = 1
  MinSamples = 3
  ErrorNum = 1
  ErrorDen = 1
SYMMETRY CallSymmetry
CHECK_DEADLOCK FALSE
INVARIANTS
  ConnectionsCounted
  ResultsFindTheirBreaker
  ConnectionsUnderWay
  AbortsOnlyAtOpenBreaker
