SPECIFICATION FairSpec
CONSTANTS
  MinSamples = 5
  ErrorNum = 1
  ErrorDen = 2
  WindowLength = 2
  SleepWindow = 2
  MaxSamples = 6
INVARIANTS
  OpenIffScheduled
  WindowCounted
  WindowInvariant
PROPERTIES
  OpensOnErrors
  HalfOpensAgain
