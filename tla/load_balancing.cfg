SPECIFICATION Spec
CONSTANTS
  StartingInstances = 2
  MinInstances = 1
  MaxInstances = 3
  LowerBound = 30
  UpperBound = 80
  HoldTime = 1
  Utilizations = {20, 100}
  Amounts = {1}
  MaxActions = 2
  MaxRequests = 1
  MaxSpawned = 3
  Used = {"random", "util", "even", "round_robin", "round_robin_fast"}
CHECK_DEADLOCK FALSE
INVARIANTS
  ClusterInvariant
  NeverContradicted
  InstancesAreRunning
  BalancerInvariant
  ChoosesRunningIfFresh
PROPERTIES
  AutoscalerKeepsBounds
  RoundRobinIsFair
