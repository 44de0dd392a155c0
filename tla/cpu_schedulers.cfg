SPECIFICATION FairSpec
CONSTANTS
  p1 = p1
  p2 = p2
  p3 = p3
  Process = {p1, p2, p3}
  MinQuantum = 1
  Layers = 2
  Used = {"FIFO", "LIFO", "ShortestJobNext", "RoundRobin", "MultiLevelFeedback"}
  Demands = {0, 3}
  Threads = 2
INVARIANTS
  CpuInvariant
  NoIdleThread
  BurstsFit
  WorkDemandCounted
PROPERTIES
  IsProcessor
  EveryoneIsServed
