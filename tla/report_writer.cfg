CONSTANTS
  r1 = r1
  r2 = r2
  Writer <- MCWriter
  Kinds <- MCKinds
  Thread = {t1}
  Simulation = sim
  Nobody = nobody
  Unit = 2
  MaxTime = 3
  MaxPoints = 2
  MaxFailures = 1
SPECIFICATION Spec
INVARIANTS WriterInvariant FileIsReport
CHECK_DEADLOCK FALSE
PROPERTIES KeepsLog 
