SPECIFICATION Spec
CONSTANTS
  a = a
  b = b
  Client <- OneClient
  Tag = {t1}
  None = None
  VSockTarget = TRUE
  Freezable = TRUE
  MaxOps = 1
  MaxFaults = 1
INVARIANTS ThawsAlways
CHECK_DEADLOCK FALSE
