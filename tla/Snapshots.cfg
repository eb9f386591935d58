SPECIFICATION FairSpec
CONSTANTS
  a = a
  b = b
  Client <- TwoClients
  Tag = {t1}
  None = None
  VSockTarget = TRUE
  Freezable = TRUE
  MaxOps = 3
  MaxFaults = 2
INVARIANTS  RunningWhenIdle ReseededWhenIdle QuiescedImageFrozen
PROPERTIES OperationEnds
CHECK_DEADLOCK FALSE
