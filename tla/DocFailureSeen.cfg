SPECIFICATION Spec
CONSTANTS
  web = web
  Name = {web}
  Specs <- NoLoads
  BootSpecs <- BootOnFailure
  ExitStatus <- ZeroOneInt
  Client = {c1}
  Main = Main
  NoSpec = NoSpec
  Cut = Cut
  MaxInst = 1
  MaxPid = 1
  MaxOps = 0
INVARIANT FailureSeen
CHECK_DEADLOCK FALSE
