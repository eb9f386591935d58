SPECIFICATION Spec
CONSTANTS
  web = web
  Name = {web}
  Specs <- NoLoads
  BootSpecs <- BootOnFailure
  ExitStatus <- ZeroOneInt
  Client = {c1}
  Main = Main
  NoSpec = NoSpec
  Cut = Cut
  MaxInst = 1
  MaxPid = 3
  MaxOps = 2
INVARIANTS TypeOK SingleProcess RestartBudget RestartNeedsFailure
CHECK_DEADLOCK FALSE
