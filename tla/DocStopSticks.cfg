SPECIFICATION Spec
CONSTANTS
  web = web
  Name = {web}
  Specs <- NoLoads
  BootSpecs <- BootAlways
  ExitStatus <- ZeroOneInt
  Client = {c1}
  Main = Main
  NoSpec = NoSpec
  Cut = Cut
  MaxInst = 1
  MaxPid = 2
  MaxOps = 1
INVARIANT StopSticks
CHECK_DEADLOCK FALSE
