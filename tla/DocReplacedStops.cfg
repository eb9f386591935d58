SPECIFICATION Spec
CONSTANTS
  web = web
  Name = {web}
  Specs <- LoadWeb
  BootSpecs <- BootNone
  ExitStatus <- JustOne
  Client = {c1}
  Main = Main
  NoSpec = NoSpec
  Cut = Cut
  MaxInst = 2
  MaxPid = 2
  MaxOps = 2
INVARIANT ReplacedStops
CHECK_DEADLOCK FALSE
