SPECIFICATION FairSpec
CONSTANTS
  web = web
  Name = {web}
  Specs <- NoLoads
  BootSpecs <- BootOnFailure
  ExitStatus <- JustOne
  Client = {c1}
  Main = Main
  NoSpec = NoSpec
  Cut = Cut
  MaxInst = 1
  MaxPid = 2
  MaxOps = 2
PROPERTIES ExitHandled ReaperDrains TermHandled
CHECK_DEADLOCK FALSE
