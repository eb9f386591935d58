SPECIFICATION Spec
CONSTANTS
  web = web
  Name = {web}
  Specs <- LoadTwo
  BootSpecs <- BootNone
  ExitStatus <- JustOne
  Client = {c1, c2}
  Main = Main
  NoSpec = NoSpec
  Cut = Cut
  MaxInst = 2
  MaxPid = 2
  MaxOps = 2
INVARIANTS SingleProcess PersistedWasLaunched
SYMMETRY ClientPermutations
CHECK_DEADLOCK FALSE
