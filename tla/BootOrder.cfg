SPECIFICATION FairSpec
CONSTANTS
  Name <- Three
  NoName = NoName
  Dirs <- BootDirs
INVARIANTS TypeOK StartedAfterDeps CycleDetected
PROPERTY BootEnds
CHECK_DEADLOCK FALSE
