SPECIFICATION Spec
CONSTANTS
  Name <- Three
  NoName = NoName
  Dirs <- OddDirs
INVARIANT InvalidFileSkipped
CHECK_DEADLOCK FALSE
