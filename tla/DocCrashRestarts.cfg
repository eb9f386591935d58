SPECIFICATION FairSpec
CONSTANTS
  MaxPid = 2
  ExitStatus <- CrashOrPoweroff
PROPERTY CrashRestarts
CHECK_DEADLOCK FALSE
