SPECIFICATION FairSpec
CONSTANTS
  MaxPid = 4
  ExitStatus <- CrashOrPoweroff
INVARIANTS TypeOK OneSupervisor
PROPERTIES ZombiesReaped DeathNoticed
CHECK_DEADLOCK FALSE
