CONSTANTS
  Thread = {t1, t2, t3}
  NULL = NULL
  TableSize = 4
  HostFds = 5
  MaxObject = 2
  MaxValue = 1
  MaxSockets = 1
  Uses <- ApartUses
VIEW View
SPECIFICATION SysSpec
SYMMETRY Symmetry
CHECK_DEADLOCK FALSE
INVARIANTS
  SleepersQueued
  NoneOverlooked
  HandlesSound
