CONSTANTS
  Thread = {t1, t2, t3}
  NULL = NULL
  TableSize = 5
  HostFds = 6
  MaxObject = 2
  MaxValue = 1
  MaxSockets = 1
  Uses <- ApartUses
SPECIFICATION SysSpec
CHECK_DEADLOCK FALSE
INVARIANT HandlesKept
