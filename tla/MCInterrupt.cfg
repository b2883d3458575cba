CONSTANTS
  Thread = {main, t1, t2}
  main = main
  UserTick = 1
  SystemTick = 2
  TimerTicks = 2
  Latency = {3}
  MaxRequests = 2
SPECIFICATION FairSpec
INVARIANTS
  StatusMatchesThread
  NoneOverdue
PROPERTIES
  TimerKept
  TimerPreempts
