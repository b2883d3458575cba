CONSTANTS
  Thread = {main, t1, t2, t3, t4}
  main = main
  NULL = NULL
  MaxPending = 2
  InitialValue = 1
  MaxValue = 4
  Producer = {main, t1}
  Consumer = {t2, t3, t4}
  Applier = {t1}
  MaxItems = 3
SPECIFICATION MCSpec
INVARIANTS
  ReadyListExact
  SafeDestroy
  NoLostWakeup
  MutualExclusion
  LockNoLostWakeup
  SignalHasTaker
  FirstInFirstOut
PROPERTIES
  NoResurrection
  ReadyRuns
  ImplementsSemaphore
  ImplementsFairSemaphore
  SomeConsumerWakes
