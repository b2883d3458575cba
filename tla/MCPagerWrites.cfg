CONSTANTS
  Thread = {t1,t2}
  NULL = NULL
  Pages = 2
  NumPhysPages = 2
  TLBSize = 2
  MaxStored = 1
SPECIFICATION Spec
SYMMETRY Symmetry
CHECK_DEADLOCK FALSE
INVARIANTS
  Coherent
