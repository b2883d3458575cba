CONSTANTS
  Thread = {t1, t2, t3, t4}
  main = t1
  NULL = NULL
  NumPhysPages = 4
  GlobalPages = 1
  StackPages = 1
  TableSize = 2
  W = 8
  Reg = {0, 1, 2, 31}
  MemSize = 8
  Program <- MCProgram
  Operand = {0, 1, 127, 128, 255}
  Result = {3}
  MaxSteps = 2
SPECIFICATION MCSpec
SYMMETRY Symmetry
CHECK_DEADLOCK FALSE
INVARIANT
  MappedFramesTaken
