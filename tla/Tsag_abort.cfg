SPECIFICATION Spec
CONSTANTS
  f1 = f1
  f2 = f2
  f3 = f3
  Workers = {w1, w2}
  Merge = merge
  Files = {f1, f2}
  LinesOf <- MCLinesOf
  QUEUE_CAPACITY = 1
  WorkerMayFail = TRUE
  MergeMayFail = FALSE
  InitMayFail = {}
  MemoryMayFail = FALSE
  WriteMayFail = FALSE
INVARIANTS FreedWhenUnused
CHECK_DEADLOCK FALSE
