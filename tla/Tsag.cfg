SPECIFICATION FairSpec
CONSTANTS
  f1 = f1
  f2 = f2
  f3 = f3
  Workers = {w1, w2, w3}
  Merge = merge
  Files = {f1, f2, f3}
  LinesOf <- MCLinesOf
  QUEUE_CAPACITY = 1
  WorkerMayFail = TRUE
  MergeMayFail = TRUE
  InitMayFail = {"parser", "vec"}
  MemoryMayFail = TRUE
  WriteMayFail = TRUE
INVARIANTS TypeOK OutqNeverFull NothingPrintsEarly FreedAfterJoin PathsFreed
PROPERTIES ImplementsTagsFile Terminates
CHECK_DEADLOCK FALSE
