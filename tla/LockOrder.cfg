SPECIFICATION Spec
CONSTANT MaxLocks = 4
INVARIANTS
  SearchIsReachability
  LoopComputesVerdict
CHECK_DEADLOCK FALSE
