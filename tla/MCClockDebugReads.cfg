SPECIFICATION Spec
CONSTANTS
  N = 2
  Quantum = 3
  Rates = {1}
  IdleTicks = {1, 3}
  Hooks = {TRUE}
  MaxTime = 5
INVARIANT ReadsAlwaysDiffer
CHECK_DEADLOCK FALSE
