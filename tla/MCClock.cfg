SPECIFICATION Spec
CONSTANTS
  N = 2
  Quantum = 3
  Rates = {1, 2, 3}
  IdleTicks = {1, 3}
  Hooks = {FALSE, TRUE}
  MaxTime = 8
INVARIANTS TypeOK KeepsRemainder TimeNeverBack ReadsAreReached ReadsDiffer BackAtMostAQuantum
CHECK_DEADLOCK FALSE
