SPECIFICATION Spec
CONSTANTS
  N = 2
  Quantum = 1
  Horizon = 1
  IdleLimit = 4
  Delays = {2}
  OutsideTick = 1
  Entries = {a}
  Outside = {"alarm"}
INVARIANT NothingCanWake
