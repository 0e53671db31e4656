SPECIFICATION Spec
CONSTANTS
  N = 3
  Quantum = 1
  Horizon = 0
  IdleLimit = 4
  Delays = {}
  OutsideTick = 1
  Entries = {a, b}
  Outside = {}
PROPERTIES StartStands
