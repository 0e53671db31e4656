SPECIFICATION Spec
CONSTANTS
  N = 2
  Quantum = 2
  Horizon = 3
  IdleLimit = 4
  Delays = {0, 3, 4}
  OutsideTick = 1
  Entries = {a, b}
  Outside = {"alarm", "reply"}
INVARIANTS TypeOK DeliveredBeforeRunning StallIsJustified
