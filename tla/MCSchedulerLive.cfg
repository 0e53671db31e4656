SPECIFICATION Spec
CONSTANTS
  N = 2
  Quantum = 2
  Horizon = 3
  IdleLimit = 4
  Delays = {3}
  OutsideTick = 1
  Entries = {a}
  Outside = {"key"}
PROPERTIES NoLostWakeup StartedRuns DeadlineWakes StopIsHonoured
