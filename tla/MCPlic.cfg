SPECIFICATION Spec
CONSTANTS
  Harts = 1
  WordBits = 2
  MaxLevel = 2
  PriorityWrites <- MCPriorityWrites
  EnableWrites <- MCEnableWrites
  ThresholdWrites <- MCThresholdWrites
INVARIANTS TypeOK PendingFollowsLine CacheCoherent ScanLoopIsHighest
PROPERTIES ClaimIsCurrent ImplementsLevel
