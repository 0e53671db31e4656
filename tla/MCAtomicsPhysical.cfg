SPECIFICATION Spec
CONSTANTS
  N = 2
  G = 2
  P = 4
  Pages = 2
  Answers = {0, 1}
CONSTANT Spaces <- SmallSpaces
INVARIANTS ReservedIsWritten
