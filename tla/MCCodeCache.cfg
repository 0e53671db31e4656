SPECIFICATION Spec
CONSTANTS
  N = 2
  W = 1
  Pages = 2
  Slots = 1
  Half = {s, l}
  Long = {l}
  Priv = {"S"}
  MaxEpoch = 3
INVARIANTS TypeOK HitIsFetch
