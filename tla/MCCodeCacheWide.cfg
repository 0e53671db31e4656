SPECIFICATION Spec
CONSTANTS
  N = 1
  W = 2
  Pages = 2
  Slots = 2
  Half = {s, l}
  Long = {l}
  Priv = {"M", "S"}
  MaxEpoch = 3
INVARIANTS HitIsFetch
