SPECIFICATION DeliverySpec
CONSTANTS
  a = a
  b = b
  c = c
  d = d
  v1 = v1
  v2 = v2
  Keys = {a, b, c, d}
  Contents = {v1, v2}
  Nested = {v2}
INVARIANTS DiffIsSound NoPatchIsWasted
CHECK_DEADLOCK FALSE
SYMMETRY Symmetry
