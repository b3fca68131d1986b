SPECIFICATION Spec
CONSTANTS
  plain = plain
  stream = stream
  m1 = m1
  m2 = m2
  m3 = m3
  x1 = x1
  Edits = {m1, m2, m3}
  Foreign = {x1}
  Scopes = {plain, stream}
  Streamed = {stream}
  Named = {plain}
  ScopeOf <- MCScopeOf
  None = None
  First = First
  MaxFeed = 1
INVARIANTS TypeOK WithdrawnIsGone
CHECK_DEADLOCK FALSE
SYMMETRY Alike
