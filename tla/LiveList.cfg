SPECIFICATION FairSpec
CONSTANTS
  a = a
  b = b
  v1 = v1
  v2 = v2
  Keys = {a, b}
  Contents = {v1, v2}
  Nested = {v2}
  Results <- SomeResults
  MaxWrites = 1
  MaxRenders = 2
  MaxUpsets = 1
PROPERTIES ListCatchesUp
INVARIANTS TypeOK PageInStep ArtifactInStep
CHECK_DEADLOCK FALSE
