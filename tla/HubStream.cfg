SPECIFICATION FairSpec
CONSTANTS
  Slots = {s1, s2}
  Other = other
  Capacity = 3
  MaxSent = 4
  Settles = TRUE
INVARIANTS TypeOK NothingLostSilently
PROPERTIES DeliversLatest PatchesArrive OverEnds
CHECK_DEADLOCK FALSE
