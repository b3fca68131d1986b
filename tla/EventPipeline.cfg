SPECIFICATION Spec
CONSTANTS
  MaxEvent = 2
  Procs = {p1, p2}
  Replays = {k1}
  FirstBoot = TRUE
  CommitInOrder = TRUE
  PromptRead = TRUE
  Retained = TRUE
  MaxDrops = 1
  MaxStops = 1
  MaxFailures = 1
  MaxFaults = 2
INVARIANTS TypeOK LostOnlyBelowCursor NothingMissed
PROPERTIES CursorNeverRewinds
CHECK_DEADLOCK FALSE
SYMMETRY Symmetry
