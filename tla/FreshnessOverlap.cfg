SPECIFICATION Spec
CONSTANTS
  s1 = s1
  s2 = s2
  w1 = w1
  w2 = w2
  w3 = w3
  Slots = {s1}
  Writes = {w1, w2}
  Touches <- TouchesAll
  Deletes = {w2}
  Procs = {p1, p2}
  Requests = {r1}
  Starts = {TRUE, FALSE}
  Overlap = TRUE
  SlowStreams = FALSE
  MaxStreamed = 0
  MaxVersion = 2
  MaxTimerVersion = 2
  MaxLoadFailures = 1
  MaxCrashes = 1
INVARIANTS TypeOK VersionGuardsRead
PROPERTIES NoSwallowedInvalidation
CHECK_DEADLOCK FALSE
SYMMETRY Symmetry
