SPECIFICATION FairSpec
CONSTANTS
  s1 = s1
  s2 = s2
  w1 = w1
  w2 = w2
  w3 = w3
  Slots = {s1, s2}
  Writes = {w1, w2}
  Touches <- TouchesBoth
  Deletes = {}
  Procs = {p1}
  Requests = {r1}
  Starts = {TRUE}
  Overlap = FALSE
  SlowStreams = FALSE
  MaxStreamed = 1
  MaxVersion = 20
  MaxTimerVersion = 3
  MaxLoadFailures = 1
  MaxCrashes = 0
INVARIANTS NoSilentStaleness CorrectOnNextRead ReloadNeverGoesBack
PROPERTIES ActiveSlotsRefresh
CHECK_DEADLOCK FALSE
