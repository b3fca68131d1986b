SPECIFICATION Spec
CONSTANTS
  Elements = {e1, e2}
  p1 = p1
  p2 = p2
  Paths <- TwoPaths
  Urls <- Endpoints
  None = None
  HubIds <- HubObjects
  MaxWork = 2
  MaxStates = 1
INVARIANTS TypeOK OneStreamPerUrl PausedIsSilent NeverStranded
SYMMETRY Symmetry
CHECK_DEADLOCK FALSE
