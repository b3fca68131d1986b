SPECIFICATION AdmissionFairSpec
CONSTANTS
  c1 = c1
  c2 = c2
  c3 = c3
  h1 = h1
  h2 = h2
  Conns = {c1, c2, c3}
  Hosts = {h1, h2}
  Host <- TwoAndOne
  MaxConnections = 1
  MaxStalls = 1
  MaxOutages = 2
INVARIANTS AdmissionTypeOK NeverOvershoots
PROPERTIES OrphansReclaimed
CHECK_DEADLOCK FALSE
