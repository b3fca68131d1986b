SPECIFICATION Spec
CONSTANTS
  Navs = {n1, n2}
  Reqs = {r1}
  Subs = {s1}
  Urls = {home, feed}
  Json = {feed}
  Preloaded = {feed}
  None = None
  Sent = Sent
  MaxCache = 1
  MaxServer = 2
SYMMETRY Symmetric
CONSTRAINT AtMostThree
INVARIANTS TypeOK ReadYourWrites MemoizedIsLive
