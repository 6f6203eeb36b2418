SPECIFICATION Spec
CONSTANTS
  p1 = p1
  p2 = p2
  s1 = s1
  s2 = s2
  Pubs = {p1, p2}
  Subs = {}
  NoOne = NoOne
  MaxLines = 3
  SockCap = 1
  MaxLog = 1
  TooLong <- SecondOfP2
  Faults = {"stop", "crash", "boot", "rename"}
  MaxBoots = 2
INVARIANTS PublisherFifo LogSuffix
CHECK_DEADLOCK FALSE
