SPECIFICATION Spec
CONSTANTS
  p1 = p1
  p2 = p2
  s1 = s1
  s2 = s2
  Pubs = {p1, p2}
  Subs = {s1, s2}
  NoOne = NoOne
  MaxLines = 1
  SockCap = 1
  MaxLog = 9
  TooLong <- NoLongLine
  Faults = {"stop", "crash", "sub"}
  MaxBoots = 1
SYMMETRY Interchangeable
INVARIANTS TypeOK SegmentOrder CaughtUp OrderInv
PROPERTIES ImplementsLog
CHECK_DEADLOCK FALSE
