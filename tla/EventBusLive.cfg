SPECIFICATION FairSpec
CONSTANTS
  p1 = p1
  p2 = p2
  s1 = s1
  s2 = s2
  Pubs = {p1, p2}
  Subs = {s1}
  NoOne = NoOne
  MaxLines = 1
  SockCap = 1
  MaxLog = 0
  TooLong <- NoLongLine
  Faults = {"write", "reopen", "pub"}
  MaxBoots = 1
PROPERTIES BroadcastEnds LineIsBroadcast
CHECK_DEADLOCK FALSE
