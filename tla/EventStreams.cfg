SPECIFICATION FairSpec
CONSTANTS
  Student = {ann, bob}
  Stream = {c1, c2}
  Noise = Noise
  Poison = Poison
  None = None
  MaxLines = 2
  MaxFails = 1
  MaxEffects = 2
  RingSize = 2
  QueueSize = 1
  Replay = 1
  ItemCap = 2
INVARIANTS TypeOK Gapless Seam ItemsOfUrl
PROPERTIES BusLoopReturns Reopens EventuallyShown
CHECK_DEADLOCK FALSE
