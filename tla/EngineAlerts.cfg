SPECIFICATION FairSpec
CONSTANTS
  ann = ann
  bob = bob
  none = none
  NoKey = none
  Keys <- TwoStudents
  Feed <- MixedFeed
  Replies <- AnyReply
  AllowedTools <- NoTools
  AllowedPorts <- NoPorts
  Window = 1
  SockCap = 2
  MaxFaults = 1
  Lite = FALSE
INVARIANTS TypeOK AlertPerFinding InBusOrder LearningMode WindowComplete
PROPERTIES EventuallyJudged
CHECK_DEADLOCK FALSE
