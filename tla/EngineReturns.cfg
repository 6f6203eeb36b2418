SPECIFICATION FairSpec
CONSTANTS
  ann = ann
  bob = bob
  none = none
  NoKey = none
  Keys <- OneStudent
  Feed <- ReconFeed
  Replies <- BestReply
  AllowedTools <- NoTools
  AllowedPorts <- NoPorts
  Window = 60
  SockCap = 3
  MaxFaults = 1
  Lite = FALSE
PROPERTIES EngineReturns
CHECK_DEADLOCK FALSE
