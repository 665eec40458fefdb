CONSTANTS
  Mod = 6
  MaxRetries = 2
  RxAckWindow = 1
  SendWindow = 1
  MaxWindowRetries = 1
  MaxChunks = 2
  MaxPackets = 2
  Faults = 0
  Errors = 1
  Requests = 0
SPECIFICATION FairSpec
PROPERTY WatchdogRetries
CHECK_DEADLOCK FALSE
