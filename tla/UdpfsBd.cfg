CONSTANTS
  Mod = 12
  MaxRetries = 2
  RxAckWindow = 2
  SendWindow = 2
  MaxWindowRetries = 2
  MaxChunks = 2
  MaxPackets = 3
  Faults = 2
  Errors = 1
  Requests = 1
SPECIFICATION FairSpec
INVARIANTS TypeOK  
PROPERTIES  CallsEnd
CHECK_DEADLOCK FALSE
