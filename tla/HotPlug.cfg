SPECIFICATION FairSpec
CONSTANTS
  NoDev = NoDev
  Devices = {d1, b1}
  BadDevices = {b1}
  NumUnits = 1
  MaxConnections = 2
  NumFs = 2
  MaxPlugs = 2
  HideMisses = 2
  MaxStalls = 0
  MaxRefreshes = 1
  MaxApplies = 1
  MaxPresses = 1
INVARIANTS TypeOK NothingMissed NoneForgotten RescanNotEaten
PROPERTIES PageFollowsDevice RefusedReported
CHECK_DEADLOCK FALSE
