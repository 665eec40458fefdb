SPECIFICATION FairSpec
CONSTANTS
  NoDev = NoDev
  Devices = {d1}
  BadDevices = {}
  NumUnits = 1
  MaxConnections = 1
  NumFs = 1
  MaxPlugs = 1
  HideMisses = 2
  MaxStalls = 2
  MaxRefreshes = 0
  MaxApplies = 1
  MaxPresses = 1
PROPERTIES PageFollowsDevice
CHECK_DEADLOCK FALSE
