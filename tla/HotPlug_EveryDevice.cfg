SPECIFICATION FairSpec
CONSTANTS
  NoDev = NoDev
  Devices = {d1}
  BadDevices = {}
  NumUnits = 1
  MaxConnections = 1
  NumFs = 1
  MaxPlugs = 2
  HideMisses = 2
  MaxStalls = 0
  MaxRefreshes = 0
  MaxApplies = 0
  MaxPresses = 0
PROPERTIES EveryDeviceTried
CHECK_DEADLOCK FALSE
