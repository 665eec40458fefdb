SPECIFICATION Spec
CONSTANTS
  NoDev = NoDev
  Devices = {d1, d2}
  BadDevices = {}
  NumUnits = 1
  MaxConnections = 2
  NumFs = 1
  MaxPlugs = 2
  HideMisses = 2
  MaxStalls = 0
  MaxRefreshes = 0
  MaxApplies = 0
  MaxPresses = 0
INVARIANTS ListIsDevices
CHECK_DEADLOCK FALSE
