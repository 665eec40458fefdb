SPECIFICATION Spec
CONSTANTS
  BlockCount = 2
  SectorsPerBlock = 2
  WeightFactor = 1
  AgeDivisor = 2
  HalfWord = 2
  SectorMod = 8
  DeviceSectors = 3
  MaxCount = 2
  Values = {v1, v2}
INVARIANTS
  TypeOK
  Coherent
  NoDuplicate
PROPERTIES
  CachedIsDevice
SYMMETRY ValueSymmetry
