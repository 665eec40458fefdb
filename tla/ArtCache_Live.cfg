SPECIFICATION FairSpec
CONSTANTS
  Rows = {r1, r2}
  NoRow = NoRow
  NSlots = 1
  NReqs = 2
  Sio2 = {r1}
  Long = {r2}
  Art = {r1}
  Background = TRUE
  IoOps = {"apps"}
  Quits = TRUE
  Events = 1
INVARIANT SafeFree
PROPERTIES LoadsEnd WorkerStops
CHECK_DEADLOCK FALSE
