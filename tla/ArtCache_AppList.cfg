SPECIFICATION Spec
CONSTANTS
  Rows = {r1, r2}
  NoRow = NoRow
  NSlots = 1
  NReqs = 2
  Sio2 = {r1}
  Long = {r2}
  Art = {r1}
  Background = TRUE
  IoOps = {"apps"}
  Quits = FALSE
  Events = 1
INVARIANT AppListQuiet
CHECK_DEADLOCK FALSE
