SPECIFICATION Spec
CONSTANTS
  Rows = {r1, r2}
  NoRow = NoRow
  NSlots = 2
  NReqs = 2
  Sio2 = {r1}
  Long = {}
  Art = {r1}
  Background = FALSE
  IoOps = {"theme"}
  Quits = FALSE
  Events = 1
INVARIANTS TypeOK QrLive OnePlace RightPicture SafeFree MemoHonest
CHECK_DEADLOCK FALSE
