SPECIFICATION Spec
CONSTANTS
  MenuKinds = {m1}
  ActionKinds = {a1}
  UnlessKinds = {a1}
  MaxReqs = 2
  MaxHandlers = 2
INVARIANT EditPaused
