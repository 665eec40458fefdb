SPECIFICATION FairSpec
CONSTANTS
  MenuKinds = {m1}
  ActionKinds = {a1}
  UnlessKinds = {a1}
  MaxReqs = 3
  MaxHandlers = 2
INVARIANTS
  TypeOK
  NoLostWakeup
  QueueExact
  ExclusiveIsQuiet
  OneWaiting
  ChangeSeen
PROPERTIES
  Implements
  Served
  DrainEnds
