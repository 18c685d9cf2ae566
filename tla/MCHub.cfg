SPECIFICATION Spec
CONSTANTS
  Clients = {c1, c2}
  Notifications = 2
  Prefetch = 2
  BroadcastBuffer = 1
  SendBuffer = 1
INVARIANTS
  NoPanic
  StreamIsWhole
PROPERTIES
  SlowClientIsDropped
  LostConnectionEnds
CHECK_DEADLOCK FALSE
