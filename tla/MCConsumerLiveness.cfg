SPECIFICATION Spec
CONSTANTS
  Queues = {"websocket"}
  Events = {"item", "notice"}
  Bound <- MCBound
  Undecodable = {"notice"}
  Prefetch = 2
  MaxRetries = 2
  MaxFaults = 1
  MaxStops = 1
PROPERTIES
  StopEnds
  EventuallyDone
CHECK_DEADLOCK FALSE
