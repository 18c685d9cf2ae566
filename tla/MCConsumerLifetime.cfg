SPECIFICATION Spec
CONSTANTS
  Queues = {"websocket"}
  Events = {"item", "notice"}
  Bound <- MCBound
  Undecodable = {"notice"}
  Prefetch = 2
  MaxRetries = 1
  MaxFaults = 1
  MaxStops = 1
PROPERTIES
  ConsumerOutlivesConnection
CHECK_DEADLOCK FALSE
