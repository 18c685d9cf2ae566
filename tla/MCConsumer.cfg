SPECIFICATION Spec
CONSTANTS
  Queues = {websocket, example}
  Events = {"item"}
  Bound <- MCItem
  Undecodable = {}
  Prefetch = 2
  MaxRetries = 1
  MaxFaults = 1
  MaxStops = 1
SYMMETRY QueueSymmetry
INVARIANTS
  NoEventLost
  NoSpuriousDuplicate
  DeadLetterIsJustified
CHECK_DEADLOCK FALSE
