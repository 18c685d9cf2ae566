CONSTANTS
  MaxSockets = 4
  MaxFaults = 3
  Broadcasts = 3
  Events <- MCEvents
  KindOf <- MCKindOf
  MAX_ITEMS = 2
  MaxBackoff = 3
SPECIFICATION Spec
INVARIANTS
  OneChain
  StatusIsHonest
  HistoryMatchesToasts
PROPERTIES
  ImplementsReconnection
  ComesBack
CHECK_DEADLOCK FALSE
