SPECIFICATION Spec
CONSTANTS
  Deliveries = {d1, d2}
  Sweeper = sweeper
  MaxTries = 3
  MaxWork = 2
  StaleAfter = 2
  MaxFaults = 2
INVARIANTS
  OneRunner
PROPERTIES
  ImplementsLifecycle
  OrphanIsBuried
CHECK_DEADLOCK FALSE
