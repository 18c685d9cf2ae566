SPECIFICATION Spec
CONSTANTS
  Requests = {"a", "b", "d"}
  Hash <- MCHash
  MaxFaults = 2
INVARIANTS
  OneOwner
  ExtraEffectsAreAccounted
  ReplayIsFaithful
PROPERTIES
  KeyIsKept
  StuckKeyIsFreed
CHECK_DEADLOCK FALSE
