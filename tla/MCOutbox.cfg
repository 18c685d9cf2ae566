SPECIFICATION Spec
CONSTANTS
  Events = {1, 2}
  Undecodable = {2}
  Replicas = {r1, r2}
  Listeners = {r1}
  BatchSize = 2
  MaxAttempts = 2
  MaxFaults = 2
INVARIANTS
  FailedIsJustified
  DuplicatesAreFaults
  NoLostWakeup
PROPERTIES
  ImplementsDelivery
  EventuallySettled
