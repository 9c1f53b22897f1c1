SPECIFICATION FairSpec
CONSTANTS
  Messages <- MCMessages
  Poison <- MCPoison
  Replicas = {r1, r2}
  BatchSize = 2
  MaxDeliver = 2
  MaxAttempts = 1
  MaxCrashes = 1
  MaxOutages = 1
  MaxMissed = 1
  MaxLosses = 1
  MaxFailures = 2
  r1 = r1
  r2 = r2
INVARIANTS
  TypeOK
  AckedWasHandled
  NotAbandoned
  BoundedHandling
PROPERTIES
  EventuallyHandled
