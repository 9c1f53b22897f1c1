SPECIFICATION FairSpec
CONSTANTS
  Messages <- MCMessages
  Poison <- MCPoison
  Replicas = {r1, r2}
  BatchSize = 2
  MaxDeliver = 2
  MaxAttempts = 1
  MaxCrashes = 0
  MaxOutages = 0
  MaxFailures = 2
  MaxMissed = 0
  MaxLosses = 0
  r1 = r1
  r2 = r2
PROPERTIES
  SetupSucceeds
