SPECIFICATION Spec
CONSTANTS
  Parts <- AggregatorOnly
  Pods = {p1, p2, p3}
  Nodes = {n1}
  Volumes = {v1}
  MaxUpdates = 0
  SignalSets <- DiskOnly
  AggregationWindow = 2
  MinPodsThreshold = 3
  MaxMessages = 4
  MaxInputs = 4
  Names = {m1}
  ScoreHour = 2
  QuietPeriod = 0
  MaxEscalated = 1
  MaxTime = 3
  MaxAnomalies = 1
  Readers = {r1}
  r1 = r1
  p1 = p1
  p2 = p2
  p3 = p3
  n1 = n1
  v1 = v1
  m1 = m1
INVARIANTS
  NoMissedIncident
SYMMETRY PodSymmetry
