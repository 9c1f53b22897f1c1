SPECIFICATION Spec
CONSTANTS
  Parts <- BothParts
  Pods = {p1, p2}
  Nodes = {n1, n2}
  Volumes = {v1}
  MaxUpdates = 4
  SignalSets <- DiskAndNetwork
  AggregationWindow = 1
  MinPodsThreshold = 2
  MaxMessages = 3
  MaxInputs = 4
  Names = {m1}
  ScoreHour = 2
  QuietPeriod = 0
  MaxEscalated = 1
  MaxTime = 2
  MaxAnomalies = 4
  Readers = {r1}
  r1 = r1
  p1 = p1
  p2 = p2
  n1 = n1
  n2 = n2
  v1 = v1
  m1 = m1
INVARIANTS
  GraphIndexed
  TypeOK
  StampsExact
  CordonNeedsMajority
PROPERTIES
  IncidentsExact
SYMMETRY PodSymmetry
