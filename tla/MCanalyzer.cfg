SPECIFICATION Spec
CONSTANTS
  Replicas = {r1}
  Pods = {p1, p2}
  Metrics = {m1, m2, m3}
  Values = {1, 3}
  NameOf <- MCNameOf
  RuleFile <- MCRules
  Correlations <- MCCorrelations
  Penalty <- MCPenalty
  Suppress = 120
  TakeAction = 160
  DefaultCooldowns <- MCDefaultCooldowns
  Minute = 2
  Hour = 3
  MaxLag = 1
  MaxSignals = 3
  MaxRuns = 1
  Capacity = 3
  MaxTime = 3
  r1 = r1
  r2 = r2
  p1 = p1
  p2 = p2
  m1 = m1
  m2 = m2
  m3 = m3
  Namesakes = TRUE
INVARIANTS
  AlertSpacing
  AlertCap
  FreshSamplesKept
  BlamedNameBreached
SYMMETRY NamesakeSymmetry
