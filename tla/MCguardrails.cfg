SPECIFICATION Spec
CONSTANTS
  Pods = {p1}
  Nodes = {n1}
  Types = {t1, t2}
  NodeOf <- MCNodeOf
  CarriesNode = TRUE
  MaxTime = 3
  MinInterval = 1
  Cooldown <- MCCooldown
  MaxPerHour <- MCMaxPerHour
  Hour = 3
  BreakerEnabled = TRUE
  FailurePct = 50
  EvalWindow = 3
  PauseDuration = 1
  MaxRestartAttempts = 2
  MaxRescheduleAttempts = 2
  PurgeAge = 1
  ProtectedNamespacePods <- MCProtectedNamespacePods
  ProtectedLabelPods <- MCProtectedLabelPods
  NeedsConfirmation <- MCNeedsConfirmation
  CordonMinPods <- MCCordonMinPods
  ObservationWindow <- MCWindow
  PollInterval = 1
  DryRun <- MCDryRun
  MaxEpoch = 1
  SlowPoints <- ApiPoints
  RestartCap = 2
  RestartCooldown = 1
  Window = 2
  DryRunEnabled = FALSE
  p1 = p1
  n1 = n1
  t1 = t1
  t2 = t2
INVARIANTS
  AtMostOneSlip
  CooldownSpacing
  WaitAgreesWithAllow
  OneVerdictPerAction
  LadderPace
SYMMETRY TypeSymmetry
PROPERTIES
  ThrottleSpec
