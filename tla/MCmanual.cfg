SPECIFICATION Spec
CONSTANTS
  Pods = {p1}
  Nodes = {n1}
  Types = {t1}
  NodeOf <- MCNodeOf
  CarriesNode = TRUE
  MaxTime = 6
  MinInterval = 1
  Cooldown <- MCCooldown
  MaxPerHour <- MCMaxPerHour
  Hour = 4
  BreakerEnabled = FALSE
  FailurePct = 50
  EvalWindow = 3
  PauseDuration = 2
  MaxRestartAttempts = 1
  MaxRescheduleAttempts = 1
  PurgeAge = 9
  ProtectedNamespacePods <- MCProtectedNamespacePods
  ProtectedLabelPods <- MCProtectedLabelPods
  NeedsConfirmation <- MCNeedsConfirmation
  CordonMinPods <- MCCordonMinPods
  ObservationWindow <- MCWindow
  PollInterval = 1
  DryRun <- MCDryRun
  MaxEpoch = 0
  SlowPoints <- ApiPoints
  RestartCap = 2
  RestartCooldown = 2
  Window = 2
  DryRunEnabled = FALSE
  p1 = p1
  n1 = n1
  t1 = t1
  t2 = t2
PROPERTIES
  ManualIsTerminal
