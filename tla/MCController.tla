---------------------------- MODULE MCController ----------------------------
(***************************************************************************)
(* Instances of the controller for TLC.  The guardrail constants are what  *)
(* the policy lookups answer for the action table of config/guardrails.yaml*)
(* with its durations scaled down to a few instants.                       *)
(***************************************************************************)
EXTENDS ControllerClaims, TLC

CONSTANTS p1, n1, t1, t2,
          RestartCooldown,  \* cooldown of restart_pod
          RestartCap,       \* max_per_hour of restart_pod
          Window,           \* restart_observation_window
          DryRunEnabled     \* dry_run_mode.enabled

MCNodeOf == [p \in Pods |-> n1]
NamespaceOf == [p \in Pods |-> "default"]
LabelsOf == [p \in Pods |-> {<<"app", "web">>}]

MCActionTable ==
    [restart_pod |-> [cooldown |-> RestartCooldown, maxPerHour |-> RestartCap,
                      requiresConfirmation |-> FALSE],
     reschedule_pod |-> [cooldown |-> 2, maxPerHour |-> 2,
                         requiresConfirmation |-> FALSE],
     cordon_node |-> [cooldown |-> 4, maxPerHour |-> 1,
                      requiresConfirmation |-> FALSE],
     drain_node |-> [cooldown |-> 4, maxPerHour |-> 0,
                     requiresConfirmation |-> TRUE]]

Configuration == INSTANCE Policy WITH
    ActionTable <- MCActionTable,
    RestartObservation <- Window,
    RescheduleObservation <- Window + 1,
    CordonRequiresMin <- 1,
    DryRunModeEnabled <- DryRunEnabled,
    GlobalDryRun <- FALSE,
    ProtectedNamespaces <- {"kube-system"},
    ProtectedLabels <- {<<"critical", "true">>},
    Minute <- 2

MCCooldown == [a \in HealingActions |-> Configuration!CooldownFor(a)]
MCMaxPerHour == [a \in HealingActions |-> Configuration!MaxPerHourFor(a)]
MCWindow == [a \in HealingActions |-> Configuration!ObservationWindowFor(a)]
MCNeedsConfirmation == {a \in LadderActions : Configuration!RequiresConfirmation(a)}
MCCordonMinPods == Configuration!CordonMinPodCount
MCDryRun == Configuration!IsDryRun
MCProtectedNamespacePods ==
    {p \in Pods : Configuration!IsProtectedNamespace(NamespaceOf[p])}
MCProtectedLabelPods == {p \in Pods : Configuration!IsProtectedPod(LabelsOf[p])}

\* Where the handler waits for the API server, or for a message.
ApiPoints == {"idle", "cordon", "dispatch"}

\* The types of anomalies are interchangeable.
TypeSymmetry == Permutations(Types)
=============================================================================
