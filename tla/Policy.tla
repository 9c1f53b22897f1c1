------------------------------- MODULE Policy -------------------------------
(***************************************************************************)
(* The guardrails policy as the controller reads it: a loaded YAML file    *)
(* and the lookups on it, each with the answer it gives when the file says *)
(* nothing.  Durations are instants of the clock; a missing duration, or   *)
(* one time.ParseDuration rejects, is Unparsable.                          *)
(***************************************************************************)
EXTENDS Integers

CONSTANTS ActionTable,         \* Guardrails.Actions, by action name
          RestartObservation,  \* Escalation.RestartObservationWindow
          RescheduleObservation,
          CordonRequiresMin,   \* PerNode.CordonRequiresMinAffectedPods
          DryRunModeEnabled,   \* DryRunMode.Enabled
          GlobalDryRun,        \* Global.DryRun
          ProtectedNamespaces,
          ProtectedLabels,     \* key/value pairs
          Minute               \* sixty seconds, in instants of the clock

Unparsable == -1

\* ActionConfig, the fields the controller uses.
ActionConfig ==
    [cooldown : Nat \cup {Unparsable}, maxPerHour : Nat, requiresConfirmation : BOOLEAN]

OrElse(duration, default) == IF duration = Unparsable THEN default ELSE duration

Configured(action) == action \in DOMAIN ActionTable

CooldownFor(action) ==
    IF Configured(action) THEN OrElse(ActionTable[action].cooldown, Minute) ELSE Minute

MaxPerHourFor(action) ==
    IF Configured(action) THEN ActionTable[action].maxPerHour ELSE 1

\* An action the table does not name is never taken autonomously.
RequiresConfirmation(action) ==
    Configured(action) => ActionTable[action].requiresConfirmation

CordonMinPodCount == CordonRequiresMin

IsDryRun == DryRunModeEnabled \/ GlobalDryRun

ObservationWindowFor(action) ==
    CASE action = "restart_pod" -> OrElse(RestartObservation, Minute)
      [] action = "reschedule_pod" -> OrElse(RescheduleObservation, 2 * Minute)
      [] OTHER -> (3 * Minute) \div 2

IsProtectedNamespace(ns) == ns \in ProtectedNamespaces

\* labels is the pod's label map, as the set of its key/value pairs.
IsProtectedPod(labels) == labels \cap ProtectedLabels # {}
=============================================================================
