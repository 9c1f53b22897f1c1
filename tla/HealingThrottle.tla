--------------------------- MODULE HealingThrottle ---------------------------
(***************************************************************************)
(* What the guardrails enforce about the actions a controller issues,      *)
(* stated without the controller: an action is issued only if, against     *)
(* everything the same process has issued before, it keeps the global      *)
(* spacing, the cooldown of its pod and action, and, where the policy sets *)
(* a positive one, their hourly cap.  What the configuration's comments    *)
(* say of a cap of zero (never autonomous; policy.go:159) and of a restart *)
(* (the cooldowns bridge it; escalation.go:22) the code does not enforce.  *)
(***************************************************************************)
EXTENDS Integers, FiniteSets

CONSTANTS MinInterval, Cooldown, MaxPerHour, Hour

VARIABLE issued     \* records with at least pod, action, token, stamp, epoch

SameProcess(e, f) == e.epoch = f.epoch
SameKey(e, f) == SameProcess(e, f) /\ e.pod = f.pod /\ e.action = f.action

Admits(e) ==
    /\ \A f \in issued : SameProcess(e, f) => e.token - f.token >= MinInterval
    /\ \A f \in issued : SameKey(e, f) => e.stamp - f.stamp >= Cooldown[e.action]
    /\ MaxPerHour[e.action] > 0 =>
          Cardinality({f \in issued : SameKey(e, f) /\ f.stamp > e.stamp - Hour})
              < MaxPerHour[e.action]

Init == issued = {}

Issue == \E e \in issued' : Admits(e) /\ issued' = issued \cup {e}

Spec == Init /\ [][Issue]_issued
=============================================================================
