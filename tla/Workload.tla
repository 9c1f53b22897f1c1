------------------------------ MODULE Workload ------------------------------
(***************************************************************************)
(* The cluster objects healing is about.  A pod stands for its namespaced  *)
(* name.  The Kubernetes API server is external: it is modelled by the     *)
(* answers the controller asks it for.                                     *)
(***************************************************************************)
CONSTANTS Pods,
          Nodes,
          NodeOf,           \* the node a pod runs on
          Types,            \* anomaly types (AnomalyEvent.Type)
          CarriesNode       \* does the AnomalyEvent name the node?

ASSUME WorkloadAssumption ==
    /\ NodeOf \in [Pods -> Nodes]
    /\ CarriesNode \in BOOLEAN
    /\ "" \notin Nodes

\* AffectedNode when the event does not carry one.
NoNode == ""

\* AnomalyEvent.AffectedNode of an anomaly on pod p.
AffectedNode(p) == IF CarriesNode THEN NodeOf[p] ELSE NoNode

\* The actions the ladder can hand to the dispatcher.
HealingActions == {"restart_pod", "reschedule_pod", "cordon_node"}
=============================================================================
