--------------------------- MODULE DependencyGraph ---------------------------
(***************************************************************************)
(* intelligence.DependencyGraph (graph.go): which node a pod runs on and   *)
(* which volumes it uses.  Every method holds the lock, but SyncFromCluster *)
(* is a sequence of AddNode and AddEdge calls: watch events and lookups     *)
(* fall between them.  A pod stands for its namespaced name, a node for its *)
(* identifier, of which only the name matters.                             *)
(***************************************************************************)
EXTENDS Integers, FiniteSets

CONSTANTS Pods, Nodes, Volumes,
          MaxUpdates    \* bound on the changes after the first sync

NoNode == ""
NoPod == ""

ASSUME GraphAssumption ==
    NoNode \notin Nodes /\ NoPod \notin Pods /\ MaxUpdates \in Nat

VARIABLES known,        \* the nodes AddNode was called for
          podToNode,    \* reverse index; NoNode if absent
          nodeToPods,   \* forward index
          uses,         \* the uses_pvc edges
          adding,       \* the pod whose claims SyncFromCluster is fetching
          updates,      \* number of changes
          moved         \* history: pods put on a second node, undeleted from the first

graphVars == <<known, podToNode, nodeToPods, uses, adding, updates, moved>>

\* SyncFromCluster was called once at startup.  A node that joined between its
\* two lists is not known although pods run on it.
GraphInit ==
    /\ known \in SUBSET Nodes
    /\ podToNode \in [Pods -> Nodes \cup {NoNode}]
    /\ nodeToPods = [n \in Nodes |-> {p \in Pods : podToNode[p] = n}]
    /\ uses \in SUBSET ({p \in Pods : podToNode[p] # NoNode} \X Volumes)
    /\ adding = NoPod
    /\ updates = 0
    /\ moved = {}

Moved(p, n) == IF podToNode[p] \in {NoNode, n} THEN moved ELSE moved \cup {p}

\* Mutation: the forward index is updated for new pods only.
AddRunsOn_NewOnly(p, n) ==
    /\ podToNode' = [podToNode EXCEPT ![p] = n]
    /\ moved' = Moved(p, n)
    /\ nodeToPods' = IF podToNode[p] = NoNode
                     THEN [nodeToPods EXCEPT ![n] = @ \cup {p}] ELSE nodeToPods

\* AddEdge for runs_on.  A pod that was on another node, and whose deletion was
\* not seen, also stays in that node's list.
AddRunsOn(p, n) ==
    /\ podToNode' = [podToNode EXCEPT ![p] = n]
    /\ nodeToPods' = [nodeToPods EXCEPT ![n] = @ \cup {p}]
    /\ moved' = Moved(p, n)

\* A watch event: the pod p runs on n.  The node itself is not added.
RegisterPod(p, n) ==
    /\ AddRunsOn(p, n)
    /\ UNCHANGED <<known, uses, adding>>

\* SyncFromCluster found node n.
SyncNode(n) ==
    /\ adding = NoPod
    /\ known' = known \cup {n}
    /\ UNCHANGED <<podToNode, nodeToPods, uses, adding, moved>>

\* SyncFromCluster found pod p on n: the first half of addPod.
SyncPod(p, n) ==
    /\ adding = NoPod
    /\ AddRunsOn(p, n)
    /\ adding' = p
    /\ UNCHANGED <<known, uses>>

\* The second half of addPod: the claims that can be fetched and are bound.
SyncVolume(v) ==
    /\ adding # NoPod
    /\ uses' = uses \cup {<<adding, v>>}
    /\ UNCHANGED <<known, podToNode, nodeToPods, adding, moved>>

SyncPodEnd ==
    /\ adding # NoPod
    /\ adding' = NoPod
    /\ UNCHANGED <<known, podToNode, nodeToPods, uses, moved>>

\* A watch event: pod p was deleted; its node's list and its edges are filtered.
UnregisterPod(p) ==
    /\ nodeToPods' = [n \in Nodes |->
          IF n = podToNode[p] THEN nodeToPods[n] \ {p} ELSE nodeToPods[n]]
    /\ podToNode' = [podToNode EXCEPT ![p] = NoNode]
    /\ uses' = {e \in uses : e[1] # p}
    /\ UNCHANGED <<known, adding, moved>>

\* A new change: a list entry of a further sync, or a watch event.
GraphChange ==
    /\ updates < MaxUpdates
    /\ updates' = updates + 1
    /\ \/ \E n \in Nodes : SyncNode(n)
       \/ \E p \in Pods, n \in Nodes : SyncPod(p, n) \/ RegisterPod(p, n)
       \/ \E p \in Pods : UnregisterPod(p)

GraphNext ==
    \/ GraphChange
    \/ /\ (\E v \in Volumes : SyncVolume(v)) \/ SyncPodEnd
       /\ UNCHANGED updates

\* SharedVolumes(): those used by every one of the pods.
SharedVolumes(pods) == {v \in Volumes : \A p \in pods : <<p, v>> \in uses}

GraphTypeOK ==
    /\ known \subseteq Nodes
    /\ podToNode \in [Pods -> Nodes \cup {NoNode}]
    /\ nodeToPods \in [Nodes -> SUBSET Pods]
    /\ uses \subseteq Pods \X Volumes
    /\ adding \in Pods \cup {NoPod}
    /\ moved \subseteq Pods

\* The two indices of the graph agree however the calls of a full sync and watch
\* events are interleaved: the node a pod is said to run on lists the pod, and
\* nothing else lists it, unless AddEdge was told of a second node while the first
\* still had it.
GraphIndexed ==
    \A p \in Pods :
        /\ podToNode[p] # NoNode => p \in nodeToPods[podToNode[p]]
        /\ p \notin moved => \A n \in Nodes : p \in nodeToPods[n] => podToNode[p] = n
=============================================================================
