------------------------- MODULE IntelligenceProofs -------------------------
(***************************************************************************)
(* The node-level analysis, for any pods, nodes and signals, and any number *)
(* of anomalies, flushes and graph updates.                                *)
(***************************************************************************)
EXTENDS Intelligence, SequenceFacts

-----------------------------------------------------------------------------
(* The graph.                                                              *)

GraphInv == GraphTypeOK /\ GraphIndexed

LEMMA GraphStarts == GraphInit => GraphInv
BY DEF GraphInit, GraphInv, GraphTypeOK, GraphIndexed

\* AddEdge lists the pod on the node it is said to run on, and a pod that leaves
\* another node's list stale is remembered as moved.
LEMMA AddKeeps ==
    ASSUME GraphInv, NEW p \in Pods, NEW n \in Nodes, AddRunsOn(p, n)
    PROVE  /\ podToNode' \in [Pods -> Nodes \cup {NoNode}]
           /\ nodeToPods' \in [Nodes -> SUBSET Pods]
           /\ moved' \subseteq Pods
           /\ GraphIndexed'
<1> USE DEF GraphInv, GraphTypeOK, AddRunsOn, Moved
<1>1. /\ podToNode' \in [Pods -> Nodes \cup {NoNode}]
      /\ nodeToPods' \in [Nodes -> SUBSET Pods]
      /\ moved' \subseteq Pods
  OBVIOUS
<1>2. \A q \in Pods : podToNode'[q] = IF q = p THEN n ELSE podToNode[q]
  OBVIOUS
<1>3. \A m \in Nodes : nodeToPods'[m] = IF m = n THEN nodeToPods[m] \cup {p} ELSE nodeToPods[m]
  OBVIOUS
<1>4. ASSUME NEW q \in Pods, podToNode'[q] # NoNode
      PROVE  q \in nodeToPods'[podToNode'[q]]
  BY <1>2, <1>3, <1>4 DEF GraphIndexed
<1>5. ASSUME NEW q \in Pods, q \notin moved', NEW m \in Nodes, q \in nodeToPods'[m]
      PROVE  podToNode'[q] = m
  <2>1. q \notin moved
    BY <1>5
  <2>2. CASE q # p
    BY <1>2, <1>3, <1>5, <2>1, <2>2 DEF GraphIndexed
  <2>3. CASE q = p /\ m # n
    <3>1. podToNode[q] = m
      BY <1>3, <1>5, <2>1, <2>3 DEF GraphIndexed
    <3>2. m # NoNode
      BY GraphAssumption
    <3> QED
      BY <1>5, <2>3, <3>1, <3>2
  <2> QED
    BY <1>2, <2>2, <2>3
<1> QED
  BY <1>1, <1>4, <1>5 DEF GraphIndexed

\* Every lock section of the graph keeps its indices together.
LEMMA GraphStep == GraphInv /\ [GraphNext]_graphVars => GraphInv'
<1> SUFFICES ASSUME GraphInv, [GraphNext]_graphVars PROVE GraphInv'
  OBVIOUS
<1> USE DEF GraphInv, GraphTypeOK
<1>2. ASSUME NEW n \in Nodes, SyncNode(n) PROVE GraphInv'
  BY <1>2 DEF SyncNode, GraphIndexed
<1>3. ASSUME NEW p \in Pods, NEW n \in Nodes, SyncPod(p, n) PROVE GraphInv'
  BY <1>3, AddKeeps DEF SyncPod
<1>4. ASSUME NEW p \in Pods, NEW n \in Nodes, RegisterPod(p, n) PROVE GraphInv'
  BY <1>4, AddKeeps DEF RegisterPod
<1>5. ASSUME NEW p \in Pods, UnregisterPod(p) PROVE GraphInv'
  <2>1. /\ podToNode' \in [Pods -> Nodes \cup {NoNode}]
        /\ nodeToPods' \in [Nodes -> SUBSET Pods]
        /\ uses' \subseteq Pods \X Volumes
        /\ known' = known /\ adding' = adding /\ moved' = moved
    BY <1>5 DEF UnregisterPod
  <2>2. GraphIndexed'
    BY <1>5 DEF UnregisterPod, GraphIndexed
  <2> QED
    BY <2>1, <2>2
<1>6. ASSUME NEW v \in Volumes, SyncVolume(v) PROVE GraphInv'
  BY <1>6 DEF SyncVolume, GraphIndexed
<1>7. CASE SyncPodEnd
  BY <1>7 DEF SyncPodEnd, GraphIndexed
<1>8. CASE UNCHANGED graphVars
  BY <1>8 DEF graphVars, GraphIndexed
<1> QED
  BY <1>2, <1>3, <1>4, <1>5, <1>6, <1>7, <1>8 DEF GraphNext, GraphChange

\* What the other goroutines do leaves the graph alone.
LEMMA GraphFramed == [Next]_vars => [GraphNext]_graphVars
BY DEF Next, vars, Analysis, Scoring, AggregatorNext, aggregatorVars, UpdateGraph, TimePasses,
       Skip, Lookup, Record, FlushStart, FlushVisit, Analyse, FlushClear, FlushEnd, graphVars

\* However syncs and watch events are interleaved, the node a pod is said to run
\* on lists the pod, and no other node does unless the pod was put on a second node
\* before it was taken off the first.
THEOREM IndicesTogether == Spec => []GraphIndexed
<1>1. Init => GraphInv
  BY GraphStarts DEF Init, AggregatorInit
<1>2. GraphInv /\ [Next]_vars => GraphInv'
  BY GraphStep, GraphFramed
<1>3. GraphInv => GraphIndexed
  BY DEF GraphInv
<1> QED
  BY <1>1, <1>2, <1>3, PTL DEF Spec

-----------------------------------------------------------------------------
(* One iteration of flush.                                                 *)

PodsOf(q) == {q[i].pod : i \in DOMAIN q}

\* A sequence is about at most as many pods as it has entries, and about exactly
\* as many if no pod is repeated.
LEMMA PodsCounted ==
    ASSUME NEW E, NEW q \in Seq(E)
    PROVE  /\ IsFiniteSet(PodsOf(q)) /\ Cardinality(PodsOf(q)) \in Nat
           /\ Cardinality(PodsOf(q)) <= Len(q)
           /\ (\A i, j \in DOMAIN q : i # j => q[i].pod # q[j].pod) =>
                 Cardinality(PodsOf(q)) = Len(q)
<1> DEFINE f == [i \in DOMAIN q |-> q[i].pod]
           T == PodsOf(q)
<1>1. f \in Surjection(DOMAIN q, T)
  BY DEF Surjection, PodsOf
<1>2. DOMAIN q = 1 .. Len(q) /\ Len(q) \in Nat
  OBVIOUS
<1>3. IsFiniteSet(DOMAIN q) /\ Cardinality(DOMAIN q) = Len(q)
  <2>1. 1 \in Int /\ Len(q) \in Int
    BY <1>2
  <2>2. /\ IsFiniteSet(1 .. Len(q))
        /\ Cardinality(1 .. Len(q)) = IF 1 > Len(q) THEN 0 ELSE Len(q) - 1 + 1
    BY <2>1, FS_Interval
  <2> QED
    BY <1>2, <2>2
<1>4. /\ IsFiniteSet(T) /\ Cardinality(T) <= Cardinality(DOMAIN q)
      /\ Cardinality(T) = Cardinality(DOMAIN q) <=> f \in Injection(DOMAIN q, T)
  <2> HIDE DEF f, T
  <2> QED
    BY <1>1, <1>3, FS_Surjection
<1>5. (\A i, j \in DOMAIN q : i # j => q[i].pod # q[j].pod) => f \in Injection(DOMAIN q, T)
  <2> SUFFICES ASSUME \A i, j \in DOMAIN q : i # j => q[i].pod # q[j].pod
               PROVE  f \in Injection(DOMAIN q, T)
    OBVIOUS
  <2>1. f \in [DOMAIN q -> T]
    BY DEF PodsOf
  <2>2. \A i, j \in DOMAIN q : f[i] = f[j] => i = j
    OBVIOUS
  <2> HIDE DEF f, T
  <2> QED
    BY <2>1, <2>2 DEF Injection, IsInjective
<1>6. Cardinality(T) \in Nat
  BY <1>4, FS_CardinalityType
<1>7. Cardinality(T) <= Len(q)
  BY <1>3, <1>4
<1>8. (\A i, j \in DOMAIN q : i # j => q[i].pod # q[j].pod) => Cardinality(T) = Len(q)
  <2> HIDE DEF f, T
  <2> QED
    BY <1>3, <1>4, <1>5
<1> QED
  BY <1>4, <1>6, <1>7, <1>8

\* What an iteration makes of a window: the entries younger than the cutoff, the
\* first of each pod, and the window they leave behind.
Visited(q, cutoff, fresh, unique, left) ==
    /\ fresh \in Seq(Entries) /\ unique \in Seq(Entries) /\ left \in Seq(Entries)
    /\ \A i \in DOMAIN fresh :
          fresh[i].at > cutoff /\ \E j \in DOMAIN q : q[j] = fresh[i]
    /\ \A j \in DOMAIN q : q[j].at > cutoff => \E i \in DOMAIN fresh : q[j] = fresh[i]
    /\ \A k \in DOMAIN unique : \E i \in DOMAIN fresh : unique[k] = fresh[i]
    /\ \A i, j \in DOMAIN unique : i # j => unique[i].pod # unique[j].pod
    /\ PodsOf(unique) = PodsOf(fresh)
    /\ \A k \in DOMAIN left : \E i \in DOMAIN fresh : left[k] = fresh[i]
    /\ Len(unique) <= 1 => left = fresh

LEMMA VisitIs ==
    ASSUME NEW q \in Seq(Entries), NEW fresh, NEW unique, fresh = Fresh(q),
           unique = UniquePods(fresh)
    PROVE  Visited(q, flush.cutoff, fresh, unique, Overwritten(fresh, unique))
<1> DEFINE S == {i \in DOMAIN q : q[i].at > flush.cutoff}
           F == FirstOfPods(fresh)
           left == Overwritten(fresh, unique)
<1>1. fresh \in Seq(Entries) /\ Picks(q, S, fresh)
  <2>1. fresh = Picked(q, S) /\ S \subseteq DOMAIN q
    BY DEF Fresh
  <2> HIDE DEF S
  <2> QED
    BY <2>1, PickedIs
<1>2. unique \in Seq(Entries) /\ Picks(fresh, F, unique) /\ F \subseteq DOMAIN fresh
  <2>1. unique = Picked(fresh, F) /\ F \subseteq DOMAIN fresh
    BY DEF UniquePods, FirstOfPods
  <2> HIDE DEF F
  <2> QED
    BY <1>1, <2>1, PickedIs
<1>3. \A i \in DOMAIN fresh : fresh[i].at > flush.cutoff /\ \E j \in DOMAIN q : q[j] = fresh[i]
  BY <1>1 DEF Picks
<1>4. \A j \in DOMAIN q : q[j].at > flush.cutoff => \E i \in DOMAIN fresh : q[j] = fresh[i]
  BY <1>1 DEF Picks
<1> HIDE DEF S
<1>5. \A k \in DOMAIN unique : \E i \in DOMAIN fresh : unique[k] = fresh[i]
  <2> HIDE DEF F
  <2> QED
    BY <1>2 DEF Picks
<1>6. \A i, j \in F : i # j => fresh[i].pod # fresh[j].pod
  <2> SUFFICES ASSUME NEW i \in F, NEW j \in F, i < j PROVE fresh[i].pod # fresh[j].pod
    <3>1. \A i, j \in F : i \in Nat /\ j \in Nat
      BY <1>1, <1>2
    <3> HIDE DEF F
    <3> QED
      BY <3>1
  <2>1. i \in 1 .. j - 1
    BY <1>1, <1>2
  <2> QED
    BY <2>1 DEF FirstOfPods
<1>7. \A i, j \in DOMAIN unique : i # j => unique[i].pod # unique[j].pod
  <2> HIDE DEF F
  <2> SUFFICES ASSUME NEW i \in DOMAIN unique, NEW j \in DOMAIN unique, i # j
               PROVE  unique[i].pod # unique[j].pod
    OBVIOUS
  <2>1. /\ Nth(F, i) \in F /\ Nth(F, j) \in F /\ Nth(F, i) # Nth(F, j)
        /\ unique[i] = fresh[Nth(F, i)] /\ unique[j] = fresh[Nth(F, j)]
    BY <1>2 DEF Picks
  <2> QED
    BY <1>6, <2>1
<1>8. ASSUME NEW i \in DOMAIN fresh PROVE \E k \in DOMAIN unique : unique[k].pod = fresh[i].pod
  <2> DEFINE A == {h \in DOMAIN fresh : fresh[h].pod = fresh[i].pod}
  <2>1. A \subseteq Nat /\ A # {}
    BY <1>1
  <2>2. PICK h \in A : \A y \in A : h <= y
    <3> HIDE DEF A
    <3> QED
      BY <2>1, LeastNat
  <2>3. h \in F
    <3>1. \A l \in 1 .. h - 1 : l \in DOMAIN fresh /\ ~(h <= l)
      BY <1>1, <2>2
    <3> QED
      BY <2>2, <3>1 DEF FirstOfPods
  <2>4. PICK k \in DOMAIN unique : unique[k] = fresh[h]
    <3> HIDE DEF F
    <3> QED
      BY <1>2, <2>3 DEF Picks
  <2> QED
    BY <2>4
<1>9. PodsOf(unique) = PodsOf(fresh)
  BY <1>5, <1>8 DEF PodsOf
<1>10. Len(unique) <= Len(fresh)
  <2>1. Cardinality(PodsOf(unique)) = Len(unique)
    BY <1>2, <1>7, PodsCounted
  <2>2. Cardinality(PodsOf(fresh)) <= Len(fresh)
    BY <1>1, PodsCounted
  <2> QED
    BY <1>9, <2>1, <2>2
<1>11. /\ left = [i \in DOMAIN fresh |-> IF i <= Len(unique) THEN unique[i] ELSE fresh[i]]
       /\ DOMAIN fresh = 1 .. Len(fresh) /\ Len(fresh) \in Nat
       /\ DOMAIN unique = 1 .. Len(unique) /\ Len(unique) \in Nat
  BY <1>1, <1>2 DEF Overwritten
<1> HIDE DEF left
<1>12. ASSUME NEW k \in DOMAIN left PROVE \E i \in DOMAIN fresh : left[k] = fresh[i]
  <2>1. k \in DOMAIN fresh
    BY <1>11
  <2>2. CASE k <= Len(unique)
    <3>1. k \in DOMAIN unique /\ left[k] = unique[k]
      BY <1>11, <2>1, <2>2
    <3> QED
      BY <1>5, <3>1
  <2>3. CASE ~(k <= Len(unique))
    BY <1>11, <2>1, <2>3
  <2> QED
    BY <2>2, <2>3
<1>13. left \in Seq(Entries)
  <2>1. \A k \in 1 .. Len(fresh) : left[k] \in Entries
    <3> SUFFICES ASSUME NEW k \in 1 .. Len(fresh) PROVE left[k] \in Entries
      OBVIOUS
    <3>1. PICK i \in DOMAIN fresh : left[k] = fresh[i]
      BY <1>11, <1>12
    <3> QED
      BY <1>1, <3>1
  <2> QED
    BY <1>11, <2>1
<1>14. ASSUME Len(unique) <= 1 PROVE left = fresh
  <2>1. ASSUME NEW k \in DOMAIN fresh PROVE left[k] = fresh[k]
    <3>1. CASE k <= Len(unique)
      <4>1. k = 1 /\ Len(fresh) >= 1
        BY <1>11, <1>14, <2>1, <3>1
      <4>2. 1 \in F
        <5>1. 1 .. 1 - 1 = {}
          OBVIOUS
        <5> QED
          BY <2>1, <4>1, <5>1 DEF FirstOfPods
      <4>3. 0 \notin F
        BY <1>2, <1>11
      <4>4. unique[1] = fresh[1]
        <5> HIDE DEF F
        <5> QED
          BY <1>2, <4>2, <4>3 DEF Picks
      <4> QED
        BY <1>11, <2>1, <3>1, <4>1, <4>4
    <3>2. CASE ~(k <= Len(unique))
      BY <1>11, <2>1, <3>2
    <3> QED
      BY <3>1, <3>2
  <2>2. fresh = [k \in DOMAIN fresh |-> fresh[k]] /\ left = [k \in DOMAIN fresh |-> left[k]]
    BY <1>1, <1>11
  <2> QED
    BY <2>1, <2>2
<1> QED
  BY <1>1, <1>2, <1>3, <1>4, <1>5, <1>7, <1>9, <1>12, <1>13, <1>14 DEF Visited, left

-----------------------------------------------------------------------------
(* The types of the aggregator.                                            *)

Inboxes == [node : Nodes, pod : Pods, signals : SignalSets, at : Nat, name : Nodes \cup {NoNode}]
Waiting == [pod : Pods, at : Nat, late : BOOLEAN, joined : BOOLEAN]
Flushes == [cutoff : Int, due : SUBSET Nodes, seen : SUBSET Nodes, node : Nodes \cup {NoNode}]

\* The cutoff of a flush is never ahead of the window at the present moment.
AggTyped ==
    /\ now \in Nat
    /\ GraphTypeOK
    /\ inbox = NoEntry \/ inbox \in Inboxes
    /\ windows \in [Nodes -> Seq(Entries)]
    /\ incident \in Seq(Entries)
    /\ pending \in [Nodes -> SUBSET Waiting]
    /\ flush \in Flushes
    /\ pc \in {"idle", "flush", "classify", "clear"}
    /\ pc = "idle" => flush = NotFlushing
    /\ pc # "idle" => flush.cutoff <= now - AggregationWindow
    /\ pc \in {"classify", "clear"} <=> flush.node \in Nodes

LEMMA AggTypedInit == AggregatorInit => AggTyped
<1> SUFFICES ASSUME AggregatorInit PROVE AggTyped
  OBVIOUS
<1>1. GraphTypeOK
  BY GraphStarts DEF AggregatorInit, GraphInv
<1>2. flush \in Flushes /\ flush.node \notin Nodes
  BY GraphAssumption DEF AggregatorInit, NotFlushing, Flushes, NoTime
<1>3. windows \in [Nodes -> Seq(Entries)] /\ pending \in [Nodes -> SUBSET Waiting]
  BY DEF AggregatorInit
<1>4. incident \in Seq(Entries)
  BY DEF AggregatorInit, NoIncident
<1>5. now \in Nat /\ inbox = NoEntry /\ pc = "idle" /\ flush = NotFlushing
  BY DEF AggregatorInit, ClockInit
<1> QED
  BY <1>1, <1>2, <1>3, <1>4, <1>5 DEF AggTyped

\* The entry an anomaly is turned into.
LEMMA EntryTyped ==
    ASSUME AggTyped, inbox # NoEntry
    PROVE  /\ inbox \in Inboxes /\ inbox.node \in Nodes /\ Entry(inbox) \in Entries
           /\ Entry(inbox).pod = inbox.pod /\ Entry(inbox).at = inbox.at
           /\ [pod |-> inbox.pod, at |-> inbox.at, late |-> pc # "idle",
               joined |-> flush.node = inbox.node] \in Waiting
<1>1. inbox \in Inboxes
  BY DEF AggTyped
<1>2. /\ inbox.node \in Nodes /\ inbox.pod \in Pods /\ inbox.at \in Nat
      /\ inbox.signals \in SignalSets /\ inbox.name \in Nodes \cup {NoNode}
  BY <1>1 DEF Inboxes
<1>3. Entry(inbox) \in Entries
  BY <1>2 DEF Entry, Entries, Instants
<1>4. (pc # "idle") \in BOOLEAN /\ (flush.node = inbox.node) \in BOOLEAN
  OBVIOUS
<1>5. \A b, c \in BOOLEAN : [pod |-> inbox.pod, at |-> inbox.at, late |-> b, joined |-> c] \in Waiting
  BY <1>2 DEF Waiting
<1>6. [pod |-> inbox.pod, at |-> inbox.at, late |-> pc # "idle",
       joined |-> flush.node = inbox.node] \in Waiting
  BY <1>4, <1>5
<1>7. Entry(inbox).pod = inbox.pod /\ Entry(inbox).at = inbox.at
  BY DEF Entry
<1> QED
  BY <1>1, <1>2, <1>3, <1>6, <1>7

\* What flush makes of the window of n.
LEMMA VisitTyped ==
    ASSUME AggTyped, NEW n \in Nodes, NEW fresh, NEW unique, fresh = Fresh(windows[n]),
           unique = UniquePods(fresh)
    PROVE  Visited(windows[n], flush.cutoff, fresh, unique, Overwritten(fresh, unique))
<1>1. windows[n] \in Seq(Entries)
  BY DEF AggTyped
<1> QED
  BY <1>1, VisitIs

\* One iteration of the loop, by its outcome.
VisitStep(n, fresh, unique, left) ==
    /\ pc = "flush" /\ Present(n)
    /\ Visited(windows[n], flush.cutoff, fresh, unique, left)
    /\ windows' = [windows EXCEPT ![n] = left]
    /\ \/ /\ Len(unique) < MinPodsThreshold
          /\ flush'.due = flush.due \ {n} /\ flush'.node = flush.node
          /\ UNCHANGED <<pc, incident, pending>>
       \/ /\ Len(unique) >= MinPodsThreshold
          /\ flush'.due = flush.due \ {n} /\ flush'.node = n
          /\ incident' = unique
          /\ pending' = [pending EXCEPT ![n] = {}]
          /\ pc' = "classify"
    /\ flush' \in Flushes /\ flush'.cutoff = flush.cutoff
    /\ UNCHANGED <<now, graphVars, inbox, received, event>>

LEMMA VisitSplit ==
    ASSUME AggTyped, NEW n \in Nodes, FlushVisit(n)
    PROVE  \E fresh, unique, left : VisitStep(n, fresh, unique, left)
<1> DEFINE fresh == Fresh(windows[n])
           unique == UniquePods(fresh)
           left == Overwritten(fresh, unique)
<1>1. Visited(windows[n], flush.cutoff, fresh, unique, left)
  BY VisitTyped
<1>2. FlushQuiet(n, fresh, unique) \/ FlushReport(n, fresh, unique)
  BY DEF FlushVisit
<1>3. pc = "flush" /\ Present(n) /\ UNCHANGED <<now, graphVars, inbox, received, event>>
  BY DEF FlushVisit
<1>4. flush = [cutoff |-> flush.cutoff, due |-> flush.due, seen |-> flush.seen, node |-> flush.node]
      /\ flush.cutoff \in Int /\ flush.due \in SUBSET Nodes /\ flush.seen \in SUBSET Nodes
      /\ flush.node \in Nodes \cup {NoNode}
  BY DEF AggTyped, Flushes
<1>5. CASE FlushQuiet(n, fresh, unique)
  <2> HIDE DEF fresh, unique
  <2>1. /\ Len(unique) < MinPodsThreshold
        /\ windows' = [windows EXCEPT ![n] = left]
        /\ UNCHANGED <<pc, incident, pending>>
    BY <1>5 DEF FlushQuiet
  <2>2. PICK s \in SUBSET Nodes :
           flush' = [cutoff |-> flush.cutoff, due |-> flush.due \ {n}, seen |-> s, node |-> flush.node]
    <3>1. CASE fresh = <<>>
      <4>1. flush' = [flush EXCEPT !.due = @ \ {n}, !.seen = flush.seen]
        BY <1>5, <3>1 DEF FlushQuiet
      <4> QED
        BY <1>4, <4>1
    <3>2. CASE fresh # <<>>
      <4>1. flush' = [flush EXCEPT !.due = @ \ {n}, !.seen = flush.seen \cup {n}]
        BY <1>5, <3>2 DEF FlushQuiet
      <4>2. flush.seen \cup {n} \in SUBSET Nodes
        BY <1>4
      <4> QED
        BY <1>4, <4>1, <4>2
    <3> QED
      BY <3>1, <3>2
  <2>3. /\ flush' \in Flushes /\ flush'.cutoff = flush.cutoff
        /\ flush'.due = flush.due \ {n} /\ flush'.node = flush.node
    BY <1>4, <2>2 DEF Flushes
  <2> HIDE DEF left
  <2> QED
    BY <1>1, <1>3, <2>1, <2>3 DEF VisitStep
<1>6. CASE FlushReport(n, fresh, unique)
  <2> HIDE DEF fresh, unique
  <2>1. /\ Len(unique) >= MinPodsThreshold
        /\ windows' = [windows EXCEPT ![n] = left]
        /\ flush' = [flush EXCEPT !.due = @ \ {n}, !.node = n]
        /\ incident' = unique
        /\ pending' = [pending EXCEPT ![n] = {}]
        /\ pc' = "classify"
    BY <1>6 DEF FlushReport
  <2>2. flush' = [cutoff |-> flush.cutoff, due |-> flush.due \ {n}, seen |-> flush.seen, node |-> n]
    BY <1>4, <2>1
  <2>3. /\ flush' \in Flushes /\ flush'.cutoff = flush.cutoff
        /\ flush'.due = flush.due \ {n} /\ flush'.node = n
    BY <1>4, <2>2 DEF Flushes
  <2> HIDE DEF left
  <2> QED
    BY <1>1, <1>3, <2>1, <2>3 DEF VisitStep
<1> QED
  BY <1>2, <1>5, <1>6

\* A record with one field changed, written out.
LEMMA LateCleared ==
    ASSUME NEW f \in Waiting, NEW x
    PROVE  [f EXCEPT !.late = x] = [pod |-> f.pod, at |-> f.at, late |-> x, joined |-> f.joined]
<1>1. \E p, a, l, j : f = [pod |-> p, at |-> a, late |-> l, joined |-> j]
  BY DEF Waiting
<1> QED
  BY <1>1

\* FlushStart, with the records written out.
Kept(n) == {[pod |-> f.pod, at |-> f.at, late |-> FALSE, joined |-> f.joined] :
               f \in {g \in pending[n] : g.at > now - AggregationWindow}}

LEMMA StartSplit ==
    ASSUME AggTyped, FlushStart
    PROVE  /\ pc = "idle" /\ pc' = "flush" /\ flush = NotFlushing
           /\ flush' = [cutoff |-> now - AggregationWindow, due |-> {n \in Nodes : Present(n)},
                        seen |-> {}, node |-> NoNode]
           /\ pending' = [n \in Nodes |-> Kept(n)]
           /\ \A n \in Nodes : Kept(n) \in SUBSET Waiting
           /\ UNCHANGED <<now, graphVars, inbox, received, windows, incident, event>>
<1>1. /\ pc = "idle" /\ pc' = "flush" /\ flush = NotFlushing
      /\ UNCHANGED <<now, graphVars, inbox, received, windows, incident, event>>
  BY DEF FlushStart, AggTyped
<1>2. flush' = [cutoff |-> now - AggregationWindow, due |-> {n \in Nodes : Present(n)},
                seen |-> {}, node |-> NoNode]
  BY DEF FlushStart, NotFlushing
<1>3. ASSUME NEW f \in Waiting
      PROVE  /\ [f EXCEPT !.late = FALSE]
                   = [pod |-> f.pod, at |-> f.at, late |-> FALSE, joined |-> f.joined]
             /\ [pod |-> f.pod, at |-> f.at, late |-> FALSE, joined |-> f.joined] \in Waiting
  <2>1. [f EXCEPT !.late = FALSE] = [pod |-> f.pod, at |-> f.at, late |-> FALSE, joined |-> f.joined]
    BY LateCleared, Zenon
  <2>2. [pod |-> f.pod, at |-> f.at, late |-> FALSE, joined |-> f.joined] \in Waiting
    BY DEF Waiting
  <2> QED
    BY <2>1, <2>2
<1>4. ASSUME NEW n \in Nodes
      PROVE  {[e EXCEPT !.late = FALSE] : e \in {f \in pending[n] : f.at > now - AggregationWindow}}
                = Kept(n) /\ Kept(n) \in SUBSET Waiting
  <2>1. pending[n] \subseteq Waiting
    BY DEF AggTyped
  <2> QED
    BY <1>3, <2>1 DEF Kept
<1>5. pending' = [n \in Nodes |-> Kept(n)]
  BY <1>4 DEF FlushStart
<1> QED
  BY <1>1, <1>2, <1>4, <1>5

\* Every step of the aggregator keeps the types.
LEMMA AggTypedStep ==
    ASSUME AggTyped, GraphTypeOK', AggregatorNext
    PROVE  AggTyped'
<1>0. AggregationWindow \in Nat /\ MinPodsThreshold \in Nat \ {0}
  BY AggregatorAssumption
<1>1. ASSUME NEW p \in Pods, NEW signals \in SignalSets, Lookup(p, signals) PROVE AggTyped'
  <2>1. podToNode[p] \in Nodes
    BY <1>1 DEF Lookup, AggTyped, GraphTypeOK
  <2>2. inbox' \in Inboxes
    BY <1>1, <2>1 DEF Lookup, Inboxes, AggTyped
  <2> QED
    BY <1>1, <2>2 DEF Lookup, AggTyped
<1>2. ASSUME NEW p \in Pods, Skip(p) PROVE AggTyped'
  BY <1>2 DEF Skip, AggTyped
<1>3. CASE Record
  <2>1. inbox.node \in Nodes /\ Entry(inbox) \in Entries
        /\ [pod |-> inbox.pod, at |-> inbox.at, late |-> pc # "idle",
            joined |-> flush.node = inbox.node] \in Waiting
    BY <1>3, EntryTyped DEF Record
  <2>2. windows' \in [Nodes -> Seq(Entries)]
    BY <1>3, <2>1 DEF Record, AggTyped
  <2>3. pending' \in [Nodes -> SUBSET Waiting]
    BY <1>3, <2>1 DEF Record, AggTyped
  <2>4. inbox' = NoEntry /\ UNCHANGED <<now, pc, flush, incident>>
    BY <1>3 DEF Record
  <2> QED
    BY <2>2, <2>3, <2>4 DEF AggTyped
<1>4. CASE FlushStart
  <2>1. /\ pc' = "flush"
        /\ flush' = [cutoff |-> now - AggregationWindow, due |-> {n \in Nodes : Present(n)},
                     seen |-> {}, node |-> NoNode]
        /\ pending' = [n \in Nodes |-> Kept(n)]
        /\ \A n \in Nodes : Kept(n) \in SUBSET Waiting
        /\ UNCHANGED <<now, graphVars, inbox, received, windows, incident, event>>
    BY <1>4, StartSplit
  <2>2. now - AggregationWindow \in Int
    BY <1>0 DEF AggTyped
  <2>3. flush' \in Flushes /\ flush'.cutoff <= now' - AggregationWindow /\ flush'.node \notin Nodes
    BY <2>1, <2>2, GraphAssumption DEF Flushes
  <2>4. pending' \in [Nodes -> SUBSET Waiting]
    BY <2>1
  <2> QED
    BY <2>1, <2>3, <2>4 DEF AggTyped
<1>5. ASSUME NEW n \in Nodes, FlushVisit(n) PROVE AggTyped'
  <2>1. PICK fresh, unique, left : VisitStep(n, fresh, unique, left)
    BY <1>5, VisitSplit
  <2>2. left \in Seq(Entries) /\ unique \in Seq(Entries)
    BY <2>1 DEF VisitStep, Visited
  <2>3. windows' \in [Nodes -> Seq(Entries)]
    BY <2>1, <2>2 DEF VisitStep, AggTyped
  <2>4. incident' \in Seq(Entries) /\ pending' \in [Nodes -> SUBSET Waiting]
    BY <2>1, <2>2 DEF VisitStep, AggTyped
  <2>5. flush' \in Flushes /\ flush'.cutoff = flush.cutoff /\ now' = now /\ inbox' = inbox
    BY <2>1 DEF VisitStep
  <2>6. /\ pc' \in {"idle", "flush", "classify", "clear"} /\ pc' # "idle" /\ pc # "idle"
        /\ pc' \in {"classify", "clear"} <=> flush'.node \in Nodes
    BY <2>1 DEF VisitStep, AggTyped
  <2> QED
    BY <2>3, <2>4, <2>5, <2>6 DEF AggTyped
<1>6. CASE Analyse
  <2>1. incident' \in Seq(Entries)
    BY <1>6 DEF Analyse, NoIncident
  <2> QED
    BY <1>6, <2>1 DEF Analyse, AggTyped
<1>7. CASE FlushClear
  <2>1. flush' = [flush EXCEPT !.node = NoNode] /\ pc = "clear" /\ pc' = "flush"
        /\ windows' = [windows EXCEPT ![flush.node] = <<>>]
        /\ UNCHANGED <<now, inbox, incident, pending>>
    BY <1>7 DEF FlushClear
  <2>2. flush' \in Flushes /\ flush'.cutoff = flush.cutoff /\ flush'.node = NoNode
    BY <2>1 DEF AggTyped, Flushes
  <2>3. windows' \in [Nodes -> Seq(Entries)]
    BY <2>1 DEF AggTyped
  <2> QED
    BY <2>1, <2>2, <2>3, GraphAssumption DEF AggTyped
<1>8. CASE FlushEnd
  <2>1. pc' = "idle" /\ flush' = NotFlushing
        /\ UNCHANGED <<now, inbox, windows, incident, pending>>
    BY <1>8 DEF FlushEnd
  <2>2. flush' \in Flushes /\ flush'.node \notin Nodes
    BY <2>1, GraphAssumption DEF NotFlushing, Flushes, NoTime
  <2> QED
    BY <2>1, <2>2 DEF AggTyped
<1>9. CASE UpdateGraph
  BY <1>9 DEF UpdateGraph, aggVars, AggTyped
<1>10. CASE TimePasses
  <2>1. now' = now + 1 /\ UNCHANGED <<graphVars, aggVars>>
    BY <1>10 DEF TimePasses, Tick
  <2>2. flush.cutoff \in Int
    BY DEF AggTyped, Flushes
  <2>3. now' \in Nat /\ (pc # "idle" => flush.cutoff <= now' - AggregationWindow)
    BY <1>0, <2>1, <2>2 DEF AggTyped
  <2> QED
    BY <2>1, <2>3 DEF AggTyped, aggVars
<1> QED
  BY <1>1, <1>2, <1>3, <1>4, <1>5, <1>6, <1>7, <1>8, <1>9, <1>10 DEF AggregatorNext

\* The same with the scorer's steps, which leave the aggregator alone.
AggInv == GraphInv /\ AggTyped

LEMMA AggInvInit == Init => AggInv
BY GraphStarts, AggTypedInit DEF Init, AggInv, AggregatorInit

\* A step that is none of the aggregator's changes none of its variables.
LEMMA OtherSteps ==
    ASSUME AggInv, [Next]_vars, ~AggregatorNext
    PROVE  /\ UNCHANGED <<graphVars, aggVars>>
           /\ now' = now \/ now' = now + 1
<1>1. CASE Scoring
  <2>1. UNCHANGED <<graphVars, aggVars>> /\ ScorerNext
    BY <1>1 DEF Scoring
  <2>2. now' = now \/ now' = now + 1
    BY <2>1 DEF ScorerNext, RecordAnomaly, RecordOutcome, DecayAll, ScanStart, ScanElement,
                ScanEnd, Tick
  <2> QED
    BY <2>1, <2>2
<1>2. CASE UNCHANGED vars
  BY <1>2 DEF vars, aggregatorVars
<1> QED
  BY <1>1, <1>2 DEF Next, Analysis

LEMMA AggInvStep == AggInv /\ [Next]_vars => AggInv'
<1> SUFFICES ASSUME AggInv, [Next]_vars PROVE AggInv'
  OBVIOUS
<1>1. GraphInv'
  BY GraphStep, GraphFramed DEF AggInv
<1>2. CASE AggregatorNext
  BY <1>1, <1>2, AggTypedStep DEF AggInv, GraphInv
<1>3. CASE ~AggregatorNext
  <2>1. UNCHANGED <<graphVars, aggVars>> /\ (now' = now \/ now' = now + 1)
    BY <1>3, OtherSteps
  <2>2. flush.cutoff \in Int /\ now \in Nat /\ AggregationWindow \in Nat
    BY AggregatorAssumption DEF AggInv, AggTyped, Flushes
  <2>3. now' \in Nat /\ (pc # "idle" => flush.cutoff <= now' - AggregationWindow)
    BY <2>1, <2>2 DEF AggInv, AggTyped
  <2> QED
    BY <1>1, <2>1, <2>3 DEF AggInv, AggTyped, aggVars, GraphInv
<1> QED
  BY <1>2, <1>3

-----------------------------------------------------------------------------
(* Attribution.                                                            *)

Majority(q) ==
    \E i \in DOMAIN RootCausePatterns :
        /\ RootCausePatterns[i].action = "cordon_node"
        /\ \A s \in RootCausePatterns[i].signals :
              10 * Cardinality({j \in DOMAIN q : s \in q[j].signals}) > 6 * Cardinality(PodsOf(q))

\* The pattern that is chosen is one that matches: the last one always does.
LEMMA PatternMatches ==
    ASSUME NEW q
    PROVE  \E i \in DOMAIN RootCausePatterns :
              /\ MatchedPattern(q) = RootCausePatterns[i]
              /\ PatternMatchesMajority(RootCausePatterns[i].signals, q)
<1> DEFINE matching == {i \in DOMAIN RootCausePatterns :
                           PatternMatchesMajority(RootCausePatterns[i].signals, q)}
<1>1. DOMAIN RootCausePatterns = 1 .. 5 /\ RootCausePatterns[5].signals = {}
  BY DEF RootCausePatterns, Pattern
<1>2. 5 \in matching /\ matching \subseteq Nat
  BY <1>1 DEF PatternMatchesMajority
<1>3. MatchedPattern(q) = RootCausePatterns[CHOOSE i \in matching : \A j \in matching : i <= j]
  BY DEF MatchedPattern
<1>4. \E i \in matching : \A j \in matching : i <= j
  <2> HIDE DEF matching
  <2> QED
    BY <1>2, LeastNat
<1>5. PICK i \in matching : MatchedPattern(q) = RootCausePatterns[i]
  <2> HIDE DEF matching
  <2> QED
    BY <1>3, <1>4
<1> QED
  BY <1>5

\* Sixty percent, rounded down, plus one is more than sixty percent.
LEMMA MoreThanSixty ==
    ASSUME NEW a \in Nat, NEW n \in Nat, NEW p \in Nat, p <= n, a >= (n * 6) \div 10 + 1
    PROVE  10 * a > 6 * p
<1>1. (n * 6) \div 10 \in Int /\ 10 * ((n * 6) \div 10) + 10 > n * 6
  OBVIOUS
<1> QED
  BY <1>1

LEMMA CordonMajority ==
    ASSUME NEW E, NEW q \in Seq(E), NEW shared, Classify(q, shared).action = "cordon_node"
    PROVE  Majority(q)
<1>1. PICK i \in DOMAIN RootCausePatterns :
         /\ MatchedPattern(q) = RootCausePatterns[i]
         /\ PatternMatchesMajority(RootCausePatterns[i].signals, q)
  BY PatternMatches
<1>2. RootCausePatterns[i].action = "cordon_node"
  BY <1>1 DEF Classify
<1>3. ASSUME NEW s \in RootCausePatterns[i].signals
      PROVE  10 * Cardinality({j \in DOMAIN q : s \in q[j].signals}) > 6 * Cardinality(PodsOf(q))
  <2> DEFINE A == {j \in DOMAIN q : s \in q[j].signals}
             a == Cardinality(A)
             p == Cardinality(PodsOf(q))
  <2>1. a >= (Len(q) * 6) \div 10 + 1
    BY <1>1 DEF PatternMatchesMajority, SignalCount
  <2>2. Len(q) \in Nat /\ p \in Nat /\ p <= Len(q)
    BY PodsCounted
  <2>3. a \in Nat
    <3>1. A \subseteq 1 .. Len(q) /\ 1 \in Int /\ Len(q) \in Int
      OBVIOUS
    <3>2. IsFiniteSet(1 .. Len(q))
      BY <3>1, FS_Interval
    <3> HIDE DEF A
    <3> QED
      BY <3>1, <3>2, FS_Subset, FS_CardinalityType
  <2> HIDE DEF a, p
  <2>4. 10 * a > 6 * p
    BY <2>1, <2>2, <2>3, MoreThanSixty
  <2> QED
    BY <2>4 DEF a, p
<1> QED
  BY <1>2, <1>3 DEF Majority

\* Whatever arrived and was recorded while the window was flushed, a node is
\* cordoned only for a cause whose signals are each shown by more than 60% of the
\* pods of the incident.
THEOREM CordonsHaveMajority == Spec => []CordonNeedsMajority
<1>1. Init => CordonNeedsMajority
  BY DEF Init, AggregatorInit, NoEvent, CordonNeedsMajority
<1>2. AggInv /\ CordonNeedsMajority /\ [Next]_vars => CordonNeedsMajority'
  <2> SUFFICES ASSUME AggInv, CordonNeedsMajority, [Next]_vars PROVE CordonNeedsMajority'
    OBVIOUS
  <2>1. CASE Analyse
    <3> DEFINE shared == SharedVolumes(IncidentPods)
    <3>1. event' = Classify(incident, shared) /\ incident \in Seq(Entries)
      BY <2>1 DEF Analyse, AggInv, AggTyped
    <3>2. event'.about = incident
      BY <3>1 DEF Classify
    <3> HIDE DEF shared
    <3>3. ASSUME event'.action = "cordon_node" PROVE Majority(event'.about)
      <4>1. Classify(incident, shared).action = "cordon_node"
        BY <3>1, <3>3
      <4> QED
        BY <3>1, <3>2, <4>1, CordonMajority
    <3> QED
      BY <3>3 DEF Majority, PodsOf, CordonNeedsMajority
  <2>2. CASE UNCHANGED event
    BY <2>2 DEF CordonNeedsMajority
  <2>3. Analyse \/ UNCHANGED event
    <3>1. CASE AggregatorNext
      BY <3>1 DEF AggregatorNext, Skip, Lookup, Record, FlushStart, FlushVisit, FlushClear,
                  FlushEnd, UpdateGraph, TimePasses, aggVars
    <3>2. CASE ~AggregatorNext
      BY <3>2, OtherSteps DEF aggVars
    <3> QED
      BY <3>1, <3>2
  <2> QED
    BY <2>1, <2>2, <2>3
<1> QED
  BY <1>1, <1>2, AggInvInit, AggInvStep, PTL DEF Spec

-----------------------------------------------------------------------------
(* Incidents are sound.                                                    *)

MatchIn(P, x) == \E e \in P : e.pod = x.pod /\ e.at = x.at

\* An entry of a window stands for an anomaly that was not reported, unless it
\* has expired and the flush is still to visit it, or the window is the one whose
\* incident is being handled.
EntriesMatched ==
    \A n \in Nodes : \A i \in DOMAIN windows[n] :
        \/ MatchIn(pending[n], windows[n][i])
        \/ n \in flush.due /\ windows[n][i].at <= flush.cutoff
        \/ flush.node = n

LEMMA MatchedInit == Init => EntriesMatched
BY DEF Init, AggregatorInit, EntriesMatched

\* A step that changes nothing the invariant speaks of.
LEMMA MatchedFramed ==
    ASSUME EntriesMatched, UNCHANGED <<windows, pending, flush>>
    PROVE  EntriesMatched'
BY DEF EntriesMatched, MatchIn

LEMMA MatchedStep ==
    ASSUME AggTyped, EntriesMatched, AggregatorNext
    PROVE  EntriesMatched'
<1>1. CASE Record
  <2> DEFINE m == inbox.node
             e == [pod |-> inbox.pod, at |-> inbox.at, late |-> pc # "idle",
                   joined |-> flush.node = inbox.node]
  <2>1. m \in Nodes /\ Entry(inbox).pod = inbox.pod /\ Entry(inbox).at = inbox.at
    BY <1>1, EntryTyped DEF Record
  <2>2. /\ windows' = [windows EXCEPT ![m] = Append(windows[m], Entry(inbox))]
        /\ pending' = [pending EXCEPT ![m] = pending[m] \cup {e}]
        /\ flush' = flush
    BY <1>1 DEF Record
  <2>3. e.pod = inbox.pod /\ e.at = inbox.at
    OBVIOUS
  <2> HIDE DEF e, m
  <2> SUFFICES ASSUME NEW n \in Nodes, NEW i \in DOMAIN windows'[n]
               PROVE  \/ MatchIn(pending'[n], windows'[n][i])
                      \/ n \in flush.due /\ windows'[n][i].at <= flush.cutoff
                      \/ flush.node = n
    BY <2>2 DEF EntriesMatched
  <2>4. pending[n] \subseteq pending'[n]
    BY <2>1, <2>2 DEF AggTyped
  <2>5. CASE i \in DOMAIN windows[n] /\ windows'[n][i] = windows[n][i]
    BY <2>4, <2>5 DEF EntriesMatched, MatchIn
  <2>6. CASE n = m /\ windows'[n][i] = Entry(inbox)
    <3>1. e \in pending'[n]
      BY <2>1, <2>2, <2>6 DEF AggTyped
    <3> QED
      BY <2>1, <2>3, <2>6, <3>1 DEF MatchIn
  <2>7. \/ i \in DOMAIN windows[n] /\ windows'[n][i] = windows[n][i]
        \/ n = m /\ windows'[n][i] = Entry(inbox)
    <3>1. CASE n # m
      BY <2>1, <2>2, <3>1 DEF AggTyped
    <3>2. CASE n = m
      <4>1. windows'[n] = Append(windows[n], Entry(inbox)) /\ windows[n] \in Seq(Entries)
        BY <2>1, <2>2, <3>2 DEF AggTyped
      <4> QED
        BY <3>2, <4>1
    <3> QED
      BY <3>1, <3>2
  <2> QED
    BY <2>5, <2>6, <2>7
<1>2. CASE FlushStart
  <2>1. /\ pc = "idle" /\ flush = NotFlushing
        /\ flush' = [cutoff |-> now - AggregationWindow, due |-> {n \in Nodes : Present(n)},
                     seen |-> {}, node |-> NoNode]
        /\ pending' = [n \in Nodes |-> Kept(n)]
        /\ windows' = windows
    BY <1>2, StartSplit
  <2> SUFFICES ASSUME NEW n \in Nodes, NEW i \in DOMAIN windows[n]
               PROVE  \/ \E e \in Kept(n) : e.pod = windows[n][i].pod /\ e.at = windows[n][i].at
                      \/ Present(n) /\ windows[n][i].at <= now - AggregationWindow
    BY <2>1 DEF EntriesMatched, MatchIn
  <2>2. flush.due = {} /\ flush.node = NoNode
    BY <2>1 DEF NotFlushing
  <2>3. PICK e \in pending[n] : e.pod = windows[n][i].pod /\ e.at = windows[n][i].at
    BY <2>2, GraphAssumption DEF EntriesMatched, MatchIn
  <2>4. Present(n)
    BY DEF Present
  <2>5. e \in Waiting /\ now - AggregationWindow \in Int
    BY AggregatorAssumption DEF AggTyped
  <2>6. e.at \in Nat
    BY <2>5 DEF Waiting
  <2>7. CASE e.at > now - AggregationWindow
    <3> DEFINE g == [pod |-> e.pod, at |-> e.at, late |-> FALSE, joined |-> e.joined]
    <3>1. g \in Kept(n)
      BY <2>7 DEF Kept
    <3>2. g.pod = e.pod /\ g.at = e.at
      OBVIOUS
    <3> HIDE DEF g
    <3> QED
      BY <2>3, <3>1, <3>2
  <2>8. CASE ~(e.at > now - AggregationWindow)
    BY <2>3, <2>4, <2>5, <2>6, <2>8
  <2> QED
    BY <2>7, <2>8
<1>3. ASSUME NEW m \in Nodes, FlushVisit(m) PROVE EntriesMatched'
  <2>1. PICK fresh, unique, left : VisitStep(m, fresh, unique, left)
    BY <1>3, VisitSplit
  <2> SUFFICES ASSUME NEW n \in Nodes, NEW i \in DOMAIN windows'[n]
               PROVE  \/ MatchIn(pending'[n], windows'[n][i])
                      \/ n \in flush'.due /\ windows'[n][i].at <= flush'.cutoff
                      \/ flush'.node = n
    BY DEF EntriesMatched
  <2>2. flush.node \notin Nodes /\ windows' = [windows EXCEPT ![m] = left]
        /\ flush'.due = flush.due \ {m} /\ flush'.cutoff = flush.cutoff
    BY <2>1 DEF VisitStep, AggTyped
  <2>3. CASE n # m
    <3>1. windows'[n] = windows[n] /\ pending'[n] = pending[n]
      BY <2>1, <2>3 DEF VisitStep, AggTyped
    <3>2. \/ MatchIn(pending[n], windows[n][i])
          \/ n \in flush.due /\ windows[n][i].at <= flush.cutoff
      BY <2>2, <3>1 DEF EntriesMatched
    <3> QED
      BY <2>2, <2>3, <3>1, <3>2 DEF MatchIn
  <2>4. CASE n = m
    <3>1. windows'[m] = left
      BY <2>2 DEF AggTyped
    <3>2. PICK j \in DOMAIN windows[m] : windows[m][j] = left[i] /\ left[i].at > flush.cutoff
      <4>1. PICK k \in DOMAIN fresh : left[i] = fresh[k]
        BY <2>1, <2>4, <3>1 DEF VisitStep, Visited
      <4> QED
        BY <2>1, <4>1 DEF VisitStep, Visited
    <3>3. left[i].at \in Nat /\ flush.cutoff \in Int
      <4>1. windows[m] \in Seq(Entries)
        BY DEF AggTyped
      <4>2. windows[m][j] \in Entries
        BY <4>1
      <4> QED
        BY <3>2, <4>2 DEF Entries, Instants, AggTyped, Flushes
    <3>4. MatchIn(pending[m], left[i])
      BY <2>2, <3>2, <3>3 DEF EntriesMatched
    <3> QED
      BY <2>1, <2>4, <3>1, <3>4 DEF VisitStep, MatchIn
  <2> QED
    BY <2>3, <2>4
<1>4. CASE FlushClear
  <2>1. /\ windows' = [windows EXCEPT ![flush.node] = <<>>] /\ flush.node \in Nodes
        /\ flush' = [flush EXCEPT !.node = NoNode] /\ pending' = pending
    BY <1>4 DEF FlushClear, AggTyped
  <2>2. flush'.due = flush.due /\ flush'.cutoff = flush.cutoff
    BY <2>1 DEF AggTyped, Flushes
  <2> SUFFICES ASSUME NEW n \in Nodes, NEW i \in DOMAIN windows'[n]
               PROVE  \/ MatchIn(pending'[n], windows'[n][i])
                      \/ n \in flush'.due /\ windows'[n][i].at <= flush'.cutoff
    BY DEF EntriesMatched
  <2>3. n # flush.node /\ windows'[n] = windows[n]
    BY <2>1 DEF AggTyped
  <2> QED
    BY <2>1, <2>2, <2>3 DEF EntriesMatched, MatchIn
<1>5. CASE FlushEnd
  <2>1. /\ pc = "flush" /\ windows' = windows /\ pending' = pending
        /\ \A n \in flush.due : windows[n] = <<>>
    BY <1>5 DEF FlushEnd, Present
  <2>2. flush.node \notin Nodes
    BY <2>1 DEF AggTyped
  <2> QED
    BY <2>1, <2>2 DEF EntriesMatched, MatchIn
<1>6. CASE UNCHANGED <<windows, pending, flush>>
  BY <1>6, MatchedFramed
<1> QED
  BY <1>1, <1>2, <1>3, <1>4, <1>5, <1>6
  DEF AggregatorNext, Lookup, Skip, Analyse, UpdateGraph, TimePasses, aggVars

\* What may be reported.
Reportable ==
    LET n == flush'.node
    IN /\ Cardinality({incident'[i].pod : i \in DOMAIN incident'}) >= MinPodsThreshold
       /\ \A i, j \in DOMAIN incident' : i # j => incident'[i].pod # incident'[j].pod
       /\ \A i \in DOMAIN incident' :
             /\ incident'[i].at > flush'.cutoff
             /\ \E e \in pending[n] : e.pod = incident'[i].pod /\ e.at = incident'[i].at

LEMMA ReportSound ==
    ASSUME AggTyped, EntriesMatched, NEW n \in Nodes, FlushVisit(n), pc' = "classify"
    PROVE  Reportable
<1>1. PICK fresh, unique, left : VisitStep(n, fresh, unique, left)
  BY VisitSplit
<1>2. /\ flush'.node = n /\ incident' = unique /\ Len(unique) >= MinPodsThreshold
      /\ flush'.cutoff = flush.cutoff /\ flush.node \notin Nodes
  BY <1>1 DEF VisitStep, AggTyped
<1>3. unique \in Seq(Entries) /\ \A i, j \in DOMAIN unique : i # j => unique[i].pod # unique[j].pod
  BY <1>1 DEF VisitStep, Visited
<1>4. Cardinality(PodsOf(unique)) = Len(unique)
  BY <1>3, PodsCounted
<1>5. ASSUME NEW i \in DOMAIN unique
      PROVE  unique[i].at > flush.cutoff /\ MatchIn(pending[n], unique[i])
  <2>1. PICK k \in DOMAIN fresh : unique[i] = fresh[k]
    BY <1>1 DEF VisitStep, Visited
  <2>2. PICK j \in DOMAIN windows[n] : windows[n][j] = unique[i] /\ unique[i].at > flush.cutoff
    BY <1>1, <2>1 DEF VisitStep, Visited
  <2>3. unique[i].at \in Nat /\ flush.cutoff \in Int
    <3>1. unique[i] \in Entries
      BY <1>3
    <3> QED
      BY <3>1 DEF Entries, Instants, AggTyped, Flushes
  <2> QED
    BY <1>2, <2>2, <2>3 DEF EntriesMatched
<1> QED
  BY <1>2, <1>3, <1>4, <1>5 DEF Reportable, MatchIn, PodsOf

LEMMA MatchedAlways == AggInv /\ EntriesMatched /\ [Next]_vars => EntriesMatched'
<1> SUFFICES ASSUME AggInv, EntriesMatched, [Next]_vars PROVE EntriesMatched'
  OBVIOUS
<1>1. CASE AggregatorNext
  BY <1>1, MatchedStep DEF AggInv
<1>2. CASE ~AggregatorNext
  BY <1>2, OtherSteps, MatchedFramed DEF aggVars
<1> QED
  BY <1>1, <1>2

\* Only an iteration of flush starts the handler.
LEMMA OnlyVisitReports ==
    ASSUME AggInv, [Next]_vars, pc' = "classify", pc # "classify"
    PROVE  \E n \in Nodes : FlushVisit(n)
<1>1. CASE AggregatorNext
  BY <1>1 DEF AggregatorNext, Skip, Lookup, Record, FlushStart, Analyse, FlushClear, FlushEnd,
              UpdateGraph, TimePasses, aggVars
<1>2. CASE ~AggregatorNext
  BY <1>2, OtherSteps DEF aggVars
<1> QED
  BY <1>1, <1>2

LEMMA ReportStep ==
    ASSUME AggInv, EntriesMatched, [Next]_vars, pc' = "classify", pc # "classify"
    PROVE  Reportable
BY OnlyVisitReports, ReportSound DEF AggInv

\* An incident is about enough different pods, each with a young anomaly that was
\* recorded for the node and reported in no earlier incident, for any threshold.
THEOREM IncidentsSound == Spec => IncidentSound
<1>1. AggInv /\ EntriesMatched /\ [Next]_vars
        => [pc' = "classify" /\ pc # "classify" => Reportable]_aggregatorVars
  BY ReportStep
<1> QED
  BY <1>1, AggInvInit, AggInvStep, MatchedInit, MatchedAlways, PTL
  DEF Spec, IncidentSound, Reportable

-----------------------------------------------------------------------------
(* No incident is missed, with a threshold of at most two pods.            *)

\* Anomalies that are younger than this are in their window.
Horizon == IF pc = "idle" THEN now - AggregationWindow ELSE flush.cutoff

Found(n, f) == \E i \in DOMAIN windows[n] : windows[n][i].pod = f.pod /\ windows[n][i].at = f.at

\* The handled window holds only anomalies that joined it since; of the others
\* the young ones are in their window; and a node that the flush has dealt with
\* has too few of them.
NoneMissed ==
    /\ \A n \in Nodes : flush.node = n => \A f \in pending[n] : f.joined
    /\ \A n \in Nodes : \A f \in pending[n] : ~f.joined /\ f.at > Horizon => Found(n, f)
    /\ pc # "idle" =>
          \A n \in Nodes \ flush.due : Cardinality(Unreported(n)) < MinPodsThreshold

LEMMA MissedInit == Init => NoneMissed
BY DEF Init, AggregatorInit, NoneMissed

\* A node whose window is empty has nothing that was missed.
LEMMA NothingInEmpty ==
    ASSUME AggTyped, NoneMissed, pc # "idle", NEW n \in Nodes, windows[n] = <<>>
    PROVE  Cardinality(Unreported(n)) < MinPodsThreshold
<1>1. Unreported(n) = {}
  BY DEF Unreported, NoneMissed, Horizon, Found
<1>2. Cardinality({}) = 0
  BY FS_EmptySet
<1> QED
  BY <1>1, <1>2, AggregatorAssumption

LEMMA MissedFramed ==
    ASSUME AggTyped, NoneMissed, UNCHANGED <<windows, pending, flush>>,
           pc' = "idle" <=> pc = "idle", now' = now \/ now' = now + 1
    PROVE  NoneMissed'
<1>1. \A n \in Nodes : Unreported(n)' = Unreported(n)
  BY DEF Unreported
<1>2. \A n \in Nodes : \A f \in pending[n] : f.at \in Nat
  BY DEF AggTyped, Waiting
<1>3. ASSUME NEW n \in Nodes, NEW f \in pending[n], f.at > Horizon' PROVE f.at > Horizon
  <2>1. now \in Nat /\ AggregationWindow \in Nat /\ flush.cutoff \in Int /\ f.at \in Nat
    BY <1>2, AggregatorAssumption DEF AggTyped, Flushes
  <2> QED
    BY <1>3, <2>1 DEF Horizon
<1>4. \A n \in Nodes : \A f \in pending'[n] : ~f.joined /\ f.at > Horizon' => Found(n, f)'
  BY <1>3 DEF NoneMissed, Found
<1> QED
  BY <1>1, <1>4 DEF NoneMissed

LEMMA MissedStep ==
    ASSUME MinPodsThreshold <= 2, AggTyped, NoneMissed, AggregatorNext
    PROVE  NoneMissed'
<1>0. MinPodsThreshold \in Nat \ {0} /\ AggregationWindow \in Nat /\ now \in Nat
  BY AggregatorAssumption DEF AggTyped
<1>11. \A n \in Nodes : pending[n] \subseteq Waiting /\ windows[n] \in Seq(Entries)
  BY DEF AggTyped
<1>1. CASE Record
  <2> DEFINE m == inbox.node
             late == pc # "idle"
             joined == flush.node = inbox.node
             e == [pod |-> inbox.pod, at |-> inbox.at, late |-> late, joined |-> joined]
             x == Entry(inbox)
  <2>1. m \in Nodes /\ x.pod = inbox.pod /\ x.at = inbox.at
    BY <1>1, EntryTyped DEF Record
  <2>2. /\ windows' = [windows EXCEPT ![m] = Append(windows[m], x)]
        /\ pending' = [pending EXCEPT ![m] = pending[m] \cup {e}]
        /\ flush' = flush /\ pc' = pc /\ now' = now
    BY <1>1 DEF Record
  <2>3. e.pod = inbox.pod /\ e.at = inbox.at
    OBVIOUS
  <2>4. (e.late <=> pc # "idle") /\ (e.joined <=> flush.node = m)
    <3>1. e.late = late /\ e.joined = joined
      <4> HIDE DEF late, joined
      <4> QED
        OBVIOUS
    <3> QED
      BY <3>1
  <2> HIDE DEF e, m, x
  <2>5. \A n \in Nodes : pending'[n] = IF n = m THEN pending[m] \cup {e} ELSE pending[n]
    BY <2>1, <2>2 DEF AggTyped
  <2>6. \A n \in Nodes : flush'.node = n => \A f \in pending'[n] : f.joined
    BY <2>1, <2>2, <2>4, <2>5 DEF NoneMissed
  <2>7. ASSUME NEW n \in Nodes, NEW f, Found(n, f) PROVE Found(n, f)'
    <3>1. CASE n # m
      BY <2>1, <2>2, <2>7, <3>1 DEF Found, AggTyped
    <3>2. CASE n = m
      <4>1. windows'[m] = Append(windows[m], x) /\ windows[m] \in Seq(Entries)
        BY <1>11, <2>1, <2>2 DEF AggTyped
      <4>2. PICK i \in DOMAIN windows[m] : windows[m][i].pod = f.pod /\ windows[m][i].at = f.at
        BY <2>7, <3>2 DEF Found
      <4>3. i \in DOMAIN windows'[m] /\ windows'[m][i] = windows[m][i]
        BY <4>1
      <4> QED
        BY <3>2, <4>2, <4>3 DEF Found
    <3> QED
      BY <3>1, <3>2
  <2>8. \E i \in DOMAIN windows'[m] : windows'[m][i].pod = e.pod /\ windows'[m][i].at = e.at
    <3>1. windows'[m] = Append(windows[m], x) /\ windows[m] \in Seq(Entries)
      BY <1>11, <2>1, <2>2 DEF AggTyped
    <3>2. Len(windows[m]) + 1 \in DOMAIN windows'[m] /\ windows'[m][Len(windows[m]) + 1] = x
      BY <3>1
    <3> QED
      BY <2>1, <2>3, <3>2
  <2>9. Horizon' = Horizon
    BY <2>2 DEF Horizon
  <2>10. \A n \in Nodes : \A f \in pending'[n] : ~f.joined /\ f.at > Horizon' => Found(n, f)'
    <3> SUFFICES ASSUME NEW n \in Nodes, NEW f \in pending'[n], ~f.joined, f.at > Horizon
                 PROVE  Found(n, f)'
      BY <2>9
    <3>1. CASE f \in pending[n]
      BY <2>7, <3>1 DEF NoneMissed
    <3>2. CASE n = m /\ f = e
      BY <2>8, <3>2 DEF Found
    <3> QED
      BY <2>5, <3>1, <3>2
  <2>11. ASSUME pc # "idle", NEW n \in Nodes PROVE Unreported(n)' = Unreported(n)
    <3>1. e.late
      BY <2>4, <2>11
    <3> QED
      BY <2>2, <2>5, <3>1 DEF Unreported
  <2> QED
    BY <2>2, <2>6, <2>10, <2>11 DEF NoneMissed
<1>2. CASE FlushStart
  <2>1. /\ pc = "idle" /\ pc' = "flush"
        /\ flush' = [cutoff |-> now - AggregationWindow, due |-> {n \in Nodes : Present(n)},
                     seen |-> {}, node |-> NoNode]
        /\ pending' = [n \in Nodes |-> Kept(n)]
        /\ windows' = windows
    BY <1>2, StartSplit
  <2>2. /\ flush'.node \notin Nodes /\ flush'.cutoff = now - AggregationWindow
        /\ flush'.due = {n \in Nodes : Present(n)}
    BY <2>1, GraphAssumption
  <2>3. ASSUME NEW n \in Nodes, NEW f \in pending'[n], ~f.joined PROVE Found(n, f)'
    <3>1. PICK g \in pending[n] :
             /\ g.at > now - AggregationWindow
             /\ f = [pod |-> g.pod, at |-> g.at, late |-> FALSE, joined |-> g.joined]
      BY <2>1 DEF Kept
    <3>2. f.pod = g.pod /\ f.at = g.at
      BY <3>1
    <3>3. ~g.joined
      <4>1. f.joined = g.joined
        BY <3>1
      <4> QED
        BY <2>3, <4>1
    <3>4. Found(n, g)
      BY <2>1, <3>1, <3>3 DEF NoneMissed, Horizon
    <3> QED
      BY <2>1, <3>2, <3>4 DEF Found
  <2>4. ASSUME NEW n \in Nodes \ flush'.due
        PROVE  Cardinality(Unreported(n)') < MinPodsThreshold
    <3>1. windows'[n] = <<>>
      BY <2>1, <2>2 DEF Present
    <3>2. Unreported(n)' = {}
      BY <2>3, <3>1 DEF Unreported, Found
    <3>3. Cardinality({}) = 0
      BY FS_EmptySet
    <3> QED
      BY <1>0, <3>2, <3>3
  <2> QED
    BY <2>2, <2>3, <2>4 DEF NoneMissed
<1>3. ASSUME NEW m \in Nodes, FlushVisit(m) PROVE NoneMissed'
  <2>1. PICK fresh, unique, left : VisitStep(m, fresh, unique, left)
    BY <1>3, VisitSplit
  <2>2. /\ pc = "flush" /\ flush.node \notin Nodes /\ windows' = [windows EXCEPT ![m] = left]
        /\ flush'.due = flush.due \ {m} /\ flush'.cutoff = flush.cutoff
        /\ Visited(windows[m], flush.cutoff, fresh, unique, left) /\ now' = now
    BY <2>1 DEF VisitStep, AggTyped
  <2>3. windows'[m] = left /\ \A n \in Nodes \ {m} : windows'[n] = windows[n]
    BY <2>2 DEF AggTyped
  <2>4. CASE Len(unique) < MinPodsThreshold
    <3>1. pc' = pc /\ pending' = pending /\ flush'.node = flush.node
      BY <1>0, <2>1, <2>4 DEF VisitStep, Visited
    <3>2. left = fresh
      <4>1. Len(unique) \in Nat
        BY <2>2 DEF Visited
      <4>2. Len(unique) <= 1
        BY <1>0, <2>4, <4>1
      <4> QED
        BY <2>2, <4>2 DEF Visited
    <3>3. Horizon = flush.cutoff /\ Horizon' = flush.cutoff
      BY <2>2, <3>1 DEF Horizon
    <3>4. ASSUME NEW f \in pending[m], ~f.joined, f.at > flush.cutoff
          PROVE  \E k \in DOMAIN fresh : fresh[k].pod = f.pod /\ fresh[k].at = f.at
      <4>1. PICK i \in DOMAIN windows[m] : windows[m][i].pod = f.pod /\ windows[m][i].at = f.at
        BY <3>3, <3>4 DEF NoneMissed, Found
      <4> QED
        BY <2>2, <3>4, <4>1 DEF Visited
    <3>5. \A n \in Nodes : \A f \in pending'[n] : ~f.joined /\ f.at > Horizon' => Found(n, f)'
      <4> SUFFICES ASSUME NEW n \in Nodes, NEW f \in pending[n], ~f.joined, f.at > flush.cutoff
                   PROVE  Found(n, f)'
        BY <3>1, <3>3
      <4>1. CASE n = m
        BY <2>3, <3>2, <3>4, <4>1 DEF Found
      <4>2. CASE n # m
        <5>1. Found(n, f)
          BY <3>3 DEF NoneMissed
        <5> QED
          BY <2>3, <4>2, <5>1 DEF Found
      <4> QED
        BY <4>1, <4>2
    <3>6. \A n \in Nodes : Unreported(n)' = Unreported(n)
      BY <2>2, <3>1 DEF Unreported
    <3>7. Cardinality(Unreported(m)) < MinPodsThreshold
      <4>1. Unreported(m) \subseteq PodsOf(unique)
        <5>1. Unreported(m) \subseteq PodsOf(fresh)
          BY <3>4 DEF Unreported, PodsOf
        <5> QED
          BY <2>2, <5>1 DEF Visited
      <4>2. /\ IsFiniteSet(PodsOf(unique)) /\ Cardinality(PodsOf(unique)) \in Nat
            /\ Cardinality(PodsOf(unique)) <= Len(unique) /\ Len(unique) \in Nat
        <5>1. unique \in Seq(Entries)
          BY <2>2 DEF Visited
        <5> QED
          BY <5>1, PodsCounted
      <4>3. Cardinality(Unreported(m)) <= Cardinality(PodsOf(unique))
            /\ IsFiniteSet(Unreported(m))
        BY <4>1, <4>2, FS_Subset
      <4>4. Cardinality(Unreported(m)) \in Nat
        BY <4>3, FS_CardinalityType
      <4> QED
        BY <1>0, <2>4, <4>2, <4>3, <4>4
    <3>8. \A n \in Nodes \ flush'.due : Cardinality(Unreported(n)') < MinPodsThreshold
      BY <2>2, <3>6, <3>7 DEF NoneMissed
    <3>9. \A n \in Nodes : flush'.node = n => \A f \in pending'[n] : f.joined
      BY <2>2, <3>1
    <3> QED
      BY <3>5, <3>8, <3>9 DEF NoneMissed
  <2>5. CASE Len(unique) >= MinPodsThreshold
    <3>1. pc' = "classify" /\ pending' = [pending EXCEPT ![m] = {}] /\ flush'.node = m
      <4>1. Len(unique) \in Nat
        BY <2>2 DEF Visited
      <4> QED
        BY <1>0, <2>1, <2>5, <4>1 DEF VisitStep
    <3>2. pending'[m] = {} /\ \A n \in Nodes \ {m} : pending'[n] = pending[n]
      BY <3>1 DEF AggTyped
    <3>3. Horizon = flush.cutoff /\ Horizon' = flush.cutoff
      BY <2>2, <3>1 DEF Horizon
    <3>4. \A n \in Nodes : \A f \in pending'[n] : ~f.joined /\ f.at > Horizon' => Found(n, f)'
      BY <2>3, <3>2, <3>3 DEF NoneMissed, Found
    <3>5. Unreported(m)' = {} /\ \A n \in Nodes \ {m} : Unreported(n)' = Unreported(n)
      BY <2>2, <3>2 DEF Unreported
    <3>6. Cardinality({}) = 0
      BY FS_EmptySet
    <3>7. \A n \in Nodes \ flush'.due : Cardinality(Unreported(n)') < MinPodsThreshold
      BY <1>0, <2>2, <3>5, <3>6 DEF NoneMissed
    <3>8. \A n \in Nodes : flush'.node = n => \A f \in pending'[n] : f.joined
      BY <3>1, <3>2
    <3> QED
      BY <3>4, <3>7, <3>8 DEF NoneMissed
  <2>6. Len(unique) \in Nat
    BY <2>2 DEF Visited
  <2> QED
    BY <1>0, <2>4, <2>5, <2>6
<1>4. CASE FlushClear
  <2>1. /\ windows' = [windows EXCEPT ![flush.node] = <<>>] /\ flush.node \in Nodes
        /\ flush' = [flush EXCEPT !.node = NoNode] /\ pending' = pending
        /\ pc = "clear" /\ pc' = "flush" /\ now' = now
    BY <1>4 DEF FlushClear, AggTyped
  <2>2. flush'.due = flush.due /\ flush'.cutoff = flush.cutoff /\ flush'.node \notin Nodes
    BY <2>1, GraphAssumption DEF AggTyped, Flushes
  <2>3. \A n \in Nodes : Unreported(n)' = Unreported(n)
    BY <2>1, <2>2 DEF Unreported
  <2>4. Horizon' = Horizon
    BY <2>1, <2>2 DEF Horizon
  <2>5. \A n \in Nodes \ {flush.node} : windows'[n] = windows[n]
    BY <2>1 DEF AggTyped
  <2>6. ASSUME NEW n \in Nodes, NEW f \in pending[n], ~f.joined, f.at > Horizon PROVE Found(n, f)'
    <3>1. n # flush.node /\ Found(n, f)
      BY <2>6 DEF NoneMissed
    <3> QED
      BY <2>5, <3>1 DEF Found
  <2> QED
    BY <2>1, <2>2, <2>3, <2>4, <2>6 DEF NoneMissed
<1>5. CASE FlushEnd
  <2>1. /\ pc = "flush" /\ pc' = "idle" /\ flush' = NotFlushing
        /\ windows' = windows /\ pending' = pending /\ now' = now
    BY <1>5 DEF FlushEnd
  <2>2. flush'.node \notin Nodes
    BY <2>1, GraphAssumption DEF NotFlushing
  <2>3. ASSUME NEW n \in Nodes, NEW f \in pending[n], ~f.joined, f.at > Horizon' PROVE Found(n, f)'
    <3>1. f.at > flush.cutoff
      <4>1. f.at > now - AggregationWindow
        BY <2>1, <2>3 DEF Horizon
      <4>2. f.at \in Nat
        BY <1>11 DEF Waiting
      <4>3. flush.cutoff <= now - AggregationWindow /\ flush.cutoff \in Int
        BY <2>1 DEF AggTyped, Flushes
      <4> QED
        BY <1>0, <4>1, <4>2, <4>3
    <3>2. Found(n, f)
      BY <2>1, <2>3, <3>1 DEF NoneMissed, Horizon
    <3> QED
      BY <2>1, <3>2 DEF Found
  <2> QED
    BY <2>1, <2>2, <2>3 DEF NoneMissed
<1>6. CASE /\ UNCHANGED <<windows, pending, flush>>
           /\ pc' = "idle" <=> pc = "idle"
           /\ now' = now \/ now' = now + 1
  BY <1>6, MissedFramed
<1>7. ASSUME NEW p \in Pods, Skip(p) \/ \E signals \in SignalSets : Lookup(p, signals)
      PROVE  UNCHANGED <<windows, pending, flush, pc, now>>
  BY <1>7 DEF Skip, Lookup
<1>8. Analyse => UNCHANGED <<windows, pending, flush, now>> /\ pc # "idle" /\ pc' # "idle"
  BY DEF Analyse
<1>9. UpdateGraph => UNCHANGED <<windows, pending, flush, pc, now>>
  BY DEF UpdateGraph, aggVars
<1>10. TimePasses => UNCHANGED <<windows, pending, flush, pc>> /\ now' = now + 1
  BY DEF TimePasses, aggVars, Tick
<1> QED
  BY <1>1, <1>2, <1>3, <1>4, <1>5, <1>6, <1>7, <1>8, <1>9, <1>10 DEF AggregatorNext

LEMMA MissedAlways ==
    ASSUME MinPodsThreshold <= 2
    PROVE  AggInv /\ NoneMissed /\ [Next]_vars => NoneMissed'
<1> SUFFICES ASSUME AggInv, NoneMissed, [Next]_vars PROVE NoneMissed'
  OBVIOUS
<1>1. CASE AggregatorNext
  BY <1>1, MissedStep DEF AggInv
<1>2. CASE ~AggregatorNext
  <2>1. UNCHANGED <<windows, pending, flush, pc>> /\ (now' = now \/ now' = now + 1)
    BY <1>2, OtherSteps DEF aggVars
  <2> QED
    BY <2>1, MissedFramed DEF AggInv
<1> QED
  BY <1>1, <1>2

\* With the default threshold of two pods, incidents are exact: whatever is
\* recorded while flush has released its mutex, each is sound, and when a flush
\* has nothing left to visit no node has enough young, unreported pods.
THEOREM IncidentsReported ==
    ASSUME MinPodsThreshold <= 2
    PROVE  Spec => IncidentsExact
<1>1. AggInv /\ NoneMissed => NoMissedIncident
  <2> SUFFICES ASSUME AggInv, NoneMissed, pc = "flush", \A n \in flush.due : ~Present(n),
                      NEW n \in Nodes
               PROVE  Cardinality(Unreported(n)) < MinPodsThreshold
    BY DEF NoMissedIncident
  <2>1. CASE n \in flush.due
    <3>1. windows[n] = <<>>
      BY <2>1 DEF Present
    <3> QED
      BY <3>1, NothingInEmpty DEF AggInv
  <2>2. CASE n \notin flush.due
    BY <2>2 DEF NoneMissed
  <2> QED
    BY <2>1, <2>2
<1>2. AggInv /\ NoneMissed /\ [Next]_vars => NoneMissed'
  BY MissedAlways
<1>3. Spec => []NoMissedIncident
  BY <1>1, <1>2, AggInvInit, AggInvStep, MissedInit, PTL DEF Spec
<1> QED
  BY <1>3, IncidentsSound, PTL DEF IncidentsExact

-----------------------------------------------------------------------------
(* The scores.                                                             *)

StatFields == {"total", "unresolved", "escalated", "stamps", "len", "updated"}

StatOK(s) ==
    /\ DOMAIN s = StatFields
    /\ s.total \in Nat /\ s.unresolved \in 0 .. s.total /\ s.escalated \in Nat
    /\ s.updated \in MaybeInstants
    /\ s.stamps \in Seq(Nat) /\ s.len \in 0 .. Len(s.stamps)

Scans == [on : {TRUE}, node : Names, cutoff : Int, len : Nat, i : Nat, kept : Nat]

\* A reader in its loop, over an array of this length, is within it and moves
\* elements only to places it has passed.
ScanOK(c, length) == c.len <= length /\ c.i >= 1 /\ c.i <= c.len + 1 /\ c.kept < c.i

ScorerInv ==
    /\ now \in Nat
    /\ stats \in [Names -> {stats[n] : n \in Names}] /\ \A n \in Names : StatOK(stats[n])
    /\ scan \in [Readers -> Scans \cup {NotScanning}]
    /\ \A r \in Readers : scan[r] \in Scans => ScanOK(scan[r], Len(stats[scan[r].node].stamps))

LEMMA StatInit == StatOK(NoStats)
<1>1. 0 \in 0 .. 0 /\ <<>> \in Seq(Nat) /\ Len(<<>>) = 0 /\ NoTime \in MaybeInstants
  BY DEF MaybeInstants
<1> QED
  BY <1>1 DEF NoStats, StatOK, StatFields

\* Pruning keeps the record.
LEMMA PrunedOK ==
    ASSUME NEW s, StatOK(s), now \in Nat
    PROVE  StatOK(Pruned(s))
<1> DEFINE q == Stamps(s)
           S == {i \in DOMAIN q : q[i] > now - ScoreHour}
           p == Recent(q)
           t == Pruned(s)
<1>1. s.stamps \in Seq(Nat) /\ s.len \in 0 .. Len(s.stamps)
  BY DEF StatOK
<1>2. q \in Seq(Nat)
  BY <1>1 DEF Stamps
<1>3. t = [s EXCEPT !.stamps = p, !.len = Len(p)]
  BY DEF Pruned
<1>4. p = Picked(q, S)
  BY DEF Recent
<1> HIDE DEF q
<1>5. S \subseteq DOMAIN q
  OBVIOUS
<1> HIDE DEF S
<1>6. p \in Seq(Nat)
  BY <1>2, <1>4, <1>5, PickedIs
<1> HIDE DEF p, t
<1>7. /\ DOMAIN t = StatFields /\ t.total = s.total /\ t.unresolved = s.unresolved
      /\ t.escalated = s.escalated /\ t.updated = s.updated /\ t.stamps = p /\ t.len = Len(p)
  BY <1>3 DEF StatOK, StatFields
<1>8. Len(p) \in 0 .. Len(p)
  BY <1>6
<1> QED
  BY <1>6, <1>7, <1>8 DEF StatOK, t

LEMMA StampsTyped ==
    ASSUME NEW s, StatOK(s)
    PROVE  Stamps(s) \in Seq(Nat) /\ Len(Stamps(s)) = s.len /\ s.len \in Nat
<1>1. s.stamps \in Seq(Nat) /\ s.len \in 0 .. Len(s.stamps)
  BY DEF StatOK
<1>2. s.len \in Nat /\ s.len <= Len(s.stamps)
  BY <1>1
<1>3. Stamps(s) = SubSeq(s.stamps, 1, s.len)
  BY DEF Stamps
<1>4. SubSeq(s.stamps, 1, s.len) \in Seq(Nat) /\ Len(SubSeq(s.stamps, 1, s.len)) = s.len
  <2> DEFINE q == s.stamps
             n == s.len
  <2>1. q \in Seq(Nat) /\ n \in Nat /\ n <= Len(q)
    BY <1>1, <1>2
  <2> HIDE DEF q, n
  <2>2. SubSeq(q, 1, n) \in Seq(Nat) /\ Len(SubSeq(q, 1, n)) = n
    BY <2>1, PrefixIs
  <2> QED
    BY <2>2 DEF q, n
<1> QED
  BY <1>2, <1>3, <1>4

\* One more anomaly.
LEMMA AnomalyOK ==
    ASSUME NEW s, StatOK(s), now \in Nat
    PROVE  StatOK(Pruned(OneMore(s)))
<1> DEFINE q == Append(Stamps(s), now)
           t == [s EXCEPT !.total = @ + 1, !.unresolved = @ + 1, !.updated = now,
                          !.stamps = q, !.len = @ + 1]
<1>1. q \in Seq(Nat) /\ Len(q) = s.len + 1
  <2>1. Stamps(s) \in Seq(Nat) /\ Len(Stamps(s)) = s.len
    BY StampsTyped
  <2> QED
    BY <2>1, AppendIs
<1> HIDE DEF q
<1>2. /\ DOMAIN t = StatFields /\ t.total = s.total + 1 /\ t.unresolved = s.unresolved + 1
      /\ t.escalated = s.escalated /\ t.updated = now /\ t.stamps = q /\ t.len = s.len + 1
  BY DEF StatOK, StatFields
<1> HIDE DEF t
<1>3. s.total + 1 \in Nat /\ s.unresolved + 1 \in 0 .. s.total + 1 /\ s.len + 1 \in 0 .. s.len + 1
  BY DEF StatOK
<1>4. now \in MaybeInstants
  BY DEF MaybeInstants
<1>5. StatOK(t)
  BY <1>1, <1>2, <1>3, <1>4 DEF StatOK
<1> QED
  BY <1>5, PrunedOK DEF t, q, OneMore

\* Fewer unresolved ones, but never fewer than none.
LEMMA FewerOK ==
    ASSUME NEW s, StatOK(s), NEW u, u = s.unresolved \/ u = Less(s.unresolved),
           NEW e \in Nat, NEW at \in MaybeInstants
    PROVE  StatOK([s EXCEPT !.unresolved = u, !.escalated = e, !.updated = at])
<1> DEFINE t == [s EXCEPT !.unresolved = u, !.escalated = e, !.updated = at]
<1>1. /\ DOMAIN t = StatFields /\ t.total = s.total /\ t.unresolved = u
      /\ t.escalated = e /\ t.updated = at /\ t.stamps = s.stamps /\ t.len = s.len
  BY DEF StatOK, StatFields
<1> HIDE DEF t
<1>2. u \in 0 .. s.total
  BY DEF StatOK, Less
<1> QED
  BY <1>1, <1>2 DEF StatOK, t

\* The writers hold the lock alone.
LEMMA WriterKeeps ==
    ASSUME ScorerInv, NoReader, UNCHANGED <<now, scan>>,
           stats' = [n \in Names |-> stats'[n]], \A n \in Names : StatOK(stats'[n])
    PROVE  ScorerInv'
<1>1. \A r \in Readers : scan[r] \notin Scans
  BY DEF NoReader, Scans
<1>2. stats' \in [Names -> {stats'[n] : n \in Names}]
  OBVIOUS
<1> QED
  BY <1>1, <1>2 DEF ScorerInv

LEMMA RecordAnomalyKeeps ==
    ASSUME ScorerInv, NEW n \in Names, RecordAnomaly(n)
    PROVE  ScorerInv'
<1> DEFINE s == Pruned(OneMore(stats[n]))
<1>1. now \in Nat /\ StatOK(stats[n])
  BY DEF ScorerInv
<1>2. StatOK(s)
  BY <1>1, AnomalyOK
<1>3. stats' = [stats EXCEPT ![n] = s]
  BY DEF RecordAnomaly
<1> HIDE DEF s
<1>4. stats' = [m \in Names |-> stats'[m]] /\ \A m \in Names : StatOK(stats'[m])
  BY <1>2, <1>3 DEF ScorerInv
<1>5. NoReader /\ UNCHANGED <<now, scan>>
  BY DEF RecordAnomaly
<1> QED
  BY <1>4, <1>5, WriterKeeps

\* An outcome and a quiet period change the counts and leave the timestamps.
LEMMA SettledIs ==
    ASSUME NEW x, StatOK(x), now \in Nat, NEW o
    PROVE  StatOK(Settled(x, o)) /\ Stamps(Settled(x, o)) = Stamps(x)
<1> DEFINE u == IF o = "failed" THEN x.unresolved ELSE Less(x.unresolved)
           e == IF o = "escalated" THEN x.escalated + 1 ELSE x.escalated
           y == [x EXCEPT !.unresolved = u, !.escalated = e, !.updated = now]
<1>1. Settled(x, o) = y
  BY DEF Settled
<1>2. StatOK(y)
  <2>1. u = x.unresolved \/ u = Less(x.unresolved)
    OBVIOUS
  <2>2. e \in Nat /\ now \in MaybeInstants
    BY DEF StatOK, MaybeInstants
  <2> HIDE DEF u, e
  <2> QED
    BY <2>1, <2>2, FewerOK
<1>3. y.stamps = x.stamps /\ y.len = x.len
  BY DEF StatOK, StatFields
<1> HIDE DEF y
<1> QED
  BY <1>1, <1>2, <1>3 DEF Stamps

LEMMA DecayedIs ==
    ASSUME NEW x, StatOK(x)
    PROVE  StatOK(Decayed(x)) /\ Stamps(Decayed(x)) = Stamps(x)
<1> DEFINE t == [x EXCEPT !.unresolved = Less(@)]
<1>1. /\ DOMAIN t = StatFields /\ t.total = x.total /\ t.unresolved = Less(x.unresolved)
      /\ t.escalated = x.escalated /\ t.updated = x.updated /\ t.stamps = x.stamps
      /\ t.len = x.len
  BY DEF StatOK, StatFields
<1>2. Decayed(x) = x \/ Decayed(x) = t
  BY DEF Decayed
<1> HIDE DEF t
<1>3. Less(x.unresolved) \in 0 .. x.total
  BY DEF StatOK, Less
<1>4. StatOK(t) /\ Stamps(t) = Stamps(x)
  BY <1>1, <1>3 DEF StatOK, Stamps
<1> QED
  BY <1>2, <1>4

LEMMA RecordOutcomeKeeps ==
    ASSUME ScorerInv, NEW n \in Names, NEW o, RecordOutcome(n, o)
    PROVE  ScorerInv'
<1> DEFINE s == Pruned(Settled(stats[n], o))
<1>1. StatOK(s)
  BY SettledIs, PrunedOK DEF ScorerInv
<1>2. stats' = [stats EXCEPT ![n] = s]
  BY DEF RecordOutcome
<1> HIDE DEF s
<1>3. stats' = [m \in Names |-> stats'[m]] /\ \A m \in Names : StatOK(stats'[m])
  BY <1>1, <1>2 DEF ScorerInv
<1>4. NoReader /\ UNCHANGED <<now, scan>>
  BY DEF RecordOutcome
<1> QED
  BY <1>3, <1>4, WriterKeeps

LEMMA DecayAllKeeps ==
    ASSUME ScorerInv, DecayAll
    PROVE  ScorerInv'
<1>1. stats' = [n \in Names |-> IF stats[n].updated = NoTime THEN stats[n]
                                ELSE Pruned(Decayed(stats[n]))]
  BY DEF DecayAll
<1>2. ASSUME NEW n \in Names PROVE StatOK(stats'[n])
  <2>1. StatOK(stats[n]) /\ StatOK(Pruned(Decayed(stats[n])))
    BY DecayedIs, PrunedOK DEF ScorerInv
  <2> QED
    BY <1>1, <2>1
<1>3. NoReader /\ UNCHANGED <<now, scan>>
  BY DEF DecayAll
<1>4. stats' = [n \in Names |-> stats'[n]]
  BY <1>1
<1> QED
  BY <1>2, <1>3, <1>4, WriterKeeps

\* What a reader's loop reads and writes is in the array.
LEMMA ScanStartKeeps ==
    ASSUME ScorerInv, NEW r \in Readers, NEW n \in Names, ScanStart(r, n)
    PROVE  ScorerInv'
<1> DEFINE c == [on |-> TRUE, node |-> n, cutoff |-> now - ScoreHour, len |-> stats[n].len,
                 i |-> 1, kept |-> 0]
<1>1. now \in Nat /\ StatOK(stats[n]) /\ ScoreHour \in Nat
  BY ScorerAssumption DEF ScorerInv
<1>2. stats[n].len \in Nat /\ stats[n].len <= Len(stats[n].stamps)
  BY <1>1 DEF StatOK
<1>3. c \in Scans /\ c.node = n /\ c.len = stats[n].len /\ c.i = 1 /\ c.kept = 0
  BY <1>1, <1>2 DEF Scans
<1>4. scan' = [scan EXCEPT ![r] = c] /\ UNCHANGED <<now, stats>>
  BY DEF ScanStart
<1> HIDE DEF c
<1>5. ScanOK(c, Len(stats[n].stamps))
  BY <1>2, <1>3 DEF ScanOK
<1>6. scan' \in [Readers -> Scans \cup {NotScanning}]
  BY <1>3, <1>4 DEF ScorerInv
<1>7. \A x \in Readers : scan'[x] = IF x = r THEN c ELSE scan[x]
  BY <1>4 DEF ScorerInv
<1>8. ASSUME NEW x \in Readers, scan'[x] \in Scans
      PROVE  ScanOK(scan'[x], Len(stats'[scan'[x].node].stamps))
  BY <1>3, <1>4, <1>5, <1>7, <1>8 DEF ScorerInv
<1> QED
  BY <1>4, <1>6, <1>8 DEF ScorerInv

\* A reader's loop moves on.
MovedTo(d, c, i, k) ==
    d.node = c.node /\ d.cutoff = c.cutoff /\ d.len = c.len /\ d.i = i /\ d.kept = k

LEMMA ScanMoves ==
    ASSUME NEW c \in Scans, NEW i \in Nat, NEW k \in Nat, NEW d, d = [c EXCEPT !.i = i, !.kept = k]
    PROVE  d \in Scans /\ MovedTo(d, c, i, k)
<1>1. /\ c.on = TRUE /\ c.node \in Names /\ c.cutoff \in Int /\ c.len \in Nat
      /\ c = [on |-> c.on, node |-> c.node, cutoff |-> c.cutoff, len |-> c.len, i |-> c.i,
              kept |-> c.kept]
  BY DEF Scans
<1>2. d = [on |-> c.on, node |-> c.node, cutoff |-> c.cutoff, len |-> c.len, i |-> i, kept |-> k]
  BY <1>1
<1> QED
  BY <1>1, <1>2 DEF Scans, MovedTo

\* A reader's step that leaves the arrays as long as they were.
LEMMA ReaderKeeps ==
    ASSUME ScorerInv, NEW r \in Readers, NEW c \in Scans \cup {NotScanning}, NEW n \in Names,
           NEW s, StatOK(s), Len(s.stamps) = Len(stats[n].stamps),
           UNCHANGED now, stats' = [stats EXCEPT ![n] = s], scan' = [scan EXCEPT ![r] = c],
           c \in Scans => c.node = n /\ ScanOK(c, Len(stats[n].stamps))
    PROVE  ScorerInv'
<1>1. scan' \in [Readers -> Scans \cup {NotScanning}]
  BY DEF ScorerInv
<1>2. \A m \in Names : stats'[m] = IF m = n THEN s ELSE stats[m]
  BY DEF ScorerInv
<1>3. stats' \in [Names -> {stats'[m] : m \in Names}] /\ \A m \in Names : StatOK(stats'[m])
  BY <1>2 DEF ScorerInv
<1>4. \A x \in Readers : scan'[x] = IF x = r THEN c ELSE scan[x]
  BY DEF ScorerInv
<1>5. \A m \in Names : Len(stats'[m].stamps) = Len(stats[m].stamps)
  BY <1>2
<1>6. ASSUME NEW x \in Readers, scan'[x] \in Scans
      PROVE  ScanOK(scan'[x], Len(stats'[scan'[x].node].stamps))
  <2>1. scan'[x].node \in Names
    BY <1>6 DEF Scans
  <2>2. ScanOK(scan'[x], Len(stats[scan'[x].node].stamps))
    BY <1>4, <1>6 DEF ScorerInv
  <2> QED
    BY <1>5, <2>1, <2>2
<1> QED
  BY <1>1, <1>3, <1>6 DEF ScorerInv

LEMMA ScanElementKeeps ==
    ASSUME ScorerInv, NEW r \in Readers, ScanElement(r)
    PROVE  ScorerInv'
<1> DEFINE c == scan[r]
           n == c.node
           x == stats[n]
           t == x.stamps[c.i]
           q == [x.stamps EXCEPT ![c.kept + 1] = t]
           s == [x EXCEPT !.stamps = q]
           further == [[c EXCEPT !.i = c.i + 1] EXCEPT !.kept = c.kept + 1]
           passed == [c EXCEPT !.i = c.i + 1]
<1>1. c \in Scans
  BY DEF ScanElement, NotScanning, ScorerInv
<1>2. /\ n \in Names /\ c.len \in Nat /\ c.i \in Nat /\ c.kept \in Nat
      /\ StatOK(x) /\ ScanOK(c, Len(x.stamps)) /\ c.i <= c.len
  BY <1>1 DEF ScorerInv, Scans, ScanElement
<1>3. x.stamps \in Seq(Nat)
  BY <1>2 DEF StatOK
<1>4. c.i \in 1 .. Len(x.stamps) /\ c.kept + 1 \in 1 .. Len(x.stamps)
  <2> DEFINE L == Len(x.stamps)
             i == c.i
             k == c.kept
  <2>1. L \in Nat
    BY <1>3
  <2>2. c.len <= L /\ i >= 1 /\ k < i /\ i <= c.len /\ i \in Nat /\ k \in Nat /\ c.len \in Nat
    BY <1>2 DEF ScanOK
  <2> HIDE DEF L, i, k
  <2>3. i \in 1 .. L /\ k + 1 \in 1 .. L
    BY <2>1, <2>2
  <2> QED
    BY <2>3 DEF L, i, k
<1>5. t \in Nat
  <2> DEFINE a == x.stamps
             i == c.i
  <2>1. a \in Seq(Nat) /\ i \in 1 .. Len(a)
    BY <1>3, <1>4
  <2> HIDE DEF a, i
  <2>2. a[i] \in Nat
    BY <2>1
  <2> QED
    BY <2>2 DEF a, i
<1>6. /\ UNCHANGED now
      /\ \/ stats' = [stats EXCEPT ![n].stamps[c.kept + 1] = t] /\ scan' = [scan EXCEPT ![r] = further]
         \/ UNCHANGED stats /\ scan' = [scan EXCEPT ![r] = passed]
  BY DEF ScanElement
<1>7. /\ further \in Scans /\ further.node = n /\ further.len = c.len /\ further.i = c.i + 1
      /\ further.kept = c.kept + 1
  <2>1. c.i + 1 \in Nat /\ c.kept + 1 \in Nat
    BY <1>2
  <2> DEFINE i == c.i + 1
             k == c.kept + 1
  <2>2. further = [c EXCEPT !.i = i, !.kept = k]
    OBVIOUS
  <2> HIDE DEF c, i, k, further
  <2>3. further \in Scans /\ MovedTo(further, c, i, k)
    BY <1>1, <2>1, <2>2, ScanMoves DEF i, k
  <2> QED
    BY <2>3 DEF MovedTo, i, k
<1>8. /\ passed \in Scans /\ passed.node = n /\ passed.len = c.len /\ passed.i = c.i + 1
      /\ passed.kept = c.kept
  <2>1. c.i + 1 \in Nat
    BY <1>2
  <2> DEFINE i == c.i + 1
             k == c.kept
  <2>2. passed = [c EXCEPT !.i = i, !.kept = k]
    BY <1>1 DEF Scans
  <2> HIDE DEF c, i, k, passed
  <2>3. passed \in Scans /\ MovedTo(passed, c, i, k)
    BY <1>1, <1>2, <2>1, <2>2, ScanMoves DEF i, k
  <2> QED
    BY <2>3 DEF MovedTo, i, k
<1> HIDE DEF further, passed
<1>9. ScanOK(further, Len(x.stamps)) /\ ScanOK(passed, Len(x.stamps))
  BY <1>2, <1>7, <1>8 DEF ScanOK
<1>10. q \in Seq(Nat) /\ Len(q) = Len(x.stamps)
  BY <1>3, <1>4, <1>5
<1>11. s = [x EXCEPT !.stamps = q]
  OBVIOUS
<1>12. [stats EXCEPT ![n].stamps[c.kept + 1] = t] = [stats EXCEPT ![n] = s]
  OBVIOUS
<1> HIDE DEF s, q, t
<1>13. /\ DOMAIN s = StatFields /\ s.total = x.total /\ s.unresolved = x.unresolved
       /\ s.escalated = x.escalated /\ s.updated = x.updated /\ s.stamps = q /\ s.len = x.len
  BY <1>2, <1>11 DEF StatOK, StatFields
<1> HIDE DEF x, n, c
<1>14. StatOK(s) /\ Len(s.stamps) = Len(x.stamps)
  BY <1>2, <1>10, <1>13 DEF StatOK
<1>15. CASE stats' = [stats EXCEPT ![n].stamps[c.kept + 1] = t] /\ scan' = [scan EXCEPT ![r] = further]
  BY <1>2, <1>6, <1>7, <1>9, <1>12, <1>14, <1>15, ReaderKeeps DEF x
<1>16. CASE UNCHANGED stats /\ scan' = [scan EXCEPT ![r] = passed]
  <2>1. stats' = [stats EXCEPT ![n] = x]
    BY <1>2, <1>16 DEF ScorerInv, x
  <2> QED
    BY <1>2, <1>6, <1>8, <1>9, <1>16, <2>1, ReaderKeeps DEF x
<1> QED
  BY <1>6, <1>15, <1>16

LEMMA ScanEndKeeps ==
    ASSUME ScorerInv, NEW r \in Readers, ScanEnd(r)
    PROVE  ScorerInv'
<1> DEFINE c == scan[r]
           n == c.node
           x == stats[n]
           s == [x EXCEPT !.len = c.kept]
<1>1. c \in Scans
  BY DEF ScanEnd, NotScanning, ScorerInv
<1>2. /\ n \in Names /\ c.len \in Nat /\ c.i \in Nat /\ c.kept \in Nat
      /\ StatOK(x) /\ ScanOK(c, Len(x.stamps))
  BY <1>1 DEF ScorerInv, Scans
<1>3. /\ UNCHANGED now /\ stats' = [stats EXCEPT ![n] = s]
      /\ scan' = [scan EXCEPT ![r] = NotScanning]
  BY DEF ScanEnd
<1>4. c.kept \in 0 .. Len(x.stamps)
  <2> DEFINE L == Len(x.stamps)
             i == c.i
             k == c.kept
  <2>1. L \in Nat
    BY <1>2 DEF StatOK
  <2>2. c.len <= L /\ k < i /\ i <= c.len + 1 /\ i \in Nat /\ k \in Nat /\ c.len \in Nat
    BY <1>2 DEF ScanOK
  <2> HIDE DEF L, i, k
  <2>3. k \in 0 .. L
    BY <2>1, <2>2
  <2> QED
    BY <2>3 DEF L, k
<1>5. /\ DOMAIN s = StatFields /\ s.total = x.total /\ s.unresolved = x.unresolved
      /\ s.escalated = x.escalated /\ s.updated = x.updated /\ s.stamps = x.stamps
      /\ s.len = c.kept
  BY <1>2 DEF StatOK, StatFields
<1>6. NotScanning \notin Scans
  BY DEF NotScanning, Scans
<1> HIDE DEF s
<1> HIDE DEF x, n, c
<1>7. StatOK(s) /\ Len(s.stamps) = Len(x.stamps)
  BY <1>2, <1>4, <1>5 DEF StatOK
<1> QED
  BY <1>2, <1>3, <1>6, <1>7, ReaderKeeps DEF x

LEMMA ScorerStart == Init => ScorerInv
<1> SUFFICES ASSUME Init PROVE ScorerInv
  OBVIOUS
<1>1. now = 0 /\ stats = [n \in Names |-> NoStats] /\ scan = [r \in Readers |-> NotScanning]
  BY DEF Init, ScorerInit, AggregatorInit, ClockInit
<1>2. NotScanning \notin Scans
  BY DEF NotScanning, Scans
<1> HIDE DEF NotScanning
<1>3. \A n \in Names : StatOK(stats[n])
  BY <1>1, StatInit
<1> QED
  BY <1>1, <1>2, <1>3 DEF ScorerInv

LEMMA ScorerStep == AggInv /\ ScorerInv /\ [Next]_vars => ScorerInv'
<1> SUFFICES ASSUME AggInv, ScorerInv, [Next]_vars PROVE ScorerInv'
  OBVIOUS
<1>1. now' \in Nat
  BY AggInvStep DEF AggInv, AggTyped
<1>2. CASE UNCHANGED scorerVars
  BY <1>1, <1>2 DEF scorerVars, ScorerInv
<1>3. CASE Scoring
  BY <1>2, <1>3, RecordAnomalyKeeps, RecordOutcomeKeeps, DecayAllKeeps, ScanStartKeeps,
     ScanElementKeeps, ScanEndKeeps DEF Scoring, ScorerNext
<1> QED
  BY <1>2, <1>3 DEF Next, Analysis, vars

\* The types of the services: a node never has fewer than no unresolved anomaly or
\* more than it ever had, and the readers that prune under a shared lock, any
\* number of them, leave its slice within the array.
THEOREM ServicesTyped == Spec => []TypeOK
<1>1. AggInv /\ ScorerInv => TypeOK
  <2> SUFFICES ASSUME AggInv, ScorerInv PROVE TypeOK
    OBVIOUS
  <2>1. AggregatorTypeOK
    BY DEF AggInv, AggTyped, AggregatorTypeOK, Instants
  <2>2. ScorerTypeOK
    BY DEF ScorerInv, StatOK, ScorerTypeOK, Instants
  <2> QED
    BY <2>1, <2>2 DEF TypeOK
<1> QED
  BY AggInvInit, AggInvStep, ScorerStart, ScorerStep, <1>1, PTL DEF Spec
-----------------------------------------------------------------------------
(* What the readers leave of the timestamps.                               *)

Genuine(a, m) == \A i \in DOMAIN a : \E j \in DOMAIN m : m[j] = a[i]

GenuineInv ==
    /\ made \in [Names -> Seq(Nat)]
    /\ \A n \in Names : Genuine(stats[n].stamps, made[n])

\* Pruning picks elements of the array.
LEMMA PrunedGenuine ==
    ASSUME NEW s, StatOK(s), now \in Nat, NEW m, Genuine(s.stamps, m)
    PROVE  Genuine(Pruned(s).stamps, m)
<1> DEFINE a == s.stamps
           q == Stamps(s)
           S == {i \in DOMAIN q : q[i] > now - ScoreHour}
           x == Picked(q, S)
<1>1. q \in Seq(Nat) /\ \A i \in DOMAIN q : i \in DOMAIN a /\ q[i] = a[i]
  <2>1. a \in Seq(Nat) /\ s.len \in Nat /\ s.len <= Len(a)
    BY DEF StatOK
  <2> HIDE DEF a
  <2>2. q = SubSeq(a, 1, s.len)
    BY DEF Stamps, a
  <2>3. /\ q \in Seq(Nat) /\ Len(q) = s.len
        /\ \A i \in 1 .. s.len : q[i] = a[i]
    BY <2>1, <2>2, PrefixIs
  <2> HIDE DEF q
  <2>4. DOMAIN q = 1 .. s.len /\ DOMAIN a = 1 .. Len(a) /\ Len(a) \in Nat
    BY <2>1, <2>3
  <2> QED
    BY <2>1, <2>3, <2>4
<1>2. Pruned(s).stamps = x
  BY DEF Pruned, Recent, StatOK, StatFields
<1> HIDE DEF a, q
<1>3. S \subseteq DOMAIN q
  OBVIOUS
<1> HIDE DEF S
<1>4. Picks(q, S, x)
  BY <1>1, <1>3, PickedIs
<1> HIDE DEF x
<1>5. ASSUME NEW k \in DOMAIN x PROVE \E j \in DOMAIN m : m[j] = x[k]
  <2>1. Nth(S, k) \in S /\ x[k] = q[Nth(S, k)]
    BY <1>4, <1>5 DEF Picks
  <2>2. Nth(S, k) \in DOMAIN a /\ x[k] = a[Nth(S, k)]
    BY <1>1, <1>3, <2>1
  <2> QED
    BY <2>2 DEF Genuine, a
<1> QED
  BY <1>2, <1>5 DEF Genuine

\* The new timestamp is that of the new anomaly.
LEMMA AnomalyGenuine ==
    ASSUME NEW s, StatOK(s), now \in Nat, NEW m \in Seq(Nat), Genuine(s.stamps, m)
    PROVE  Genuine(Pruned(OneMore(s)).stamps, Append(m, now))
<1> DEFINE a == s.stamps
           q == Stamps(s)
           b == Append(q, now)
           w == Append(m, now)
           t == [s EXCEPT !.total = @ + 1, !.unresolved = @ + 1, !.updated = now,
                          !.stamps = b, !.len = @ + 1]
<1>1. /\ q \in Seq(Nat) /\ Len(q) = s.len /\ s.len \in Nat
      /\ a \in Seq(Nat) /\ s.len <= Len(a)
  BY StampsTyped DEF StatOK
<1>2. \A i \in 1 .. s.len : q[i] = a[i] /\ i \in DOMAIN a
  <2>1. q = SubSeq(a, 1, s.len)
    BY DEF Stamps
  <2> HIDE DEF a, q
  <2>2. \A i \in 1 .. s.len : q[i] = a[i]
    BY <1>1, <2>1, PrefixIs
  <2>3. DOMAIN a = 1 .. Len(a) /\ Len(a) \in Nat
    BY <1>1
  <2> QED
    BY <1>1, <2>2, <2>3
<1> HIDE DEF q
<1>3. /\ b \in Seq(Nat) /\ Len(b) = s.len + 1 /\ b[s.len + 1] = now
      /\ \A i \in 1 .. s.len : b[i] = q[i]
  BY <1>1, AppendIs
<1>4. /\ DOMAIN w = 1 .. Len(m) + 1 /\ w[Len(m) + 1] = now /\ Len(m) \in Nat
      /\ DOMAIN m = 1 .. Len(m) /\ \A j \in 1 .. Len(m) : w[j] = m[j]
  <2>1. w \in Seq(Nat) /\ Len(w) = Len(m) + 1
    BY AppendIs
  <2> QED
    BY <2>1, AppendIs
<1> HIDE DEF b, w
<1>5. /\ DOMAIN t = StatFields /\ t.total = s.total + 1 /\ t.unresolved = s.unresolved + 1
      /\ t.escalated = s.escalated /\ t.updated = now /\ t.stamps = b /\ t.len = s.len + 1
  BY DEF StatOK, StatFields
<1> HIDE DEF t
<1>6. StatOK(t)
  <2>1. s.total + 1 \in Nat /\ s.unresolved + 1 \in 0 .. s.total + 1 /\ s.len + 1 \in 0 .. s.len + 1
    BY DEF StatOK
  <2>2. now \in MaybeInstants
    BY DEF MaybeInstants
  <2> QED
    BY <1>3, <1>5, <2>1, <2>2 DEF StatOK
<1>7. ASSUME NEW i \in DOMAIN b PROVE \E j \in DOMAIN w : w[j] = b[i]
  <2>1. DOMAIN b = 1 .. s.len + 1
    BY <1>3
  <2>2. CASE i = s.len + 1
    <3>1. Len(m) + 1 \in DOMAIN w /\ w[Len(m) + 1] = b[i]
      BY <1>3, <1>4, <2>2
    <3> QED
      BY <3>1
  <2>3. CASE i \in 1 .. s.len
    <3>1. b[i] = a[i] /\ i \in DOMAIN a
      BY <1>2, <1>3, <2>3
    <3>2. PICK j \in DOMAIN m : m[j] = a[i]
      BY <3>1 DEF Genuine
    <3>3. j \in DOMAIN w /\ w[j] = b[i]
      BY <1>4, <3>1, <3>2
    <3> QED
      BY <3>3
  <2> QED
    BY <1>1, <2>1, <2>2, <2>3
<1>8. Genuine(t.stamps, w)
  BY <1>5, <1>7 DEF Genuine
<1> QED
  BY <1>6, <1>8, PrunedGenuine DEF t, b, q, w, OneMore

LEMMA RecordAnomalyGenuine ==
    ASSUME ScorerInv, GenuineInv, NEW n \in Names, RecordAnomaly(n)
    PROVE  GenuineInv'
<1> DEFINE s == Pruned(OneMore(stats[n]))
           w == Append(made[n], now)
<1>1. made[n] \in Seq(Nat) /\ now \in Nat /\ StatOK(stats[n]) /\ Genuine(stats[n].stamps, made[n])
  BY DEF ScorerInv, GenuineInv
<1>2. Genuine(s.stamps, w) /\ w \in Seq(Nat)
  BY <1>1, AnomalyGenuine, AppendIs
<1>3. stats' = [stats EXCEPT ![n] = s] /\ made' = [made EXCEPT ![n] = w]
  BY DEF RecordAnomaly
<1> HIDE DEF s, w
<1>4. made' \in [Names -> Seq(Nat)]
  BY <1>2, <1>3 DEF GenuineInv
<1>5. ASSUME NEW m \in Names PROVE Genuine(stats'[m].stamps, made'[m])
  BY <1>2, <1>3 DEF GenuineInv, ScorerInv
<1> QED
  BY <1>4, <1>5 DEF GenuineInv

\* The other writers only prune.
LEMMA WriterGenuine ==
    ASSUME ScorerInv, GenuineInv, UNCHANGED made,
           \A n \in Names :
               \/ stats'[n] = stats[n]
               \/ \E x : StatOK(x) /\ x.stamps = stats[n].stamps /\ stats'[n] = Pruned(x)
    PROVE  GenuineInv'
<1>1. ASSUME NEW n \in Names PROVE Genuine(stats'[n].stamps, made'[n])
  <2>1. Genuine(stats[n].stamps, made[n]) /\ now \in Nat
    BY DEF GenuineInv, ScorerInv
  <2>2. CASE stats'[n] = stats[n]
    BY <2>1, <2>2
  <2>3. ASSUME NEW x, StatOK(x), x.stamps = stats[n].stamps, stats'[n] = Pruned(x)
        PROVE  Genuine(stats'[n].stamps, made'[n])
    BY <2>1, <2>3, PrunedGenuine
  <2> QED
    BY <2>2, <2>3
<1> QED
  BY <1>1 DEF GenuineInv

\* The element a reader moves is one of the array.
LEMMA ScanElementGenuine ==
    ASSUME ScorerInv, GenuineInv, NEW r \in Readers, ScanElement(r)
    PROVE  GenuineInv'
<1> DEFINE c == scan[r]
           n == c.node
           a == stats[n].stamps
           k == c.kept + 1
<1>1. c \in Scans
  BY DEF ScanElement, NotScanning, ScorerInv
<1>2. /\ n \in Names /\ c.len \in Nat /\ c.i \in Nat /\ c.kept \in Nat
      /\ StatOK(stats[n]) /\ ScanOK(c, Len(a)) /\ c.i <= c.len
  BY <1>1 DEF ScorerInv, Scans, ScanElement
<1>3. a \in Seq(Nat) /\ Genuine(a, made[n])
  BY <1>2 DEF StatOK, GenuineInv
<1>4. c.i \in DOMAIN a
  <2>1. DOMAIN a = 1 .. Len(a) /\ Len(a) \in Nat
    BY <1>3
  <2> QED
    BY <1>2, <2>1 DEF ScanOK
<1>5. UNCHANGED made /\ (UNCHANGED stats \/ stats' = [stats EXCEPT ![n].stamps[k] = a[c.i]])
  BY DEF ScanElement
<1>6. CASE UNCHANGED stats
  BY <1>5, <1>6 DEF GenuineInv
<1>7. CASE stats' = [stats EXCEPT ![n].stamps[k] = a[c.i]]
  <2> DEFINE b == [a EXCEPT ![k] = a[c.i]]
  <2>1. /\ \A m \in Names \ {n} : stats'[m] = stats[m]
        /\ stats'[n] = [stats[n] EXCEPT !.stamps = b]
    BY <1>2, <1>7 DEF ScorerInv
  <2>2. stats'[n].stamps = b
    BY <1>2, <2>1 DEF StatOK, StatFields
  <2>3. ASSUME NEW j \in DOMAIN b PROVE j \in DOMAIN a /\ (b[j] = a[j] \/ b[j] = a[c.i])
    OBVIOUS
  <2> HIDE DEF a, b, k
  <2>4. Genuine(b, made[n])
    BY <1>3, <1>4, <2>3 DEF Genuine
  <2> QED
    BY <1>2, <1>5, <2>1, <2>2, <2>4 DEF GenuineInv
<1> QED
  BY <1>5, <1>6, <1>7

\* The end of a loop changes only the length in the slice header.
LEMMA ScanEndGenuine ==
    ASSUME ScorerInv, GenuineInv, NEW r \in Readers, ScanEnd(r)
    PROVE  GenuineInv'
<1>1. ASSUME NEW m \in Names PROVE stats'[m].stamps = stats[m].stamps
  BY <1>1 DEF ScanEnd, ScorerInv, StatOK, StatFields
<1> QED
  BY <1>1 DEF ScanEnd, GenuineInv

LEMMA GenuineStart == Init => GenuineInv
<1> SUFFICES ASSUME Init PROVE GenuineInv
  OBVIOUS
<1>1. stats = [n \in Names |-> NoStats] /\ made = [n \in Names |-> <<>>]
  BY DEF Init, ScorerInit
<1>2. DOMAIN NoStats.stamps = {} /\ <<>> \in Seq(Nat)
  BY DEF NoStats
<1> QED
  BY <1>1, <1>2 DEF GenuineInv, Genuine

LEMMA GenuineStep == ScorerInv /\ GenuineInv /\ [Next]_vars => GenuineInv'
<1> SUFFICES ASSUME ScorerInv, GenuineInv, [Next]_vars PROVE GenuineInv'
  OBVIOUS
<1>1. CASE UNCHANGED <<stats, made>>
  BY <1>1 DEF GenuineInv
<1>2. ASSUME NEW n \in Names, NEW o, RecordOutcome(n, o) PROVE GenuineInv'
  <2>1. /\ UNCHANGED made /\ StatOK(Settled(stats[n], o))
        /\ Settled(stats[n], o).stamps = stats[n].stamps
    BY <1>2, SettledIs DEF RecordOutcome, ScorerInv, Settled, StatOK, StatFields
  <2>2. \A m \in Names : stats'[m] = IF m = n THEN Pruned(Settled(stats[n], o)) ELSE stats[m]
    BY <1>2 DEF RecordOutcome, ScorerInv
  <2> QED
    BY <2>1, <2>2, WriterGenuine
<1>3. CASE DecayAll
  <2>1. \A n \in Names : /\ StatOK(Decayed(stats[n]))
                         /\ Decayed(stats[n]).stamps = stats[n].stamps
    BY DecayedIs DEF ScorerInv, Decayed, StatOK, StatFields
  <2>2. \A n \in Names : stats'[n] = IF stats[n].updated = NoTime THEN stats[n]
                                     ELSE Pruned(Decayed(stats[n]))
    BY <1>3 DEF DecayAll
  <2>3. UNCHANGED made
    BY <1>3 DEF DecayAll
  <2> QED
    BY <2>1, <2>2, <2>3, WriterGenuine
<1>4. ASSUME NEW r \in Readers, NEW n \in Names, ScanStart(r, n) PROVE GenuineInv'
  BY <1>1, <1>4 DEF ScanStart
<1>5. CASE Scoring
  BY <1>1, <1>2, <1>3, <1>4, <1>5, RecordAnomalyGenuine, ScanElementGenuine, ScanEndGenuine
     DEF Scoring, ScorerNext, scorerVars
<1> QED
  BY <1>1, <1>5 DEF Next, Analysis, vars, scorerVars

\* Readers that prune under a shared lock, any number of them and interleaved in any
\* way, never leave a timestamp that is not of an anomaly of that node.
THEOREM ReadersInventNothing == Spec => []StampsGenuine
<1>1. GenuineInv => StampsGenuine
  BY DEF GenuineInv, Genuine, StampsGenuine
<1> QED
  BY AggInvInit, AggInvStep, ScorerStart, ScorerStep, GenuineStart, GenuineStep, <1>1, PTL DEF Spec
=============================================================================
