----------------------------- MODULE Aggregator -----------------------------
(***************************************************************************)
(* The node-level analysis of internal/intelligence: the aggregator's      *)
(* subscriber goroutine records the anomalies of each node, its flush      *)
(* goroutine turns a node's window into an incident, and the reasoner, the *)
(* incident handler, attributes it.  The node scores it feeds are a module *)
(* of their own (NodeHealthScorer).  The aggregator's mutex is held        *)
(* throughout flush except while the handler runs.  A deleted window and an *)
(* empty one are the same: flush deletes a window it finds empty, and      *)
(* record creates it with its first entry.                                 *)
(***************************************************************************)
EXTENDS DependencyGraph, Reasoner, Subsequences, Clock

CONSTANTS SignalSets,       \* active_signals of the anomalies considered
          AggregationWindow,
          MinPodsThreshold,
          MaxMessages,      \* bound on the anomalies received
          MaxInputs         \* bound on these and the changes of the graph together

ASSUME AggregatorAssumption ==
    /\ AggregationWindow \in Nat \ {0}
    /\ MinPodsThreshold \in Nat \ {0}
    /\ MaxMessages \in Nat /\ MaxInputs \in Nat

VARIABLES inbox,        \* the entry handleAnomalyMessage is about to record
          received,     \* number of messages received
          windows,      \* Nodes -> sequence of entries
          pc,           \* the flush goroutine
          flush,        \* its locals: cutoff, nodes due, nodes seen, current node
          incident,     \* the incident in the handler, NoIncident otherwise
          event,        \* the last IncidentEvent and what it was about
          pending       \* history: Nodes -> entries recorded and not reported

aggVars == <<inbox, received, windows, pc, flush, incident, event, pending>>
aggregatorVars == <<now, graphVars, aggVars>>

NoEntry == [node |-> NoNode]
NoIncident == <<>>
NoEvent == [action |-> "none"]
NotFlushing == [cutoff |-> NoTime, due |-> {}, seen |-> {}, node |-> NoNode]

AggregatorInit ==
    /\ ClockInit /\ GraphInit
    /\ inbox = NoEntry
    /\ received = 0
    /\ windows = [n \in Nodes |-> <<>>]
    /\ pc = "idle"
    /\ flush = NotFlushing
    /\ incident = NoIncident
    /\ event = NoEvent
    /\ pending = [n \in Nodes |-> {}]

-----------------------------------------------------------------------------
(* The subscriber goroutine: handleAnomalyMessage and record.              *)

\* An anomaly of a pod the graph knows: its node and the node's name are
\* looked up and the entry is stamped.
Lookup(p, signals) ==
    /\ inbox = NoEntry
    /\ received < MaxMessages /\ received + updates < MaxInputs
    /\ podToNode[p] # NoNode
    /\ received' = received + 1
    /\ inbox' = [node |-> podToNode[p], pod |-> p, signals |-> signals, at |-> now,
                 name |-> IF podToNode[p] \in known THEN podToNode[p] ELSE NoNode]
    /\ UNCHANGED <<now, graphVars, windows, pc, flush, incident, event, pending>>

\* The anomaly of a pod that is not in the graph is skipped.
Skip(p) ==
    /\ inbox = NoEntry
    /\ received < MaxMessages /\ received + updates < MaxInputs
    /\ podToNode[p] = NoNode
    /\ received' = received + 1
    /\ UNCHANGED <<now, graphVars, inbox, windows, pc, flush, incident, event, pending>>

\* The flush goroutine holds the mutex except before and in the handler.
Unlocked == pc \in {"idle", "classify", "clear"}

Entry(e) == [pod |-> e.pod, name |-> e.name, signals |-> e.signals, at |-> e.at]

\* record(): history notes whether a flush is under way, and whether the entry
\* joins the very window whose incident is being handled.
Record ==
    /\ inbox # NoEntry
    /\ Unlocked
    /\ windows' = [windows EXCEPT ![inbox.node] = Append(@, Entry(inbox))]
    /\ pending' = [pending EXCEPT ![inbox.node] = @ \cup
          {[pod |-> inbox.pod, at |-> inbox.at, late |-> pc # "idle",
            joined |-> flush.node = inbox.node]}]
    /\ inbox' = NoEntry
    /\ UNCHANGED <<now, graphVars, received, pc, flush, incident, event>>

-----------------------------------------------------------------------------
(* The flush goroutine.                                                    *)

Fresh(entries) == Picked(entries, {i \in DOMAIN entries : entries[i].at > flush.cutoff})

\* The first entry of each pod, in order.
FirstOfPods(entries) ==
    {i \in DOMAIN entries : \A j \in 1 .. i - 1 : entries[j].pod # entries[i].pod}
UniquePods(entries) == Picked(entries, FirstOfPods(entries))

\* uniquePods is built in the array of the window it reads.
Overwritten(fresh, unique) == [i \in DOMAIN fresh |->
    IF i <= Len(unique) THEN unique[i] ELSE fresh[i]]

Present(n) == windows[n] # <<>>

\* The ticker fires: the lock is taken and the cutoff computed.
FlushStart ==
    /\ pc = "idle"
    /\ pc' = "flush"
    /\ flush' = [NotFlushing EXCEPT !.cutoff = now - AggregationWindow,
                                    !.due = {n \in Nodes : Present(n)}]
    /\ pending' = [n \in Nodes |->
          {[e EXCEPT !.late = FALSE] : e \in {f \in pending[n] : f.at > now - AggregationWindow}}]
    /\ UNCHANGED <<now, graphVars, inbox, received, windows, incident, event>>

\* Too few pods: the window waits, or is deleted if all entries have expired.
FlushQuiet(n, fresh, unique) ==
    /\ Len(unique) < MinPodsThreshold
    /\ windows' = [windows EXCEPT ![n] = Overwritten(fresh, unique)]
    /\ flush' = [flush EXCEPT !.due = @ \ {n}, !.seen = IF fresh = <<>> THEN @ ELSE @ \cup {n}]
    /\ UNCHANGED <<pc, incident, pending>>

\* The incident is built and the mutex released for the handler.
FlushReport(n, fresh, unique) ==
    /\ Len(unique) >= MinPodsThreshold
    /\ windows' = [windows EXCEPT ![n] = Overwritten(fresh, unique)]
    /\ flush' = [flush EXCEPT !.due = @ \ {n}, !.node = n]
    /\ incident' = unique
    /\ pending' = [pending EXCEPT ![n] = {}]
    /\ pc' = "classify"

\* One iteration of the range over the map: a node that was present at the
\* start must be visited, one that was added since, even after having been
\* deleted in this loop, may be.
FlushVisit(n) ==
    /\ pc = "flush"
    /\ Present(n)
    /\ n \notin flush.seen
    /\ LET fresh == Fresh(windows[n])
           unique == UniquePods(fresh)
       IN FlushQuiet(n, fresh, unique) \/ FlushReport(n, fresh, unique)
    /\ UNCHANGED <<now, graphVars, inbox, received, event>>

\* The handler: Analyse classifies the incident with the graph as it is now and
\* attributes it to the node named by its first entry.
IncidentPods == {incident[i].pod : i \in DOMAIN incident}
Analyse ==
    /\ pc = "classify"
    /\ event' = Classify(incident, SharedVolumes(IncidentPods))
    /\ incident' = NoIncident
    /\ pc' = "clear"
    /\ UNCHANGED <<now, graphVars, inbox, received, windows, flush, pending>>

\* Mutation: the window of a reported incident is not deleted.
FlushClear_Keeps ==
    /\ pc = "clear"
    /\ flush' = [flush EXCEPT !.node = NoNode]
    /\ pc' = "flush"
    /\ UNCHANGED <<now, graphVars, inbox, received, windows, incident, event, pending>>

\* The mutex is taken again and the node's window deleted, with the entries
\* recorded since the incident was built.
FlushClear ==
    /\ pc = "clear"
    /\ windows' = [windows EXCEPT ![flush.node] = <<>>]
    /\ flush' = [flush EXCEPT !.node = NoNode]
    /\ pc' = "flush"
    /\ UNCHANGED <<now, graphVars, inbox, received, incident, event, pending>>

FlushEnd ==
    /\ pc = "flush"
    /\ \A n \in flush.due : ~Present(n)
    /\ pc' = "idle"
    /\ flush' = NotFlushing
    /\ UNCHANGED <<now, graphVars, inbox, received, windows, incident, event, pending>>

-----------------------------------------------------------------------------
(* Graph updates and time.                                                 *)

UpdateGraph == GraphNext /\ received + updates' <= MaxInputs /\ UNCHANGED <<now, aggVars>>

TimePasses == Tick /\ UNCHANGED <<graphVars, aggVars>>

AggregatorNext ==
    \/ \E p \in Pods : Skip(p) \/ \E signals \in SignalSets : Lookup(p, signals)
    \/ Record
    \/ FlushStart
    \/ \E n \in Nodes : FlushVisit(n)
    \/ Analyse
    \/ FlushClear
    \/ FlushEnd
    \/ UpdateGraph
    \/ TimePasses

-----------------------------------------------------------------------------
(* Properties.                                                             *)

Entries == [pod : Pods, name : Nodes \cup {NoNode}, signals : SignalSets, at : Instants]

\* The types of the whole state; the flush goroutine has a node in hand exactly
\* while the handler runs.
AggregatorTypeOK ==
    /\ now \in Instants
    /\ GraphTypeOK
    /\ windows \in [Nodes -> Seq(Entries)]
    /\ incident \in Seq(Entries)
    /\ pc \in {"idle", "flush", "classify", "clear"}
    /\ (pc \in {"classify", "clear"}) = (flush.node \in Nodes)

\* An incident is about enough different pods, each with an anomaly that was
\* recorded for this node, is not too old and was part of no earlier incident.
IncidentSound ==
    [][pc' = "classify" /\ pc # "classify" =>
          LET n == flush'.node
          IN /\ Cardinality({incident'[i].pod : i \in DOMAIN incident'}) >= MinPodsThreshold
             /\ \A i, j \in DOMAIN incident' : i # j => incident'[i].pod # incident'[j].pod
             /\ \A i \in DOMAIN incident' :
                   /\ incident'[i].at > flush'.cutoff
                   /\ \E e \in pending[n] : e.pod = incident'[i].pod /\ e.at = incident'[i].at
      ]_aggregatorVars

\* The pods of n with an anomaly that is inside the window, was recorded before
\* this flush began, was never reported and did not join a window whose incident
\* was being handled.
Unreported(n) ==
    {e.pod : e \in {f \in pending[n] : ~f.late /\ ~f.joined /\ f.at > flush.cutoff}}

\* When a flush has nothing left to visit, no node is left with enough such pods:
\* whatever is recorded while the mutex is released, an incident was emitted for
\* every node that had one.  (Anomalies recorded while an incident of their own
\* node is handled are lost with its window.)  This is so for a threshold of two,
\* the default; with three, compacting a window in place drops the younger of two
\* anomalies of a pod, and once the older has expired the pod is not counted.
NoMissedIncident ==
    pc = "flush" /\ (\A n \in flush.due : ~Present(n)) =>
        \A n \in Nodes : Cardinality(Unreported(n)) < MinPodsThreshold

\* Both directions: incidents are reported for the nodes that have one and for
\* no other.
IncidentsExact == IncidentSound /\ []NoMissedIncident

\* Cordoning a node is suggested only if some cause's signals are each shown by
\* more than 60% of the pods the incident is about.
CordonNeedsMajority ==
    event.action = "cordon_node" =>
        \E i \in DOMAIN RootCausePatterns :
            /\ RootCausePatterns[i].action = "cordon_node"
            /\ \A s \in RootCausePatterns[i].signals :
                  10 * Cardinality({j \in DOMAIN event.about : s \in event.about[j].signals})
                      > 6 * Cardinality({event.about[j].pod : j \in DOMAIN event.about})
=============================================================================
