------------------------------ MODULE EventBus ------------------------------
(***************************************************************************)
(* One durable consumer of the SELFHEAL stream and the processes that share *)
(* it (internal/bus, and the agent's publisher): stream set-up, the        *)
(* pull-consumer loop, acknowledgements and restarts.  Timing is left out: *)
(* a delivery may outlast AckWait at any moment, because messages of a     *)
(* batch are handled one after the other and a handler may take as long as *)
(* AckWait itself; so may one that is lost on its way, and the stream may  *)
(* drop a message whenever it is old or the stream full.  Back-offs and    *)
(* transient fetch errors only delay.                                      *)
(***************************************************************************)
EXTENDS Integers, FiniteSets

CONSTANTS Messages,     \* messages of the stream
          Poison,       \* those the handler returns an error for
          Replicas,     \* processes that share the consumer
          BatchSize,
          MaxDeliver,   \* 3
          MaxAttempts,  \* 10: attempts of EnsureStream
          MaxCrashes, MaxOutages, MaxLosses,  \* bounds on failures
          MaxMissed,    \* bound on the deliveries of a message lost in transit
          MaxFailures   \* bound on the failures of all kinds together

ASSUME BusAssumption ==
    /\ Poison \subseteq Messages
    /\ IsFiniteSet(Replicas)
    /\ BatchSize \in Nat \ {0} /\ MaxDeliver \in Nat \ {0} /\ MaxAttempts \in Nat \ {0}
    /\ MaxCrashes \in Nat /\ MaxOutages \in Nat /\ MaxLosses \in Nat /\ MaxMissed \in Nat
    /\ MaxFailures \in Nat

VARIABLES up, outages,      \* NATS is reachable; times it was not
          stream,           \* retention policy the stream was created with
          consumer, losses, \* the durable consumer exists; times it was lost
          sent, stored,     \* messages given to PublishAsync; messages in the stream
          status,           \* of each message at the consumer
          deliveries,       \* and how often it was delivered
          pc, attempts,     \* the loop of each replica; EnsureStream's counter
          queue,            \* its batch: what is on the way to it, then what is left
          missed,           \* deliveries of each message that did not arrive
          crashes,
          handled,          \* history: handler calls for each message
          succeeded         \* history: messages the handler returned nil for

serverVars == <<up, outages, stream, consumer, losses, sent, stored>>
deliveryVars == <<status, deliveries>>
replicaVars == <<pc, attempts, queue, missed, crashes>>
historyVars == <<handled, succeeded>>
vars == <<serverVars, deliveryVars, replicaVars, historyVars>>

Init ==
    /\ up = TRUE /\ outages = 0
    /\ stream = "none"
    /\ consumer = FALSE /\ losses = 0
    /\ sent = {} /\ stored = {}
    /\ status = [m \in Messages |-> "new"]
    /\ deliveries = [m \in Messages |-> 0]
    /\ pc = [r \in Replicas |-> "ensure"]
    /\ attempts = [r \in Replicas |-> 0]
    /\ queue = [r \in Replicas |-> {}]
    /\ missed = [m \in Messages |-> 0]
    /\ crashes = 0
    /\ handled = [m \in Messages |-> 0]
    /\ succeeded = {}

-----------------------------------------------------------------------------
(* Publishing and stream set-up.                                           *)

\* PublishAsync returns before the server has answered and nobody collects the
\* answer: without a server or a stream the message may be lost.
Publish(m) ==
    /\ m \notin sent
    /\ sent' = sent \cup {m}
    /\ \/ stream # "none" /\ stored' = stored \cup {m}
       \/ (stream = "none" \/ ~up) /\ UNCHANGED stored
    /\ UNCHANGED <<up, outages, stream, consumer, losses, deliveryVars, replicaVars, historyVars>>

\* The agent's ensureStream asks for a work queue, once, and only logs an error.
\* The server refuses to change the retention policy of an existing stream.
AgentEnsureStream ==
    /\ up
    /\ stream = "none"
    /\ stream' = "workqueue"
    /\ UNCHANGED <<up, outages, consumer, losses, sent, stored, deliveryVars, replicaVars,
                   historyVars>>

\* bus.EnsureStream asks for a stream with limits.
EnsureStream(r) ==
    /\ pc[r] = "ensure"
    /\ up
    /\ stream \in {"none", "limits"}
    /\ stream' = "limits"
    /\ pc' = [pc EXCEPT ![r] = "acquire"]
    /\ UNCHANGED <<up, outages, consumer, losses, sent, stored, deliveryVars, attempts, queue,
                   missed, crashes, historyVars>>

\* Mutation: the attempts are not limited.
EnsureFails_Unlimited(r) ==
    /\ pc[r] = "ensure"
    /\ ~up \/ stream = "workqueue"
    /\ attempts' = [attempts EXCEPT ![r] = @ + 1]
    /\ UNCHANGED <<serverVars, deliveryVars, pc, queue, missed, crashes, historyVars>>

\* An attempt fails; after the last one the process exits and starts again.
EnsureFails(r) ==
    /\ pc[r] = "ensure"
    /\ ~up \/ stream = "workqueue"
    /\ attempts' = [attempts EXCEPT ![r] = IF @ < MaxAttempts THEN @ + 1 ELSE 0]
    /\ UNCHANGED <<serverVars, deliveryVars, pc, queue, missed, crashes, historyVars>>

-----------------------------------------------------------------------------
(* consume().                                                              *)

\* acquireConsumer: CreateOrUpdateConsumer.  A consumer that has to be created
\* again delivers the whole stream again (DeliverAllPolicy).
AcquireConsumer(r) ==
    /\ pc[r] = "acquire"
    /\ up
    /\ consumer' = TRUE
    /\ IF consumer THEN UNCHANGED deliveryVars
       ELSE /\ status' = [m \in Messages |-> "new"]
            /\ deliveries' = [m \in Messages |-> 0]
    /\ pc' = [pc EXCEPT ![r] = "fetch"]
    /\ UNCHANGED <<up, outages, stream, losses, sent, stored, attempts, queue, missed, crashes,
                   historyVars>>

Deliverable == {m \in stored : status[m] \in {"new", "due"}}

\* Mutation: messages are acknowledged when they are fetched.
Fetch_AutoAck(r) ==
    /\ pc[r] = "fetch"
    /\ up /\ consumer
    /\ \E batch \in (SUBSET Deliverable) \ {{}} :
          /\ Cardinality(batch) <= BatchSize
          /\ queue' = [queue EXCEPT ![r] = batch]
          /\ status' = [m \in Messages |-> IF m \in batch THEN "settled" ELSE status[m]]
          /\ deliveries' = [m \in Messages |-> deliveries[m] + (IF m \in batch THEN 1 ELSE 0)]
    /\ pc' = [pc EXCEPT ![r] = "transit"]
    /\ UNCHANGED <<serverVars, attempts, missed, crashes, historyVars>>

\* Fetch: the server hands out some of the messages that are due.
Fetch(r) ==
    /\ pc[r] = "fetch"
    /\ up /\ consumer
    /\ \E batch \in (SUBSET Deliverable) \ {{}} :
          /\ Cardinality(batch) <= BatchSize
          /\ queue' = [queue EXCEPT ![r] = batch]
          /\ status' = [m \in Messages |-> IF m \in batch THEN "pending" ELSE status[m]]
          /\ deliveries' = [m \in Messages |-> deliveries[m] + (IF m \in batch THEN 1 ELSE 0)]
    /\ pc' = [pc EXCEPT ![r] = "transit"]
    /\ UNCHANGED <<serverVars, attempts, missed, crashes, historyVars>>

\* A replica is left with the messages in rest.  After the last one batch.Error()
\* may report a stale handle.
GoesOnWith(r, rest) ==
    /\ queue' = [queue EXCEPT ![r] = rest]
    /\ \/ rest # {} /\ pc' = [pc EXCEPT ![r] = "batch"]
       \/ rest = {} /\ pc' = [pc EXCEPT ![r] = "fetch"]
       \/ rest = {} /\ (~up \/ ~consumer) /\ pc' = [pc EXCEPT ![r] = "acquire"]

\* A bound of the model: one more failure of any kind is considered.
MayFail ==
    crashes + outages + losses + Cardinality({m \in Messages : missed[m] > 0}) < MaxFailures

\* The batch ends because it is complete, because FetchMaxWait is over or because the
\* connection breaks.  What has not arrived by then never does; the server counts it.
Receive(r) ==
    /\ pc[r] = "transit"
    /\ \E lost \in SUBSET {m \in queue[r] : missed[m] < MaxMissed} :
          /\ lost # {} => MayFail
          /\ missed' = [m \in Messages |-> missed[m] + (IF m \in lost THEN 1 ELSE 0)]
          /\ GoesOnWith(r, queue[r] \ lost)
    /\ UNCHANGED <<serverVars, deliveryVars, attempts, crashes, historyVars>>

\* Nothing arrived before FetchMaxWait.
FetchEmpty(r) ==
    /\ pc[r] = "fetch"
    /\ up /\ consumer /\ Deliverable = {}
    /\ UNCHANGED vars

\* Mutation: the handle is only renewed while the server cannot be reached.
FetchStale_Spins(r) ==
    /\ pc[r] = "fetch"
    /\ ~up \/ ~consumer
    /\ pc' = [pc EXCEPT ![r] = IF up THEN "fetch" ELSE "acquire"]
    /\ UNCHANGED <<serverVars, deliveryVars, attempts, queue, missed, crashes, historyVars>>

\* isStaleConsumerErr: no responders, or the consumer is gone.
FetchStale(r) ==
    /\ pc[r] = "fetch"
    /\ ~up \/ ~consumer
    /\ pc' = [pc EXCEPT ![r] = "acquire"]
    /\ UNCHANGED <<serverVars, deliveryVars, attempts, queue, missed, crashes, historyVars>>

\* What the server makes of a delivery that is refused or outlasts AckWait.
Redeliver(m) == IF deliveries[m] < MaxDeliver THEN "due" ELSE "exhausted"

\* Ack or Nak for any delivery of m the server still waits for.  It may be lost
\* with the connection; its error is ignored.
Acknowledge(m) ==
    \/ /\ status[m] \in {"pending", "due"}
       /\ status' = [status EXCEPT ![m] = IF m \in Poison THEN Redeliver(m) ELSE "settled"]
    \/ /\ ~up \/ status[m] \notin {"pending", "due"}
       /\ UNCHANGED status

HandlerCall(m) ==
    /\ handled' = [handled EXCEPT ![m] = @ + 1]
    /\ succeeded' = IF m \in Poison THEN succeeded ELSE succeeded \cup {m}

\* Mutation: a stale handle ends the batch.
Handle_DropsBatch(r) ==
    /\ pc[r] = "batch"
    /\ \E m \in queue[r] :
          /\ HandlerCall(m) /\ Acknowledge(m)
          /\ GoesOnWith(r, IF up /\ consumer THEN queue[r] \ {m} ELSE {})
    /\ UNCHANGED <<serverVars, deliveries, attempts, missed, crashes>>

\* Mutation: a message whose handler failed is tried again at once.
Handle_Retries(r) ==
    /\ pc[r] = "batch"
    /\ \E m \in queue[r] :
          /\ HandlerCall(m) /\ Acknowledge(m)
          /\ GoesOnWith(r, IF m \in Poison THEN queue[r] ELSE queue[r] \ {m})
    /\ UNCHANGED <<serverVars, deliveries, attempts, missed, crashes>>

\* The handler is called with the next message of the batch, then Ack or Nak.
Handle(r) ==
    /\ pc[r] = "batch"
    /\ \E m \in queue[r] :
          /\ HandlerCall(m) /\ Acknowledge(m)
          /\ GoesOnWith(r, queue[r] \ {m})
    /\ UNCHANGED <<serverVars, deliveries, attempts, missed, crashes>>

-----------------------------------------------------------------------------
(* The server and failures.                                                *)

\* AckWait is over for a delivery of m, wherever the message is.
AckWaitOver(m) ==
    /\ up /\ consumer
    /\ status[m] = "pending"
    /\ status' = [status EXCEPT ![m] = Redeliver(m)]
    /\ UNCHANGED <<serverVars, deliveries, replicaVars, historyVars>>

\* The process dies with the rest of its batch and is restarted.
Crash(r) ==
    /\ crashes < MaxCrashes /\ MayFail
    /\ crashes' = crashes + 1
    /\ pc' = [pc EXCEPT ![r] = "ensure"]
    /\ attempts' = [attempts EXCEPT ![r] = 0]
    /\ queue' = [queue EXCEPT ![r] = {}]
    /\ UNCHANGED <<serverVars, deliveryVars, missed, historyVars>>

Outage ==
    /\ up
    /\ outages < MaxOutages /\ MayFail
    /\ up' = FALSE
    /\ outages' = outages + 1
    /\ UNCHANGED <<stream, consumer, losses, sent, stored, deliveryVars, replicaVars, historyVars>>

Recover ==
    /\ ~up
    /\ up' = TRUE
    /\ UNCHANGED <<outages, stream, consumer, losses, sent, stored, deliveryVars, replicaVars,
                   historyVars>>

\* MaxAge and DiscardOld: the stream drops a message.
Discard(m) ==
    /\ m \in stored
    /\ stored' = stored \ {m}
    /\ UNCHANGED <<up, outages, stream, consumer, losses, sent, deliveryVars, replicaVars,
                   historyVars>>

\* The server-side consumer was cleaned up.
ConsumerLost ==
    /\ consumer
    /\ losses < MaxLosses /\ MayFail
    /\ consumer' = FALSE
    /\ losses' = losses + 1
    /\ UNCHANGED <<up, outages, stream, sent, stored, deliveryVars, replicaVars, historyVars>>

ReplicaStep(r) ==
    \/ EnsureStream(r) \/ AcquireConsumer(r)
    \/ Fetch(r) \/ Receive(r) \/ FetchStale(r) \/ Handle(r)

Next ==
    \/ \E m \in Messages : Publish(m) \/ Discard(m) \/ AckWaitOver(m)
    \/ AgentEnsureStream
    \/ \E r \in Replicas : ReplicaStep(r) \/ EnsureFails(r) \/ FetchEmpty(r) \/ Crash(r)
    \/ Outage \/ Recover \/ ConsumerLost

Spec == Init /\ [][Next]_vars

\* Goroutines are scheduled, AckWait ends, and an outage does too.
FairSpec ==
    /\ Spec
    /\ \A r \in Replicas : WF_vars(ReplicaStep(r))
    /\ \A m \in Messages : WF_vars(AckWaitOver(m))
    /\ WF_vars(Recover)

-----------------------------------------------------------------------------
(* Properties.                                                             *)

\* The types of the whole state; a process starts at most MaxAttempts retries.
TypeOK ==
    /\ up \in BOOLEAN /\ consumer \in BOOLEAN
    /\ stream \in {"none", "limits", "workqueue"}
    /\ stored \subseteq sent /\ sent \subseteq Messages
    /\ status \in [Messages -> {"new", "pending", "due", "settled", "exhausted"}]
    /\ deliveries \in [Messages -> 0 .. MaxDeliver]
    /\ pc \in [Replicas -> {"ensure", "acquire", "fetch", "transit", "batch"}]
    /\ attempts \in [Replicas -> 0 .. MaxAttempts]
    /\ queue \in [Replicas -> SUBSET Messages]
    /\ missed \in [Messages -> 0 .. MaxMissed]
    /\ \A r \in Replicas : (pc[r] \in {"transit", "batch"}) = (queue[r] # {})

\* The server never forgets a message that no handler has accepted: whatever
\* acknowledgements come late, come twice or are lost, what is settled was
\* handled successfully.
AckedWasHandled == \A m \in Messages : status[m] = "settled" => m \in succeeded

Queued == UNION {queue[r] : r \in Replicas}

\* Deliveries are used up by waiting in batches, by outages and by crashes, and on
\* the way to a replica, as well as by failing handlers; still, as long as fewer
\* processes have crashed and fewer deliveries of a message were lost on their way
\* than it has deliveries, it is not given up before a handler saw it.
NotAbandoned ==
    \A m \in Messages :
        crashes + missed[m] < MaxDeliver /\ status[m] = "exhausted" =>
            handled[m] > 0 \/ m \in Queued

\* A message, poisonous or not, is handled at most MaxDeliver times for every
\* time the consumer had to be created.
BoundedHandling == \A m \in Messages : handled[m] <= MaxDeliver * (losses + 1)

\* "instead of spinning forever on a dead reference": every message in the
\* stream reaches a handler, through outages, lost consumers and restarts, unless the
\* stream drops it first or its deliveries die with processes and connections.
EventuallyHandled ==
    \A m \in Messages :
        m \in stored /\ stream = "limits" ~>
            handled[m] > 0 \/ m \notin stored \/ crashes + missed[m] >= MaxDeliver

\* "EnsureStream is idempotent - safe on restart": a process does not stay in
\* its set-up for ever, whichever process created the stream.
SetupSucceeds == \A r \in Replicas : pc[r] = "ensure" ~> pc[r] # "ensure"
=============================================================================
