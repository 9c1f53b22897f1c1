------------------------------ MODULE BusProofs ------------------------------
(***************************************************************************)
(* What the server has settled was handled, for any messages, replicas,    *)
(* batch size and delivery limit, and any number of failures.              *)
(***************************************************************************)
EXTENDS EventBus, FiniteSetTheorems, TLAPS

Statuses == {"new", "pending", "due", "settled", "exhausted"}

\* The proof needs no more of the types than that every message has a status.
AckInv ==
    /\ status \in [Messages -> Statuses]
    /\ AckedWasHandled

\* At first no message is settled.
LEMMA AckInit == Init => AckInv
BY DEF Init, AckInv, AckedWasHandled, Statuses

\* The steps that touch the status of a message; only an acknowledgement settles
\* one, after the handler has returned nil for it.
LEMMA AckStep == AckInv /\ [Next]_vars => AckInv'
<1> SUFFICES ASSUME AckInv, [Next]_vars PROVE AckInv'
  OBVIOUS
<1> USE DEF AckInv, AckedWasHandled, Statuses
<1>1. ASSUME NEW m \in Messages, AckWaitOver(m) PROVE AckInv'
  BY <1>1 DEF AckWaitOver, Redeliver, historyVars
<1>2. ASSUME NEW r \in Replicas, AcquireConsumer(r) PROVE AckInv'
  BY <1>2 DEF AcquireConsumer, deliveryVars, historyVars
<1>3. ASSUME NEW r \in Replicas, Fetch(r) PROVE AckInv'
  <2>1. PICK batch \in SUBSET Deliverable :
            status' = [m \in Messages |-> IF m \in batch THEN "pending" ELSE status[m]]
    BY <1>3 DEF Fetch
  <2> QED
    BY <1>3, <2>1 DEF Fetch, historyVars
<1>4. ASSUME NEW r \in Replicas, Handle(r) PROVE AckInv'
  <2>1. PICK m \in queue[r] :
           /\ succeeded' = IF m \in Poison THEN succeeded ELSE succeeded \cup {m}
           /\ Acknowledge(m)
    BY <1>4 DEF Handle, HandlerCall
  <2>2. CASE status' = [status EXCEPT ![m] = IF m \in Poison THEN Redeliver(m) ELSE "settled"]
    <3>1. CASE m \in Poison
      BY <2>1, <2>2, <3>1 DEF Redeliver
    <3>2. CASE m \notin Poison
      BY <2>1, <2>2, <3>2
    <3> QED
      BY <3>1, <3>2
  <2>3. CASE UNCHANGED status
    BY <2>1, <2>3
  <2> QED
    BY <2>1, <2>2, <2>3 DEF Acknowledge
<1>5. CASE UNCHANGED <<status, succeeded>>
  BY <1>5
<1> QED
  BY <1>1, <1>2, <1>3, <1>4, <1>5
     DEF Next, ReplicaStep, Publish, Discard, AgentEnsureStream, EnsureStream, EnsureFails,
         Receive, FetchStale, FetchEmpty, Crash, Outage, Recover, ConsumerLost,
         vars, deliveryVars, historyVars

\* Late, lost and duplicate acknowledgements, restarts, outages and a consumer
\* created anew never settle a message that no handler accepted.
THEOREM SettledWasHandled == Spec => []AckedWasHandled
<1>1. AckInv => AckedWasHandled
  BY DEF AckInv
<1> QED
  BY AckInit, AckStep, <1>1, PTL DEF Spec
-----------------------------------------------------------------------------
(* Types, and how often a message was delivered.                           *)

\* A message that waits for its first delivery had none, one that waits for
\* another has some left, and one given up has none left.
DeliveryInv ==
    /\ TypeOK
    /\ losses \in Nat /\ crashes \in Nat /\ handled \in [Messages -> Nat]
    /\ \A m \in Messages :
          /\ status[m] = "new" => deliveries[m] = 0
          /\ status[m] = "due" => deliveries[m] < MaxDeliver
          /\ status[m] = "exhausted" => deliveries[m] = MaxDeliver

\* The replicas that still hold a copy of m in their batch.
Holders(m) == {r \in Replicas : m \in queue[r]}

\* Consumers that were lost before the one that made the counted deliveries.
Gone == IF consumer \/ losses = 0 THEN losses ELSE losses - 1

\* Every delivery ends in a handler call, waits in a batch, was lost on its way or
\* died with a process; and no handler call comes from anything but a delivery.
CountInv ==
    /\ \A m \in Messages :
          /\ deliveries[m] <= handled[m] + Cardinality(Holders(m)) + crashes + missed[m]
          /\ handled[m] + Cardinality(Holders(m)) <= deliveries[m] + MaxDeliver * Gone
    /\ ~consumer /\ losses = 0 => \A m \in Messages : deliveries[m] = 0

LEMMA DeliveryInit == Init => DeliveryInv
<1> SUFFICES ASSUME Init PROVE DeliveryInv
  OBVIOUS
<1> USE BusAssumption DEF Init
<1>1. /\ status \in [Messages -> Statuses]
      /\ deliveries \in [Messages -> 0 .. MaxDeliver]
      /\ attempts \in [Replicas -> 0 .. MaxAttempts]
      /\ handled \in [Messages -> Nat]
      /\ missed \in [Messages -> 0 .. MaxMissed]
  BY DEF Statuses
<1>2. /\ queue \in [Replicas -> SUBSET Messages]
      /\ pc \in [Replicas -> {"ensure", "acquire", "fetch", "transit", "batch"}]
      /\ \A r \in Replicas : (pc[r] \in {"transit", "batch"}) = (queue[r] # {})
  OBVIOUS
<1>3. TypeOK
  BY <1>1, <1>2 DEF TypeOK, Statuses
<1> QED
  BY <1>1, <1>3 DEF DeliveryInv

\* Step by step: a delivery is only made of a message that has one left, and a
\* message is only made due again, by AckWait or by Nak, while it has one left.
LEMMA DeliveryStep == DeliveryInv /\ [Next]_vars => DeliveryInv'
<1> SUFFICES ASSUME DeliveryInv, [Next]_vars PROVE DeliveryInv'
  OBVIOUS
<1> USE BusAssumption DEF DeliveryInv, TypeOK
<1>1. ASSUME NEW m \in Messages, Publish(m) PROVE DeliveryInv'
  BY <1>1 DEF Publish, deliveryVars, replicaVars, historyVars
<1>2. ASSUME NEW m \in Messages, AckWaitOver(m) PROVE DeliveryInv'
  BY <1>2 DEF AckWaitOver, Redeliver, serverVars, replicaVars, historyVars
<1>3. CASE AgentEnsureStream
  BY <1>3 DEF AgentEnsureStream, deliveryVars, replicaVars, historyVars
<1>4. ASSUME NEW r \in Replicas, EnsureStream(r) PROVE DeliveryInv'
  BY <1>4 DEF EnsureStream, deliveryVars, historyVars
<1>5. ASSUME NEW r \in Replicas, AcquireConsumer(r) PROVE DeliveryInv'
  BY <1>5 DEF AcquireConsumer, deliveryVars, historyVars
<1>6. ASSUME NEW r \in Replicas, Fetch(r) PROVE DeliveryInv'
  <2>1. PICK batch \in (SUBSET Deliverable) \ {{}} :
           /\ queue' = [queue EXCEPT ![r] = batch]
           /\ status' = [m \in Messages |-> IF m \in batch THEN "pending" ELSE status[m]]
           /\ deliveries' = [m \in Messages |-> deliveries[m] + (IF m \in batch THEN 1 ELSE 0)]
    BY <1>6 DEF Fetch
  <2>2. /\ pc' = [pc EXCEPT ![r] = "transit"]
        /\ UNCHANGED <<serverVars, attempts, missed, crashes, historyVars>>
    BY <1>6 DEF Fetch
  <2>3. \A m \in Messages : m \in batch => deliveries[m] < MaxDeliver
    BY <2>1 DEF Deliverable
  <2>4. deliveries' \in [Messages -> 0 .. MaxDeliver]
    BY <2>1, <2>3
  <2>5. \A m \in Messages : deliveries'[m] = deliveries[m] \/ status'[m] = "pending"
    BY <2>1
  <2>6. batch \subseteq Messages
    BY <2>1 DEF Deliverable
  <2>7. queue' \in [Replicas -> SUBSET Messages]
    BY <2>1, <2>6
  <2>8. \A q \in Replicas : (pc'[q] \in {"transit", "batch"}) = (queue'[q] # {})
    <3> SUFFICES ASSUME NEW q \in Replicas
                 PROVE  (pc'[q] \in {"transit", "batch"}) = (queue'[q] # {})
      OBVIOUS
    <3>1. CASE q = r
      BY <2>1, <2>2, <3>1
    <3>2. CASE q # r
      BY <2>1, <2>2, <3>2
    <3> QED
      BY <3>1, <3>2
  <2>9. /\ status' \in [Messages -> Statuses]
        /\ \A m \in Messages : status'[m] # "pending" => status'[m] = status[m]
    BY <2>1 DEF Statuses
  <2>10. TypeOK'
    BY <2>2, <2>4, <2>7, <2>8, <2>9 DEF serverVars, Statuses
  <2> QED
    BY <2>2, <2>5, <2>9, <2>10 DEF serverVars, historyVars
<1>7. ASSUME NEW r \in Replicas, FetchStale(r) PROVE DeliveryInv'
  BY <1>7 DEF FetchStale, serverVars, deliveryVars, historyVars
<1>8. ASSUME NEW r \in Replicas, Handle(r) PROVE DeliveryInv'
  <2>1. PICK m \in queue[r] : /\ HandlerCall(m) /\ Acknowledge(m)
                              /\ GoesOnWith(r, queue[r] \ {m})
    BY <1>8 DEF Handle
  <2>2. UNCHANGED <<serverVars, deliveries, attempts, missed, crashes>> /\ pc[r] = "batch"
    BY <1>8 DEF Handle
  <2>3. m \in Messages
    OBVIOUS
  <2>4. handled' \in [Messages -> Nat]
    BY <2>1, <2>3 DEF HandlerCall
  <2>5. /\ status' \in [Messages -> Statuses]
        /\ \A n \in Messages : status'[n] # status[n] =>
              \/ status'[n] = "settled"
              \/ status'[n] = "due" /\ deliveries[n] < MaxDeliver
              \/ status'[n] = "exhausted" /\ ~(deliveries[n] < MaxDeliver)
    BY <2>1, <2>3 DEF Acknowledge, Redeliver, Statuses
  <2>6. /\ queue' \in [Replicas -> SUBSET Messages]
        /\ pc' \in [Replicas -> {"ensure", "acquire", "fetch", "transit", "batch"}]
    BY <2>1, <2>2 DEF GoesOnWith
  <2>7. \A q \in Replicas : (pc'[q] \in {"transit", "batch"}) = (queue'[q] # {})
    BY <2>1, <2>2 DEF GoesOnWith
  <2>8. TypeOK'
    BY <2>2, <2>5, <2>6, <2>7 DEF serverVars, Statuses
  <2>9. deliveries' = deliveries /\ losses' = losses /\ crashes' = crashes
    BY <2>2 DEF serverVars
  <2>10. ASSUME NEW x \in Messages
         PROVE  /\ status'[x] = "new" => deliveries[x] = 0
                /\ status'[x] = "due" => deliveries[x] < MaxDeliver
                /\ status'[x] = "exhausted" => deliveries[x] = MaxDeliver
    <3>1. deliveries[x] \in 0 .. MaxDeliver
      OBVIOUS
    <3>2. CASE status'[x] = status[x]
      BY <3>2
    <3>3. CASE status'[x] # status[x]
      BY <2>5, <3>1, <3>3
    <3> QED
      BY <3>2, <3>3
  <2> QED
    BY <2>4, <2>8, <2>9, <2>10
<1>9. ASSUME NEW r \in Replicas, EnsureFails(r) PROVE DeliveryInv'
  BY <1>9 DEF EnsureFails, serverVars, deliveryVars, historyVars
<1>10. ASSUME NEW r \in Replicas, FetchEmpty(r) PROVE DeliveryInv'
  BY <1>10 DEF FetchEmpty, vars, serverVars, deliveryVars, replicaVars, historyVars
<1>11. ASSUME NEW r \in Replicas, Crash(r) PROVE DeliveryInv'
  BY <1>11 DEF Crash, serverVars, deliveryVars, historyVars
<1>12. CASE Outage
  BY <1>12 DEF Outage, deliveryVars, replicaVars, historyVars
<1>13. CASE Recover
  <2>1. TypeOK'
    BY <1>13 DEF Recover, deliveryVars, replicaVars
  <2> QED
    BY <1>13, <2>1 DEF Recover, deliveryVars, replicaVars, historyVars
<1>14. CASE ConsumerLost
  <2>1. TypeOK'
    BY <1>14 DEF ConsumerLost, deliveryVars, replicaVars
  <2>2. losses' \in Nat
    BY <1>14 DEF ConsumerLost
  <2> QED
    BY <1>14, <2>1, <2>2 DEF ConsumerLost, deliveryVars, replicaVars, historyVars
<1>16. ASSUME NEW m \in Messages, Discard(m) PROVE DeliveryInv'
  BY <1>16 DEF Discard, deliveryVars, replicaVars, historyVars
<1>17. ASSUME NEW r \in Replicas, Receive(r) PROVE DeliveryInv'
  <2>1. PICK lost \in SUBSET {m \in queue[r] : missed[m] < MaxMissed} :
           /\ missed' = [m \in Messages |-> missed[m] + (IF m \in lost THEN 1 ELSE 0)]
           /\ GoesOnWith(r, queue[r] \ lost)
    BY <1>17 DEF Receive
  <2>2. UNCHANGED <<serverVars, deliveryVars, attempts, crashes, historyVars>>
    BY <1>17 DEF Receive
  <2>3. missed' \in [Messages -> 0 .. MaxMissed]
    BY <2>1
  <2>4. /\ queue' \in [Replicas -> SUBSET Messages]
        /\ pc' \in [Replicas -> {"ensure", "acquire", "fetch", "transit", "batch"}]
    BY <2>1 DEF GoesOnWith
  <2>5. \A q \in Replicas : (pc'[q] \in {"transit", "batch"}) = (queue'[q] # {})
    BY <2>1 DEF GoesOnWith
  <2>6. TypeOK'
    BY <2>2, <2>3, <2>4, <2>5 DEF serverVars, deliveryVars
  <2> QED
    BY <2>2, <2>6 DEF serverVars, deliveryVars, historyVars
<1>15. CASE UNCHANGED vars
  BY <1>15 DEF vars, serverVars, deliveryVars, replicaVars, historyVars
<1> QED
  BY <1>1, <1>2, <1>3, <1>4, <1>5, <1>6, <1>7, <1>8, <1>9, <1>10, <1>11, <1>12, <1>13,
     <1>14, <1>15, <1>16, <1>17
     DEF Next, ReplicaStep

\* The server counts no delivery beyond MaxDeliver, a replica is in its batch
\* exactly as long as messages of it are left, and EnsureStream's attempts end.
THEOREM BusTyped == Spec => []TypeOK
<1>1. DeliveryInv => TypeOK
  BY DEF DeliveryInv
<1> QED
  BY DeliveryInit, DeliveryStep, <1>1, PTL DEF Spec

-----------------------------------------------------------------------------
(* Copies of a message.                                                    *)

\* There are finitely many copies of a message.
LEMMA HoldersFinite ==
    ASSUME NEW m
    PROVE  IsFiniteSet(Holders(m)) /\ Cardinality(Holders(m)) \in Nat
<1>1. Holders(m) \subseteq Replicas
  BY DEF Holders
<1> QED
  BY <1>1, BusAssumption, FS_Subset, FS_CardinalityType

\* A step that changes the batch of one replica adds a copy, removes one, or
\* leaves their number alone.
LEMMA CopiesChange ==
    ASSUME NEW m, NEW r \in Replicas,
           \A q \in Replicas : q # r => queue'[q] = queue[q]
    PROVE  /\ m \in queue'[r] /\ m \notin queue[r] =>
                  Cardinality(Holders(m)') = Cardinality(Holders(m)) + 1
           /\ m \notin queue'[r] /\ m \in queue[r] =>
                  Cardinality(Holders(m)') = Cardinality(Holders(m)) - 1
           /\ (m \in queue'[r]) = (m \in queue[r]) => Holders(m)' = Holders(m)
<1>1. ASSUME m \in queue'[r], m \notin queue[r]
      PROVE  Cardinality(Holders(m)') = Cardinality(Holders(m)) + 1
  <2>1. Holders(m)' = Holders(m) \cup {r} /\ r \notin Holders(m)
    BY <1>1 DEF Holders
  <2> QED
    BY <2>1, HoldersFinite, FS_AddElement
<1>2. ASSUME m \notin queue'[r], m \in queue[r]
      PROVE  Cardinality(Holders(m)') = Cardinality(Holders(m)) - 1
  <2>1. Holders(m)' = Holders(m) \ {r} /\ r \in Holders(m)
    BY <1>2 DEF Holders
  <2> QED
    BY <2>1, HoldersFinite, FS_RemoveElement
<1>3. ASSUME (m \in queue'[r]) = (m \in queue[r]) PROVE Holders(m)' = Holders(m)
  BY <1>3 DEF Holders
<1> QED
  BY <1>1, <1>2, <1>3

LEMMA CountInit == Init => CountInv
<1> SUFFICES ASSUME Init PROVE CountInv
  OBVIOUS
<1>1. \A m \in Messages : Cardinality(Holders(m)) = 0
  BY FS_EmptySet DEF Init, Holders
<1> QED
  BY <1>1, BusAssumption DEF Init, CountInv, Gone
\* Deliveries, handler calls, copies and crashes move together in every step.
LEMMA CountStep == DeliveryInv /\ CountInv /\ [Next]_vars => CountInv'
<1> SUFFICES ASSUME DeliveryInv, CountInv, [Next]_vars PROVE CountInv'
  OBVIOUS
<1>0. /\ queue \in [Replicas -> SUBSET Messages]
      /\ handled \in [Messages -> Nat] /\ deliveries \in [Messages -> 0 .. MaxDeliver]
      /\ losses \in Nat /\ crashes \in Nat
      /\ missed \in [Messages -> Nat]
      /\ MaxDeliver \in Nat
  BY BusAssumption DEF DeliveryInv, TypeOK
<1>a. /\ Gone \in Nat
      /\ MaxDeliver * Gone \in Nat
      /\ \A m \in Messages : Cardinality(Holders(m)) \in Nat
  BY <1>0, HoldersFinite DEF Gone
<1>1. CASE UNCHANGED <<queue, handled, deliveries, losses, consumer, missed, crashes>>
  <2>1. Gone' = Gone /\ \A m \in Messages : Holders(m)' = Holders(m)
    BY <1>1 DEF Gone, Holders
  <2> QED
    BY <1>1, <2>1 DEF CountInv
<1>2. ASSUME NEW r \in Replicas, AcquireConsumer(r) PROVE CountInv'
  <2>1. /\ UNCHANGED <<queue, handled, losses, missed, crashes>> /\ consumer' = TRUE
        /\ \A m \in Messages : Holders(m)' = Holders(m)
    BY <1>2 DEF AcquireConsumer, historyVars, Holders
  <2>2. CASE consumer
    <3>1. Gone' = Gone /\ UNCHANGED deliveries
      BY <1>2, <2>1, <2>2 DEF AcquireConsumer, deliveryVars, Gone
    <3> QED
      BY <2>1, <2>2, <3>1 DEF CountInv
  <2>3. CASE ~consumer
    <3>1. \A m \in Messages : deliveries'[m] = 0
      BY <1>2, <2>3 DEF AcquireConsumer
    <3>2. CASE losses = 0
      <4>1. Gone' = Gone
        BY <2>1, <3>2 DEF Gone
      <4> QED
        BY <2>1, <2>3, <3>1, <3>2, <4>1, <1>0, <1>a DEF CountInv
    <3>3. CASE losses # 0
      <4>1. Gone' = Gone + 1
        BY <1>0, <2>1, <2>3, <3>3 DEF Gone
      <4>2. MaxDeliver * (Gone + 1) = MaxDeliver * Gone + MaxDeliver
        BY <1>0, <1>a
      <4>3. \A m \in Messages : deliveries[m] \in Nat /\ deliveries[m] <= MaxDeliver
        BY <1>0
      <4> QED
        BY <2>1, <3>1, <4>1, <4>2, <4>3, <1>0, <1>a DEF CountInv
    <3> QED
      BY <3>2, <3>3
  <2> QED
    BY <2>2, <2>3
<1>3. ASSUME NEW r \in Replicas, Fetch(r) PROVE CountInv'
  <2>1. PICK batch \in (SUBSET Deliverable) \ {{}} :
           /\ queue' = [queue EXCEPT ![r] = batch]
           /\ deliveries' = [m \in Messages |-> deliveries[m] + (IF m \in batch THEN 1 ELSE 0)]
    BY <1>3 DEF Fetch
  <2>2. UNCHANGED <<handled, losses, missed, crashes, consumer>> /\ consumer /\ queue[r] = {}
    BY <1>3 DEF Fetch, serverVars, historyVars, DeliveryInv, TypeOK
  <2>3. Gone' = Gone
    BY <2>2 DEF Gone
  <2>4. ASSUME NEW m \in Messages
        PROVE  Cardinality(Holders(m)') =
                  Cardinality(Holders(m)) + (IF m \in batch THEN 1 ELSE 0)
    <3>1. /\ \A q \in Replicas : q # r => queue'[q] = queue[q]
          /\ queue'[r] = batch
      BY <1>0, <2>1
    <3>2. CASE m \in batch
      BY <2>2, <3>1, <3>2, CopiesChange
    <3>3. CASE m \notin batch
      <4>1. Holders(m)' = Holders(m)
        BY <2>2, <3>1, <3>3, CopiesChange
      <4> QED
        BY <3>3, <4>1, <1>a
    <3> QED
      BY <3>2, <3>3
  <2> QED
    BY <1>0, <1>a, <2>1, <2>2, <2>3, <2>4 DEF CountInv
<1>4. ASSUME NEW r \in Replicas, Handle(r) PROVE CountInv'
  <2>1. PICK m \in queue[r] : HandlerCall(m) /\ GoesOnWith(r, queue[r] \ {m})
    BY <1>4 DEF Handle
  <2>2. UNCHANGED <<deliveries, losses, missed, crashes, consumer>>
    BY <1>4 DEF Handle, serverVars
  <2>3. Gone' = Gone
    BY <2>2 DEF Gone
  <2>4. /\ \A q \in Replicas : q # r => queue'[q] = queue[q]
        /\ queue'[r] = queue[r] \ {m}
    BY <1>0, <2>1 DEF GoesOnWith
  <2>5. /\ m \in Messages
        /\ handled' = [handled EXCEPT ![m] = handled[m] + 1]
    BY <1>0, <2>1 DEF HandlerCall
  <2>6. Cardinality(Holders(m)') = Cardinality(Holders(m)) - 1
    BY <2>4, CopiesChange
  <2>7. ASSUME NEW n \in Messages, n # m PROVE Holders(n)' = Holders(n)
    BY <2>4, <2>7, CopiesChange
  <2> QED
    BY <1>0, <1>a, <2>2, <2>3, <2>5, <2>6, <2>7 DEF CountInv
<1>5. ASSUME NEW r \in Replicas, Crash(r) PROVE CountInv'
  <2>1. /\ UNCHANGED <<handled, deliveries, losses, consumer, missed>> /\ crashes' = crashes + 1
        /\ queue' = [queue EXCEPT ![r] = {}]
    BY <1>5 DEF Crash, serverVars, deliveryVars, historyVars
  <2>2. Gone' = Gone
    BY <2>1 DEF Gone
  <2>3. \A q \in Replicas : (q # r => queue'[q] = queue[q]) /\ queue'[r] = {}
    BY <1>0, <2>1
  <2>4. ASSUME NEW m \in Messages
        PROVE  Cardinality(Holders(m)') \in
                  {Cardinality(Holders(m)), Cardinality(Holders(m)) - 1}
    <3>1. CASE m \in queue[r]
      BY <2>3, <3>1, CopiesChange
    <3>2. CASE m \notin queue[r]
      <4>1. Holders(m)' = Holders(m)
        BY <2>3, <3>2, CopiesChange
      <4> QED
        BY <4>1
    <3> QED
      BY <3>1, <3>2
  <2> QED
    BY <1>0, <1>a, <2>1, <2>2, <2>4 DEF CountInv
<1>6. CASE ConsumerLost
  <2>1. /\ UNCHANGED <<queue, handled, deliveries, missed, crashes>>
        /\ consumer /\ consumer' = FALSE /\ losses' = losses + 1
    BY <1>6 DEF ConsumerLost, deliveryVars, replicaVars, historyVars
  <2>2. Gone' = Gone /\ losses' # 0
    BY <1>0, <2>1 DEF Gone
  <2>3. \A m \in Messages : Holders(m)' = Holders(m)
    BY <2>1 DEF Holders
  <2> QED
    BY <2>1, <2>2, <2>3 DEF CountInv
<1>8. ASSUME NEW r \in Replicas, Receive(r) PROVE CountInv'
  <2>1. PICK lost \in SUBSET {m \in queue[r] : missed[m] < MaxMissed} :
           /\ missed' = [m \in Messages |-> missed[m] + (IF m \in lost THEN 1 ELSE 0)]
           /\ GoesOnWith(r, queue[r] \ lost)
    BY <1>8 DEF Receive
  <2>2. UNCHANGED <<handled, deliveries, losses, crashes, consumer>>
    BY <1>8 DEF Receive, serverVars, deliveryVars, historyVars
  <2>3. Gone' = Gone
    BY <2>2 DEF Gone
  <2>4. /\ \A q \in Replicas : q # r => queue'[q] = queue[q]
        /\ queue'[r] = queue[r] \ lost
    BY <1>0, <2>1 DEF GoesOnWith
  <2>5. ASSUME NEW m \in Messages
        PROVE  /\ Cardinality(Holders(m)') + missed'[m] = Cardinality(Holders(m)) + missed[m]
               /\ Cardinality(Holders(m)') <= Cardinality(Holders(m))
               /\ Cardinality(Holders(m)') \in Nat /\ missed'[m] \in Nat
    <3>1. CASE m \in lost
      <4>1. Cardinality(Holders(m)') = Cardinality(Holders(m)) - 1
        BY <2>1, <2>4, <3>1, CopiesChange
      <4>2. missed'[m] = missed[m] + 1 /\ Holders(m) # {}
        BY <1>0, <2>1, <3>1 DEF Holders
      <4>3. Cardinality(Holders(m)) # 0
        BY <4>2, HoldersFinite, FS_EmptySet
      <4> QED
        BY <1>0, <1>a, <4>1, <4>2, <4>3
    <3>2. CASE m \notin lost
      <4>1. Holders(m)' = Holders(m)
        BY <2>4, <3>2, CopiesChange
      <4>2. missed'[m] = missed[m]
        BY <1>0, <2>1, <3>2
      <4> QED
        BY <1>0, <1>a, <4>1, <4>2
    <3> QED
      BY <3>1, <3>2
  <2> QED
    BY <1>0, <1>a, <2>2, <2>3, <2>5 DEF CountInv
<1>7. CASE UNCHANGED vars
  BY <1>1, <1>7 DEF vars, serverVars, deliveryVars, replicaVars, historyVars
<1> QED
  BY <1>1, <1>2, <1>3, <1>4, <1>5, <1>6, <1>7, <1>8
     DEF Next, ReplicaStep, Publish, Discard, AckWaitOver, AgentEnsureStream, EnsureStream, EnsureFails,
         FetchStale, FetchEmpty, Outage, Recover, serverVars, deliveryVars, replicaVars, historyVars

BusInv == DeliveryInv /\ CountInv

LEMMA BusInvariant == Spec => []BusInv
<1>1. Init => BusInv
  BY DeliveryInit, CountInit DEF BusInv
<1>2. BusInv /\ [Next]_vars => BusInv'
  BY DeliveryStep, CountStep DEF BusInv
<1> QED
  BY <1>1, <1>2, PTL DEF Spec

\* A poisonous message is handled at most MaxDeliver times for each consumer:
\* copies that survive a lost consumer in some batch are paid for by it.
THEOREM HandlingBounded == Spec => []BoundedHandling
<1>1. BusInv => BoundedHandling
  <2> SUFFICES ASSUME BusInv, NEW m \in Messages
               PROVE  handled[m] <= MaxDeliver * (losses + 1)
    BY DEF BoundedHandling
  <2>1. /\ handled[m] \in Nat /\ deliveries[m] \in 0 .. MaxDeliver
        /\ losses \in Nat /\ MaxDeliver \in Nat
    BY BusAssumption DEF BusInv, DeliveryInv, TypeOK
  <2>2. handled[m] + Cardinality(Holders(m)) <= deliveries[m] + MaxDeliver * Gone
    BY DEF BusInv, CountInv
  <2>3. Cardinality(Holders(m)) \in Nat
    BY HoldersFinite
  <2>4. Gone \in Nat /\ Gone <= losses
    BY <2>1 DEF Gone
  <2>5. MaxDeliver * Gone <= MaxDeliver * losses
    BY <2>1, <2>4
  <2>6. MaxDeliver * (losses + 1) = MaxDeliver * losses + MaxDeliver
    BY <2>1
  <2> QED
    BY <2>1, <2>2, <2>3, <2>4, <2>5, <2>6
<1> QED
  BY BusInvariant, <1>1, PTL

\* A message is given up only after a handler saw it, or while a copy still waits
\* in a batch, unless as many of its deliveries were lost on their way, or processes
\* crashed, as it has deliveries.
THEOREM NeverAbandoned == Spec => []NotAbandoned
<1>1. BusInv => NotAbandoned
  <2> SUFFICES ASSUME BusInv, NEW m \in Messages, crashes + missed[m] < MaxDeliver,
                      status[m] = "exhausted", ~(handled[m] > 0)
               PROVE  m \in Queued
    BY DEF NotAbandoned
  <2>1. /\ handled[m] = 0 /\ deliveries[m] = MaxDeliver /\ crashes \in Nat
        /\ missed[m] \in Nat /\ MaxDeliver \in Nat
    BY BusAssumption DEF BusInv, DeliveryInv, TypeOK
  <2>2. deliveries[m] <= handled[m] + Cardinality(Holders(m)) + crashes + missed[m]
    BY DEF BusInv, CountInv
  <2>3. Cardinality(Holders(m)) # 0
    BY <2>1, <2>2, HoldersFinite
  <2>4. Holders(m) # {}
    BY <2>3, FS_EmptySet
  <2> QED
    BY <2>4 DEF Holders, Queued
<1> QED
  BY BusInvariant, <1>1, PTL
=============================================================================
