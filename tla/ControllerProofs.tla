-------------------------- MODULE ControllerProofs --------------------------
(***************************************************************************)
(* Proofs about the controller, for every set of pods, nodes and anomaly   *)
(* types, every policy and every clock horizon.                            *)
(***************************************************************************)
EXTENDS Controller, FiniteSetTheorems, TLAPS

-----------------------------------------------------------------------------
(* What the reconciler goroutine holds at each program point.              *)

Paid == {"escalate", "store", "confirm", "cooldown", "cordon", "dispatch",
         "failed", "launch"}
Chosen == {"cooldown", "cordon", "dispatch", "failed", "launch"}
Granted == {"cordon", "dispatch"}

\* From gate to gate the handler keeps an anomaly in hand, has paid a token,
\* has chosen an action the dispatcher knows, and has recorded its cooldown.
ControlOK ==
    /\ pc # "idle" => req \in Contexts
    /\ pc \in Paid => lastToken \in Instants
    /\ pc = "store" => local.state # "MANUAL"
    /\ pc = "confirm" => local.action \in HealingActions \cup {"manual"}
    /\ pc \in Chosen => local.action \in HealingActions
    /\ pc \in Granted => cdLast[Key] \in Instants

\* NextAction stays on the ladder, and from any entry but MANUAL it chooses an
\* action of the ladder.
LEMMA NextRungType ==
    ASSUME NEW e \in EscalationEntry
    PROVE  /\ NextRung(e) \in EscalationEntry
           /\ e.state # "MANUAL" => NextRung(e).action \in HealingActions \cup {"manual"}
BY EscalationAssumption
   DEF EscalationEntry, NextRung, Rung, LadderStates, LadderActions, HealingActions,
       MaybeInstants, NoTime

\* What MarkResolved and an absent key store are entries.
LEMMA EntryTypes ==
    ASSUME TypeOK
    PROVE  NoEntry \in EscalationEntry /\ ResolvedEntry \in EscalationEntry
BY DEF TypeOK, EscalationEntry, NoEntry, ResolvedEntry, LadderStates,
       LadderActions, MaybeInstants, NoTime, Instants

\* A breaker's outcome records.
Outcomes == [id : Nat, at : Nat, success : BOOLEAN]

\* Recording an outcome keeps the breaker's types.
LEMMA RecordedType ==
    ASSUME TypeOK, NEW id \in Nat, NEW ok \in BOOLEAN
    PROVE  Recorded(id, ok) \subseteq Outcomes
<1>1. {r \in cbHistory : r.at > now - EvalWindow} \subseteq Outcomes
  BY DEF TypeOK, Instants, Outcomes
<1>2. [id |-> id, at |-> now, success |-> ok] \in Outcomes
  BY DEF TypeOK, Instants, Outcomes
<1> QED
  BY <1>1, <1>2 DEF Recorded

BreakerTypeOK ==
    /\ cbHistory \subseteq Outcomes
    /\ cbOpen \in BOOLEAN
    /\ cbTrippedAt \in Nat \cup {-1}

\* RecordFailure keeps the breaker's types, whether or not it trips.
LEMMA RecordFailureType ==
    ASSUME TypeOK, NEW id \in Nat, RecordFailure(id)
    PROVE  BreakerTypeOK'
<1> USE DEF BreakerTypeOK, Instants, MaybeInstants, NoTime
<1>0. BreakerTypeOK
  BY DEF TypeOK, Outcomes
<1>1. CASE BreakerEnabled
  <2>1. cbHistory' = Recorded(id, FALSE) /\ cbOpen' = (cbOpen \/ Trips(Recorded(id, FALSE)))
    BY <1>1 DEF RecordFailure
  <2>2. cbTrippedAt' = now \/ cbTrippedAt' = cbTrippedAt
    BY <1>1 DEF RecordFailure
  <2>3. cbHistory' \subseteq Outcomes
    BY <2>1, RecordedType
  <2>4. cbOpen' \in BOOLEAN
    BY <2>1
  <2> QED
    BY <1>0, <2>2, <2>3, <2>4 DEF TypeOK
<1>2. CASE ~BreakerEnabled
  BY <1>0, <1>2 DEF RecordFailure, cbVars
<1> QED
  BY <1>1, <1>2

\* RecordSuccess keeps the breaker's types.
LEMMA RecordSuccessType ==
    ASSUME TypeOK, NEW id \in Nat, RecordSuccess(id)
    PROVE  BreakerTypeOK'
<1>1. cbHistory' = Recorded(id, TRUE) \/ cbHistory' = cbHistory
  BY DEF RecordSuccess
<1>2. cbHistory' \subseteq Outcomes
  BY <1>1, RecordedType DEF TypeOK, Outcomes, Instants
<1> QED
  BY <1>2 DEF RecordSuccess, BreakerTypeOK, TypeOK, MaybeInstants, Instants, NoTime

\* The initial state is well typed.
LEMMA TypeInit == Init => TypeOK /\ ControlOK
<1>1. NoEntry \in EscalationEntry
  BY DEF EscalationEntry, NoEntry, LadderStates, LadderActions, MaybeInstants, NoTime
<1>2. NeverGranted \in [CooldownKeys -> Nat \cup {-1}]
  BY DEF NeverGranted, NoTime
<1>3. EmptyHistory \in [CooldownKeys -> SUBSET Nat]
  BY DEF EmptyHistory
<1>4. /\ EmptyLadders \in [EscalationKeys -> EscalationEntry]
      /\ NeverBegan \in [EscalationKeys -> Nat \cup {-1}]
  BY <1>1 DEF EmptyLadders, NeverBegan, NoTime
<1> SUFFICES ASSUME Init PROVE TypeOK /\ ControlOK
  OBVIOUS
<1>5. BreakerTypeOK
  BY DEF Init, BreakerInit, BreakerTypeOK, NoTime
<1>6. TypeOK
  BY <1>1, <1>2, <1>3, <1>4, <1>5
     DEF Init, ClockInit, RateLimiterInit, CooldownInit, EscalationInit, BreakerTypeOK,
         Outcomes, TypeOK, Instants, MaybeInstants, NoTime, ProgramPoints
<1>7. ControlOK
  BY DEF Init, ControlOK, Paid, Chosen, Granted
<1> QED
  BY <1>6, <1>7

\* Every step keeps the types and the handler's local facts.
LEMMA TypeStep == TypeOK /\ ControlOK /\ [Next]_vars => TypeOK' /\ ControlOK'
<1> SUFFICES ASSUME TypeOK, ControlOK, [Next]_vars
             PROVE  TypeOK' /\ ControlOK'
  OBVIOUS
<1> USE DEF Instants, MaybeInstants, NoTime
<1>0. NoEntry \in EscalationEntry /\ ResolvedEntry \in EscalationEntry
  BY EntryTypes
<1>1. ASSUME NEW c \in Contexts, Receive(c)
      PROVE  TypeOK' /\ ControlOK'
  BY <1>1 DEF TypeOK, ControlOK, Receive, cdVars, cbVars, escVars, clusterVars,
              historyVars, ProgramPoints, Paid, Chosen, Granted, Key
<1>2. CASE BreakerGate
  <2>1. cbHistory' \subseteq Outcomes
    BY <1>2 DEF BreakerGate, BreakerAllow, BreakerRefuse, cbVars, TypeOK, Outcomes
  <2>2. cbOpen' \in BOOLEAN
    BY <1>2 DEF BreakerGate, BreakerAllow, BreakerRefuse, cbVars, TypeOK
  <2>3. cbTrippedAt' = cbTrippedAt
    BY <1>2 DEF BreakerGate, BreakerAllow, BreakerRefuse, cbVars
  <2>4. slips' \in Nat
    BY <1>2 DEF BreakerGate, TypeOK
  <2>5. Goto("limiter") \/ Drop
    BY <1>2 DEF BreakerGate
  <2> QED
    BY <1>2, <1>0, <2>1, <2>2, <2>3, <2>4, <2>5 DEF TypeOK, ControlOK, BreakerGate, Goto,
          Drop, cdVars, escVars, clusterVars, ProgramPoints, Paid, Chosen, Granted, Key,
          Outcomes
<1>3. CASE LimiterGate
  BY <1>3, <1>0 DEF TypeOK, ControlOK, LimiterGate, TakeToken, RefuseToken, Goto, Drop,
              cdVars, cbVars, escVars, clusterVars, historyVars, ProgramPoints, Paid,
              Chosen, Granted, Key
<1>4. CASE LoadEntry
  <2>1. esc[req] \in EscalationEntry
    BY <1>4 DEF LoadEntry, TypeOK, ControlOK, Contexts, EscalationKeys
  <2> QED
    BY <1>4, <1>0, <2>1 DEF TypeOK, ControlOK, LoadEntry, IsManual, Drop, cdVars, cbVars,
              escVars, clusterVars, historyVars, ProgramPoints, Paid, Chosen, Granted, Key
<1>5. CASE StoreRung
  <2>1. /\ NextRung(local) \in EscalationEntry
        /\ NextRung(local).action \in HealingActions \cup {"manual"}
    BY <1>5, NextRungType DEF StoreRung, TypeOK, ControlOK
  <2>2. /\ esc' \in [EscalationKeys -> EscalationEntry]
        /\ began' \in [EscalationKeys -> Nat \cup {-1}]
    BY <1>5, <2>1 DEF StoreRung, StoreNext, TypeOK
  <2> QED
    BY <1>5, <2>1, <2>2 DEF TypeOK, ControlOK, StoreRung, StoreNext, cdVars, cbVars,
              clusterVars, historyVars, ProgramPoints, Paid, Chosen, Granted, Key
<1>6. CASE ConfirmGate
  <2>1. esc' \in [EscalationKeys -> EscalationEntry] /\ purging' \subseteq EscalationKeys
    BY <1>6, <1>0 DEF ConfirmGate, MarkResolved, escVars, TypeOK
  <2>2. local.action \notin NeedsConfirmation => local.action \in HealingActions
    BY <1>6, ControllerAssumption DEF ConfirmGate, ControlOK
  <2> QED
    BY <1>6, <1>0, <2>1, <2>2 DEF TypeOK, ControlOK, ConfirmGate, Goto, Drop, cdVars,
              cbVars, clusterVars, historyVars, ProgramPoints, Paid, Chosen, Granted, Key
<1>7. CASE CooldownGate
  <2>1. Key \in CooldownKeys
    BY <1>7 DEF CooldownGate, ControlOK, Chosen, Key, CooldownKeys, Contexts
  <2>2. /\ cdLast' \in [CooldownKeys -> Nat \cup {-1}]
        /\ cdHistory' \in [CooldownKeys -> SUBSET Nat]
    BY <1>7, <2>1 DEF CooldownGate, CooldownGrant, CooldownRefuse, Recent, TypeOK
  <2>3. CASE CooldownGrant(Key) /\ Goto(IF local.action = "cordon_node" THEN "cordon" ELSE "dispatch")
    <3>1. cdLast'[Key] = now /\ Key' = Key
      BY <2>1, <2>3 DEF CooldownGrant, Goto, Key, TypeOK
    <3> QED
      BY <1>7, <2>2, <2>3, <3>1 DEF TypeOK, ControlOK, CooldownGate, Goto, cbVars, escVars,
            clusterVars, historyVars, ProgramPoints, Paid, Chosen, Granted
  <2>4. CASE CooldownRefuse(Key) /\ Drop
    BY <1>7, <1>0, <2>2, <2>4 DEF TypeOK, ControlOK, CooldownGate, Drop, cbVars, escVars,
            clusterVars, historyVars, ProgramPoints, Paid, Chosen, Granted
  <2> QED
    BY <1>7, <2>3, <2>4 DEF CooldownGate
<1>8. CASE CordonGate
  <2>1. Drop \/ Goto("dispatch")
    BY <1>8 DEF CordonGate
  <2> QED
    BY <1>8, <1>0, <2>1 DEF TypeOK, ControlOK, CordonGate, Goto, Drop, cdVars, cbVars,
            escVars, clusterVars, historyVars, ProgramPoints, Paid, Chosen, Granted, Key
<1>9. CASE Dispatch
  <2> PICK ok \in BOOLEAN :
          /\ Execute(local.action, req[1], ok)
          /\ ledger' = ledger \cup
                {[pod |-> req[1], action |-> local.action, token |-> lastToken,
                  stamp |-> cdLast[Key], at |-> now, ok |-> ok, epoch |-> epoch]}
          /\ Goto(IF ok THEN "launch" ELSE "failed")
    BY <1>9 DEF Dispatch
  <2>1. req \in Contexts /\ req[1] \in Pods /\ AffectedNode(req[1]) \in Nodes \cup {NoNode}
    BY <1>9, WorkloadAssumption DEF Dispatch, ControlOK, Contexts, AffectedNode
  <2>2. ready' \subseteq Pods /\ cordoned' \subseteq Nodes /\ shunning' \subseteq Pods
    BY <1>9, <2>1 DEF Dispatch, ControlOK, Chosen, HealingActions, Execute, RestartExecute,
            RescheduleExecute, InjectAntiAffinity, CordonExecute, DeletePod,
            clusterVars, TypeOK
  <2>3. ledger' \subseteq Actions
    BY <1>9, <2>1 DEF Dispatch, ControlOK, Chosen, Paid, Granted, TypeOK, Actions
  <2> QED
    BY <1>9, <2>2, <2>3 DEF TypeOK, ControlOK, Dispatch, Goto, cdVars, cbVars, escVars,
            ProgramPoints, Paid, Chosen, Granted, Key
<1>10. CASE DispatchFailed
  <2>1. BreakerTypeOK'
    BY <1>10, RecordFailureType DEF DispatchFailed, ControlOK, Paid
  <2> QED
    BY <1>10, <1>0, <2>1 DEF BreakerTypeOK, Outcomes, TypeOK, ControlOK, DispatchFailed, Drop, cdVars, escVars,
            clusterVars, historyVars, ProgramPoints, Paid, Chosen, Granted
<1>11. CASE LaunchObserver
  <2>1. watchers' \subseteq Watchers
    BY <1>11, ControllerAssumption
       DEF LaunchObserver, TypeOK, ControlOK, Paid, Chosen, Watchers
  <2> QED
    BY <1>11, <1>0, <2>1 DEF TypeOK, ControlOK, LaunchObserver, Drop, cdVars, cbVars,
            escVars, clusterVars, historyVars, ProgramPoints, Paid, Chosen, Granted
<1>12. ASSUME NEW w \in watchers, ObserverStep(w)
       PROVE  TypeOK' /\ ControlOK'
  <2>0. w \in Watchers
    BY DEF TypeOK
  <2>1. BreakerTypeOK'
    <3>1. w.id \in Nat
      BY <2>0 DEF Watchers
    <3>2. CASE ObserverSleeps(w)
      BY <3>2 DEF ObserverSleeps, cbVars, BreakerTypeOK, TypeOK, Outcomes
    <3> QED
      BY <1>12, <3>1, <3>2, RecordSuccessType, RecordFailureType
         DEF ObserverStep, ObserverResolved, ObserverExpired
  <2>2. watchers' \subseteq Watchers
    BY <1>12, <2>0, ControllerAssumption
       DEF ObserverStep, ObserverResolved, ObserverSleeps, ObserverExpired, TypeOK, Watchers
  <2>3. esc' \in [EscalationKeys -> EscalationEntry] /\ purging' \subseteq EscalationKeys
    BY <1>12, <1>0 DEF ObserverStep, ObserverResolved, ObserverSleeps, ObserverExpired,
            MarkResolved, escVars, TypeOK
  <2> QED
    BY <1>12, <2>1, <2>2, <2>3 DEF BreakerTypeOK, Outcomes, ObserverStep, ObserverResolved, ObserverSleeps,
            ObserverExpired, TypeOK, ControlOK, cdVars, reconcilerVars, clusterVars,
            historyVars, Paid, Chosen, Granted, Key
<1>13. ASSUME NEW c \in EscalationKeys, Purge(c)
       PROVE  TypeOK' /\ ControlOK'
  <2>1. esc' \in [EscalationKeys -> EscalationEntry] /\ purging' \subseteq EscalationKeys
    BY <1>13, <1>0 DEF Purge, PurgeVisit, PurgeDelete, TypeOK
  <2> QED
    BY <1>13, <2>1 DEF Purge, TypeOK, ControlOK, cdVars, cbVars, reconcilerVars,
            clusterVars, historyVars, Paid, Chosen, Granted, Key
<1>14. CASE TimePasses
  BY <1>14 DEF TimePasses, Tick, TypeOK, ControlOK, cdVars, cbVars, escVars,
            reconcilerVars, clusterVars, historyVars, Paid, Chosen, Granted, Key
<1>15. ASSUME NEW p \in Pods, PodChanges(p)
       PROVE  TypeOK' /\ ControlOK'
  BY <1>15 DEF PodChanges, TypeOK, ControlOK, cdVars, cbVars, escVars,
            reconcilerVars, historyVars, Paid, Chosen, Granted, Key
<1>16. CASE Crash
  <2>1. NeverGranted \in [CooldownKeys -> Nat \cup {-1}]
    BY DEF NeverGranted
  <2>2. EmptyHistory \in [CooldownKeys -> SUBSET Nat]
    BY DEF EmptyHistory
  <2>3. /\ EmptyLadders \in [EscalationKeys -> EscalationEntry]
        /\ NeverBegan \in [EscalationKeys -> Nat \cup {-1}]
    BY <1>0 DEF EmptyLadders, NeverBegan
  <2>4. BreakerTypeOK'
    BY <1>16 DEF Crash, BreakerReset, BreakerTypeOK
  <2>5. TypeOK'
    BY <1>16, <1>0, <2>1, <2>2, <2>3, <2>4 DEF Crash, RateLimiterReset, CooldownReset,
          EscalationReset, Drop, clusterVars, TypeOK, BreakerTypeOK, Outcomes,
          ProgramPoints
  <2>6. ControlOK'
    BY <1>16 DEF Crash, Drop, ControlOK, Paid, Chosen, Granted
  <2> QED
    BY <2>5, <2>6
<1>17. CASE UNCHANGED vars
  BY <1>17 DEF vars, TypeOK, ControlOK, Paid, Chosen, Granted, Key
<1> QED
  BY <1>1, <1>2, <1>3, <1>4, <1>5, <1>6, <1>7, <1>8, <1>9, <1>10, <1>11, <1>12, <1>13,
     <1>14, <1>15, <1>16, <1>17 DEF Next, ReconcilerStep

\* The controller's state keeps its types.
THEOREM TypeCorrect == Spec => []TypeOK
<1>1. Init => TypeOK /\ ControlOK
  BY TypeInit
<1>2. TypeOK /\ ControlOK /\ [Next]_vars => TypeOK' /\ ControlOK'
  BY TypeStep
<1> QED
  BY <1>1, <1>2, PTL DEF Spec

-----------------------------------------------------------------------------
(* Token spacing.  The invariant says where the spacing comes from: every  *)
(* action of this process paid with a token no younger than lastToken, and *)
(* while the handler holds a token it has not spent yet, that token is a   *)
(* full interval away from all those spent before.                         *)

Holding == {"escalate", "store", "confirm", "cooldown", "cordon", "dispatch"}

TokenInv ==
    /\ lastToken <= now
    /\ \A e \in ledger : e.epoch <= epoch
    /\ \A e \in ledger : e.epoch = epoch => e.token <= lastToken
    /\ pc \in Holding =>
          \A e \in ledger : e.epoch = epoch => lastToken - e.token >= MinInterval
    /\ TokenSpacing

\* A step that leaves the limiter and the ledger alone, and does not put the
\* handler in possession of a token, keeps the invariant.
LEMMA TokenFrame ==
    ASSUME TypeOK, TypeOK', TokenInv, UNCHANGED <<lastToken, ledger, epoch>>, now' >= now,
           pc' \in Holding => pc \in Holding
    PROVE  TokenInv'
<1> USE DEF TypeOK, Instants, MaybeInstants, NoTime
<1>1. lastToken' <= now'
  BY DEF TokenInv
<1> QED
  BY <1>1 DEF TokenInv, TokenSpacing, SameProcess, Throttle!SameProcess, Apart

\* Every step of every goroutine, and a restart, keeps the spacing of tokens.
LEMMA TokenStep ==
    TypeOK /\ ControlOK /\ TypeOK' /\ TokenInv /\ [Next]_vars => TokenInv'
<1> SUFFICES ASSUME TypeOK, ControlOK, TypeOK', TokenInv, [Next]_vars
             PROVE  TokenInv'
  OBVIOUS
<1> USE MinIntervalAssumption DEF Instants, MaybeInstants, NoTime
<1>1. CASE LimiterGate
  <2>1. CASE TakeToken /\ Goto("escalate")
    <3>1. /\ lastToken' = now
          /\ UNCHANGED <<now, ledger, epoch>>
          /\ lastToken = -1 \/ now - lastToken >= MinInterval
      BY <1>1, <2>1 DEF LimiterGate, TakeToken, TokenAvailable, historyVars
    <3>2. \A e \in ledger : e.token \in Nat
      BY DEF TypeOK, Actions
    <3>3. \A e \in ledger : e.epoch = epoch => now - e.token >= MinInterval
      BY <3>1, <3>2 DEF TokenInv, TypeOK
    <3> QED
      BY <3>1, <3>2, <3>3 DEF TokenInv, TokenSpacing, SameProcess,
            Throttle!SameProcess, Apart, TypeOK
  <2>2. CASE RefuseToken /\ Drop
    BY <1>1, <2>2, TokenFrame DEF LimiterGate, RefuseToken, Drop, Holding, historyVars, TypeOK
  <2> QED
    BY <1>1, <2>1, <2>2 DEF LimiterGate
<1>2. CASE Dispatch
  <2> PICK ok \in BOOLEAN :
        /\ ledger' = ledger \cup
              {[pod |-> req[1], action |-> local.action, token |-> lastToken,
                stamp |-> cdLast[Key], at |-> now, ok |-> ok, epoch |-> epoch]}
        /\ Goto(IF ok THEN "launch" ELSE "failed")
    BY <1>2 DEF Dispatch
  <2> DEFINE a == [pod |-> req[1], action |-> local.action, token |-> lastToken,
                   stamp |-> cdLast[Key], at |-> now, ok |-> ok, epoch |-> epoch]
  <2>1. /\ UNCHANGED <<now, lastToken, epoch>>
        /\ pc = "dispatch"
        /\ pc' \notin Holding
        /\ lastToken \in Nat
    BY <1>2 DEF Dispatch, Goto, Holding, ControlOK, Paid
  <2>2. a.token = lastToken /\ a.epoch = epoch
    OBVIOUS
  <2>3. \A e \in ledger : e.epoch = epoch => lastToken - e.token >= MinInterval
    BY <2>1 DEF TokenInv, Holding
  <2>4. \A e \in ledger : e.token \in Nat /\ e.epoch \in Nat
    BY DEF TypeOK, Actions
  <2>5. TokenSpacing'
    <3> SUFFICES ASSUME NEW e \in ledger', NEW f \in ledger',
                        e.epoch = f.epoch, e # f
                 PROVE  Apart(e.token, f.token, MinInterval)
      BY DEF TokenSpacing, SameProcess, Throttle!SameProcess, Apart
    <3>1. CASE e \in ledger /\ f \in ledger
      BY <3>1 DEF TokenInv, TokenSpacing, SameProcess, Throttle!SameProcess, Apart
    <3>2. CASE e = a /\ f \in ledger
      BY <3>2, <2>2, <2>3, <2>4, <2>1 DEF Apart
    <3>3. CASE e \in ledger /\ f = a
      BY <3>3, <2>2, <2>3, <2>4, <2>1 DEF Apart
    <3> QED
      BY <3>1, <3>2, <3>3
  <2>6. \A e \in ledger' : e.epoch <= epoch /\ (e.epoch = epoch => e.token <= lastToken)
    BY <2>1, <2>2, <2>4 DEF TokenInv, TypeOK
  <2> QED
    BY <2>1, <2>5, <2>6 DEF TokenInv
<1>3. CASE Crash
  <2>1. /\ epoch' = epoch + 1
        /\ lastToken' = -1
        /\ UNCHANGED <<now, ledger>>
        /\ pc' = "idle"
    BY <1>3 DEF Crash, RateLimiterReset, Drop
  <2>2. \A e \in ledger : e.epoch \in Nat /\ e.epoch < epoch + 1
    BY DEF TokenInv, TypeOK, Actions
  <2> QED
    BY <2>1, <2>2 DEF TokenInv, TokenSpacing, SameProcess, Throttle!SameProcess, Apart,
          Holding, TypeOK
<1>4. CASE TimePasses
  BY <1>4, TokenFrame DEF TimePasses, Tick, TypeOK, historyVars, reconcilerVars
<1>5. ASSUME NEW c \in Contexts, Receive(c)
      PROVE  TokenInv'
  BY <1>5, TokenFrame DEF Receive, TypeOK, historyVars, Holding
<1>6. CASE BreakerGate
  BY <1>6, TokenFrame DEF BreakerGate, Goto, Drop, TypeOK, Holding
<1>7. CASE LoadEntry \/ StoreRung \/ ConfirmGate \/ CooldownGate \/ CordonGate
  BY <1>7, TokenFrame DEF LoadEntry, StoreRung, ConfirmGate, CooldownGate, CordonGate,
        Goto, Drop, TypeOK, historyVars, Holding
<1>8. CASE DispatchFailed \/ LaunchObserver
  BY <1>8, TokenFrame DEF DispatchFailed, LaunchObserver, Drop, TypeOK, historyVars, Holding
<1>9. ASSUME NEW w \in watchers, ObserverStep(w)
      PROVE  TokenInv'
  BY <1>9, TokenFrame DEF ObserverStep, ObserverResolved, ObserverSleeps, ObserverExpired,
        TypeOK, historyVars, reconcilerVars
<1>10. ASSUME NEW c \in EscalationKeys, Purge(c)
       PROVE  TokenInv'
  BY <1>10, TokenFrame DEF Purge, TypeOK, historyVars, reconcilerVars
<1>11. ASSUME NEW p \in Pods, PodChanges(p)
       PROVE  TokenInv'
  BY <1>11, TokenFrame DEF PodChanges, TypeOK, historyVars, reconcilerVars
<1>12. CASE UNCHANGED vars
  BY <1>12, TokenFrame DEF vars, TypeOK
<1> QED
  BY <1>1, <1>2, <1>3, <1>4, <1>5, <1>6, <1>7, <1>8, <1>9, <1>10, <1>11, <1>12
     DEF Next, ReconcilerStep

\* However gates, observers, slow API calls and restarts interleave, any two
\* actions one process dispatches paid with tokens at least MinInterval apart.
THEOREM TokensSpaced == Spec => []TokenSpacing
<1>1. Init => TypeOK /\ ControlOK /\ TokenInv
  <2>1. Init => TokenInv
    BY DEF Init, ClockInit, RateLimiterInit, NoTime, TokenInv, TokenSpacing, Holding
  <2> QED
    BY <2>1, TypeInit
<1>2. TypeOK /\ ControlOK /\ TokenInv /\ [Next]_vars => TypeOK' /\ ControlOK' /\ TokenInv'
  BY TypeStep, TokenStep
<1>3. TokenInv => TokenSpacing
  BY DEF TokenInv
<1> QED
  BY <1>1, <1>2, <1>3, PTL DEF Spec

-----------------------------------------------------------------------------
(* Dry run.                                                                *)

\* An executor in dry-run mode leaves nodes and Deployments alone.
LEMMA DryRunExecute ==
    ASSUME DryRun, NEW a \in HealingActions, NEW p, NEW ok, Execute(a, p, ok)
    PROVE  cordoned' = cordoned /\ shunning' = shunning
<1>1. CASE a = "restart_pod"
  BY <1>1 DEF Execute, RestartExecute, DeletePod
<1>2. CASE a = "reschedule_pod"
  BY <1>2 DEF Execute, RescheduleExecute, InjectAntiAffinity, DeletePod, clusterVars
<1>3. CASE a = "cordon_node"
  BY <1>3 DEF Execute, CordonExecute
<1> QED
  BY <1>1, <1>2, <1>3 DEF HealingActions

\* One step preserves it; only Dispatch, LaunchObserver and the observers touch
\* what it is about.
LEMMA DryRunStep ==
    TypeOK /\ ControlOK /\ DryRunTouchesNothing /\ [Next]_vars => DryRunTouchesNothing'
<1> SUFFICES ASSUME TypeOK, ControlOK, DryRunTouchesNothing, [Next]_vars, DryRun
             PROVE  cordoned' = {} /\ shunning' = {} /\ watchers' = {}
  BY DEF DryRunTouchesNothing
<1>0. cordoned = {} /\ shunning = {} /\ watchers = {}
  BY DEF DryRunTouchesNothing
<1>1. CASE Dispatch
  <2>1. local.action \in HealingActions /\ watchers' = watchers
    BY <1>1 DEF Dispatch, ControlOK, Chosen
  <2>2. \E ok \in BOOLEAN : Execute(local.action, req[1], ok)
    BY <1>1 DEF Dispatch
  <2> QED
    BY <1>0, <2>1, <2>2, DryRunExecute
<1>2. CASE LaunchObserver
  BY <1>0, <1>2 DEF LaunchObserver, clusterVars
<1>3. CASE BreakerGate \/ LimiterGate \/ LoadEntry \/ StoreRung \/ ConfirmGate
           \/ CooldownGate \/ CordonGate \/ DispatchFailed
  BY <1>0, <1>3 DEF BreakerGate, LimiterGate, LoadEntry, StoreRung, ConfirmGate,
        CooldownGate, CordonGate, DispatchFailed, clusterVars
<1>4. ASSUME NEW c \in Contexts, Receive(c)
      PROVE  UNCHANGED <<cordoned, shunning, watchers>>
  BY <1>4 DEF Receive, clusterVars
<1>5. ASSUME NEW c \in EscalationKeys, Purge(c)
      PROVE  UNCHANGED <<cordoned, shunning, watchers>>
  BY <1>5 DEF Purge, clusterVars
<1>6. ASSUME NEW p \in Pods, PodChanges(p)
      PROVE  UNCHANGED <<cordoned, shunning, watchers>>
  BY <1>6 DEF PodChanges
<1>7. CASE TimePasses \/ UNCHANGED vars
  BY <1>0, <1>7 DEF TimePasses, clusterVars, vars
<1>8. CASE Crash
  BY <1>0, <1>8 DEF Crash, clusterVars
<1> QED
  BY <1>0, <1>1, <1>2, <1>3, <1>4, <1>5, <1>6, <1>7, <1>8 DEF Next, ReconcilerStep

\* No step of the handler deletes a pod in dry-run mode.
LEMMA DryRunKeepsPods ==
    ASSUME ControlOK, DryRun, ReconcilerStep
    PROVE  UNCHANGED ready
<1>1. CASE Dispatch
  <2>1. local.action \in HealingActions
    BY <1>1 DEF Dispatch, ControlOK, Chosen
  <2>2. \E ok \in BOOLEAN : Execute(local.action, req[1], ok)
    BY <1>1 DEF Dispatch
  <2> QED
    BY <2>1, <2>2 DEF HealingActions, Execute, RestartExecute, RescheduleExecute,
          CordonExecute, DeletePod, clusterVars
<1>2. CASE ~Dispatch
  BY <1>2 DEF ReconcilerStep, BreakerGate, LimiterGate, LoadEntry, StoreRung,
        ConfirmGate, CooldownGate, CordonGate, DispatchFailed, LaunchObserver, clusterVars
<1> QED
  BY <1>1, <1>2

\* In dry-run mode no sequence of anomalies, failures and restarts cordons a
\* node, patches a Deployment or starts an observer, and no step of the handler
\* deletes a pod.
THEOREM DryRunHarmless == Spec => []DryRunTouchesNothing /\ DryRunDeletesNothing
<1>1. Init => TypeOK /\ ControlOK /\ DryRunTouchesNothing
  <2>1. Init => DryRunTouchesNothing
    BY DEF Init, DryRunTouchesNothing
  <2> QED
    BY <2>1, TypeInit
<1>2. TypeOK /\ ControlOK /\ DryRunTouchesNothing /\ [Next]_vars
          => TypeOK' /\ ControlOK' /\ DryRunTouchesNothing'
  BY TypeStep, DryRunStep
<1>3. ControlOK /\ [Next]_vars => [DryRun /\ ReconcilerStep => UNCHANGED ready]_vars
  BY DryRunKeepsPods
<1> QED
  BY <1>1, <1>2, <1>3, PTL DEF Spec, DryRunDeletesNothing
-----------------------------------------------------------------------------
(* At most one action slips past an open breaker.  Between gate 3 and the  *)
(* dispatch nothing has slipped since the breaker last let the handler by. *)

SlipInv ==
    /\ cbOpen => BreakerEnabled
    /\ pc \in Holding \cup {"limiter"} => slips = 0
    /\ slips <= 1

\* A step that neither dispatches nor passes gate 3 keeps the count of slips.
LEMMA SlipFrame ==
    ASSUME SlipInv, UNCHANGED slips, cbOpen' => cbOpen \/ BreakerEnabled,
           pc' \in Holding \cup {"limiter"} => pc \in Holding \cup {"limiter"}
    PROVE  SlipInv'
BY DEF SlipInv

\* Every step keeps the bound: gate 3 stands between two dispatches.
LEMMA SlipStep == TypeOK /\ SlipInv /\ [Next]_vars => SlipInv'
<1> SUFFICES ASSUME TypeOK, SlipInv, [Next]_vars
             PROVE  SlipInv'
  OBVIOUS
<1>1. CASE BreakerGate
  <2>1. CASE BreakerAllow /\ Goto("limiter") /\ slips' = IF cbOpen' THEN slips ELSE 0
    <3>1. ~cbOpen'
      BY <2>1 DEF BreakerAllow, SlipInv
    <3> QED
      BY <2>1, <3>1 DEF SlipInv
  <2>2. CASE BreakerRefuse /\ Drop /\ UNCHANGED slips
    BY <2>2, SlipFrame DEF BreakerRefuse, cbVars, Drop, Holding
  <2> QED
    BY <1>1, <2>1, <2>2 DEF BreakerGate
<1>2. CASE Dispatch
  <2>1. slips = 0 /\ slips' \in {0, 1}
    BY <1>2 DEF Dispatch, SlipInv, Holding
  <2>2. pc' \notin Holding \cup {"limiter"}
    BY <1>2 DEF Dispatch, Goto, Holding
  <2> QED
    BY <1>2, <2>1, <2>2 DEF SlipInv, Dispatch, cbVars
<1>3. CASE Crash
  BY <1>3 DEF Crash, BreakerReset, Drop, SlipInv, Holding
<1>4. CASE DispatchFailed
  BY <1>4, SlipFrame DEF DispatchFailed, RecordFailure, cbVars, Drop, historyVars, Holding
<1>5. ASSUME NEW w \in watchers, ObserverStep(w)
      PROVE  SlipInv'
  <2>1. cbOpen' => cbOpen \/ BreakerEnabled
    BY <1>5 DEF ObserverStep, ObserverResolved, ObserverSleeps, ObserverExpired,
          RecordSuccess, RecordFailure, cbVars
  <2> QED
    BY <1>5, <2>1, SlipFrame DEF ObserverStep, ObserverResolved, ObserverSleeps,
          ObserverExpired, historyVars, reconcilerVars
<1>6. ASSUME NEW c \in Contexts, Receive(c)
      PROVE  SlipInv'
  BY <1>6, SlipFrame DEF Receive, cbVars, historyVars, Holding
<1>7. CASE LimiterGate \/ LoadEntry \/ StoreRung \/ ConfirmGate \/ CooldownGate
           \/ CordonGate \/ LaunchObserver
  BY <1>7, SlipFrame DEF LimiterGate, LoadEntry, StoreRung, ConfirmGate, CooldownGate,
        CordonGate, LaunchObserver, Goto, Drop, cbVars, historyVars, Holding
<1>8. ASSUME NEW c \in EscalationKeys, Purge(c)
      PROVE  SlipInv'
  BY <1>8, SlipFrame DEF Purge, cbVars, historyVars, reconcilerVars
<1>9. CASE TimePasses
  BY <1>9, SlipFrame DEF TimePasses, cbVars, historyVars, reconcilerVars
<1>10. ASSUME NEW p \in Pods, PodChanges(p)
       PROVE  SlipInv'
  BY <1>10, SlipFrame DEF PodChanges, cbVars, historyVars, reconcilerVars
<1>11. CASE UNCHANGED vars
  BY <1>11, SlipFrame DEF vars
<1> QED
  BY <1>1, <1>2, <1>3, <1>4, <1>5, <1>6, <1>7, <1>8, <1>9, <1>10, <1>11
     DEF Next, ReconcilerStep

\* However many observers trip the breaker behind the handler's back, at most
\* one action is dispatched while it is open.
THEOREM OneSlip == Spec => []AtMostOneSlip
<1>1. Init => TypeOK /\ ControlOK /\ SlipInv
  <2>1. Init => SlipInv
    BY DEF Init, BreakerInit, SlipInv, Holding
  <2> QED
    BY <2>1, TypeInit
<1>2. TypeOK /\ ControlOK /\ SlipInv /\ [Next]_vars => TypeOK' /\ ControlOK' /\ SlipInv'
  BY TypeStep, SlipStep
<1>3. SlipInv => AtMostOneSlip
  BY DEF SlipInv, AtMostOneSlip
<1> QED
  BY <1>1, <1>2, <1>3, PTL DEF Spec

-----------------------------------------------------------------------------
(* The pace of the ladder.                                                 *)

\* One call of NextAction climbs at most one rung, from whatever entry it
\* loaded.
LEMMA ClimbsOneRung ==
    ASSUME NEW e \in EscalationEntry
    PROVE  /\ Level(e) \in Nat
           /\ Level(NextRung(e)) \in Nat
           /\ Level(NextRung(e)) <= Level(e) + 1
BY EscalationAssumption
   DEF EscalationEntry, LadderStates, Level, NextRung, Rung, MaybeInstants, NoTime

\* A reset or purged ladder is at the bottom.
LEMMA ResetIsLevelZero == Level(NoEntry) = 0 /\ Level(ResolvedEntry) = 0
BY DEF Level, NoEntry, ResolvedEntry

\* Counted from its first rung, n rungs of the ladder of c are paid for.
Covers(c, n) == began[c] \in Nat /\ lastToken >= began[c] + n * MinInterval

\* A ladder that stands has its rungs but the first paid for; a token in hand
\* has room for one more above every ladder.
PaceInv ==
    /\ lastToken <= now
    /\ \A c \in EscalationKeys : Level(esc[c]) > 0 => Covers(c, Level(esc[c]) - 1)
    /\ pc = "escalate" =>
          \A c \in EscalationKeys : Level(esc[c]) > 0 => Covers(c, Level(esc[c]))
    /\ pc = "store" /\ Level(local) > 0 => Covers(req, Level(local))

\* One rung more is one interval more.
LEMMA MulStep ==
    ASSUME NEW a \in Nat, NEW b \in Nat
    PROVE  /\ a * b \in Nat
           /\ a > 0 => a * b = (a - 1) * b + b
           /\ a = 0 => a * b = 0
OBVIOUS

\* A lower ladder has cost no more intervals.
LEMMA MulMono ==
    ASSUME NEW a \in Int, NEW c \in Nat, NEW b \in Nat, a <= c
    PROVE  a * b <= c * b
OBVIOUS

\* A step that leaves the limiter alone and only resets entries keeps the pace.
LEMMA PaceFrame ==
    ASSUME TypeOK, TypeOK', PaceInv, UNCHANGED <<lastToken, began>>, now' >= now,
           \A c \in EscalationKeys : esc'[c] = esc[c] \/ Level(esc'[c]) = 0,
           pc' = "escalate" => pc = "escalate",
           pc' = "store" => pc = "store" /\ UNCHANGED <<local, req>>
    PROVE  PaceInv'
<1>1. lastToken' <= now'
  BY DEF PaceInv, TypeOK, Instants, MaybeInstants, NoTime
<1>2. ASSUME NEW c \in EscalationKeys, Level(esc'[c]) > 0
      PROVE  Covers(c, Level(esc[c]) - 1)' /\ (pc' = "escalate" => Covers(c, Level(esc[c]))')
  BY <1>2 DEF PaceInv, Covers
<1>3. pc' = "store" /\ Level(local') > 0 => Covers(req, Level(local))'
  BY DEF PaceInv, Covers
<1> QED
  BY <1>1, <1>2, <1>3 DEF PaceInv

\* The interval between two tokens makes room for one more rung.
LEMMA TokenRoom ==
    ASSUME NEW n \in Nat \ {0}, NEW b \in Nat, NEW s \in Nat,
           NEW t \in Nat \cup {-1}, NEW u \in Nat,
           t >= s + (n - 1) * b,
           t = -1 \/ u - t >= b
    PROVE  u >= s + n * b /\ u >= s + (n - 1) * b
<1>1. n * b = (n - 1) * b + b /\ (n - 1) * b \in Nat
  BY MulStep
<1> QED
  BY <1>1

\* Every step keeps the pace: the limiter pays for the rung that StoreRung takes.
LEMMA PaceStep ==
    TypeOK /\ ControlOK /\ TypeOK' /\ PaceInv /\ [Next]_vars => PaceInv'
<1> SUFFICES ASSUME TypeOK, ControlOK, TypeOK', PaceInv, [Next]_vars
             PROVE  PaceInv'
  OBVIOUS
<1> USE MinIntervalAssumption DEF Instants, MaybeInstants, NoTime
<1>0. \A c \in EscalationKeys : esc[c] \in EscalationEntry /\ Level(esc[c]) \in Nat
  BY ClimbsOneRung DEF TypeOK
<1>1. CASE LimiterGate
  <2>1. CASE TakeToken /\ Goto("escalate")
    <3>1. /\ lastToken' = now
          /\ UNCHANGED <<now, esc, local, began>>
          /\ pc' = "escalate"
          /\ lastToken = -1 \/ now - lastToken >= MinInterval
      BY <1>1, <2>1 DEF LimiterGate, TakeToken, TokenAvailable, escVars, Goto, historyVars
    <3>2. ASSUME NEW c \in EscalationKeys, Level(esc[c]) > 0
          PROVE  Covers(c, Level(esc[c]))' /\ Covers(c, Level(esc[c]) - 1)'
      <4> DEFINE n == Level(esc[c])
      <4>1. n \in Nat \ {0}
        BY <1>0, <3>2
      <4>2. began[c] \in Nat /\ lastToken >= began[c] + (n - 1) * MinInterval
        BY <3>2 DEF PaceInv, Covers
      <4> HIDE DEF n
      <4>3. now >= began[c] + n * MinInterval /\ now >= began[c] + (n - 1) * MinInterval
        BY <3>1, <4>1, <4>2, TokenRoom DEF TypeOK
      <4>4. n' = n
        BY <3>1 DEF n
      <4> QED
        BY <3>1, <4>2, <4>3, <4>4 DEF Covers, n
    <3>3. lastToken' <= now'
      BY <3>1 DEF TypeOK
    <3> QED
      BY <3>1, <3>2, <3>3 DEF PaceInv
  <2>2. CASE RefuseToken /\ Drop
    BY <1>1, <2>2, PaceFrame DEF LimiterGate, RefuseToken, Drop, escVars, historyVars, TypeOK
  <2> QED
    BY <1>1, <2>1, <2>2 DEF LimiterGate
<1>2. CASE LoadEntry
  <2>1. CASE IsManual(req)
    BY <1>2, <2>1, PaceFrame DEF LoadEntry, Drop, escVars, historyVars, TypeOK
  <2>2. CASE ~IsManual(req)
    <3>1. pc = "escalate" /\ pc' = "store" /\ local' = esc[req] /\ req \in EscalationKeys
      BY <1>2, <2>2 DEF LoadEntry, ControlOK, Contexts, EscalationKeys
    <3>2. UNCHANGED <<now, lastToken, esc, began, req>>
      BY <1>2, <2>2 DEF LoadEntry, escVars, historyVars
    <3>3. Level(esc[req]) > 0 => Covers(req, Level(esc[req]))
      BY <3>1 DEF PaceInv
    <3> QED
      BY <3>1, <3>2, <3>3 DEF PaceInv, Covers
  <2> QED
    BY <2>1, <2>2
<1>3. CASE StoreRung
  <2> DEFINE new == NextRung(local)
  <2>1. /\ pc = "store" /\ pc' = "confirm"
        /\ esc' = [esc EXCEPT ![req] = new]
        /\ UNCHANGED <<now, lastToken, req>>
    BY <1>3 DEF StoreRung, StoreNext
  <2>2. /\ Level(local) \in Nat /\ Level(new) \in Nat
        /\ Level(new) <= Level(local) + 1
    BY ClimbsOneRung DEF TypeOK
  <2>3. /\ req \in EscalationKeys /\ lastToken \in Nat /\ esc'[req] = new
        /\ \A c \in EscalationKeys : c # req => esc'[c] = esc[c] /\ began'[c] = began[c]
    BY <1>3, <2>1 DEF StoreRung, ControlOK, Contexts, EscalationKeys, Paid, TypeOK
  <2>4. Level(new) > 0 => /\ began'[req] \in Nat
                          /\ lastToken >= began'[req] + (Level(new) - 1) * MinInterval
    <3>1. CASE Level(new) = 1
      <4>1. began'[req] = lastToken
        BY <1>3, <2>3, <3>1 DEF StoreRung, TypeOK
      <4> QED
        BY <2>3, <3>1, <4>1
    <3>2. CASE Level(new) > 1
      <4>1. began' = began
        BY <1>3, <3>2 DEF StoreRung
      <4>2. Level(local) > 0 /\ Level(new) - 1 <= Level(local)
        BY <2>2, <3>2
      <4>3. began[req] \in Nat /\ lastToken >= began[req] + Level(local) * MinInterval
        BY <2>1, <4>2 DEF PaceInv, Covers
      <4>4. (Level(new) - 1) * MinInterval <= Level(local) * MinInterval
        BY <2>2, <4>2, MulMono
      <4>5. (Level(new) - 1) * MinInterval \in Int /\ Level(local) * MinInterval \in Int
        BY <2>2
      <4> HIDE DEF new
      <4>6. lastToken >= began[req] + (Level(new) - 1) * MinInterval
        BY <2>3, <4>3, <4>4, <4>5
      <4> QED
        BY <4>1, <4>3, <4>6
    <3> QED
      BY <2>2, <3>1, <3>2
  <2>5. ASSUME NEW c \in EscalationKeys, Level(esc'[c]) > 0
        PROVE  Covers(c, Level(esc[c]) - 1)'
    <3>1. CASE c = req
      BY <2>1, <2>3, <2>4, <2>5, <3>1 DEF Covers
    <3>2. CASE c # req
      BY <2>1, <2>3, <2>5, <3>2 DEF PaceInv, Covers
    <3> QED
      BY <3>1, <3>2
  <2> QED
    BY <2>1, <2>5 DEF PaceInv
<1>4. CASE ConfirmGate
  <2>1. \A c \in EscalationKeys : esc'[c] = esc[c] \/ Level(esc'[c]) = 0
    BY <1>4, ResetIsLevelZero DEF ConfirmGate, MarkResolved, escVars, TypeOK
  <2> QED
    BY <1>4, <2>1, PaceFrame DEF ConfirmGate, Goto, Drop, historyVars, TypeOK
<1>5. ASSUME NEW w \in watchers, ObserverStep(w)
      PROVE  PaceInv'
  <2>1. \A c \in EscalationKeys : esc'[c] = esc[c] \/ Level(esc'[c]) = 0
    BY <1>5, ResetIsLevelZero DEF ObserverStep, ObserverResolved, ObserverSleeps,
          ObserverExpired, MarkResolved, escVars, TypeOK
  <2> QED
    BY <1>5, <2>1, PaceFrame DEF ObserverStep, ObserverResolved, ObserverSleeps,
          ObserverExpired, reconcilerVars, historyVars, TypeOK
<1>6. ASSUME NEW c \in EscalationKeys, Purge(c)
      PROVE  PaceInv'
  <2>1. \A d \in EscalationKeys : esc'[d] = esc[d] \/ Level(esc'[d]) = 0
    BY <1>6, ResetIsLevelZero DEF Purge, PurgeVisit, PurgeDelete, TypeOK
  <2> QED
    BY <1>6, <2>1, PaceFrame DEF Purge, reconcilerVars, historyVars, TypeOK
<1>7. CASE Crash
  <2>1. \A c \in EscalationKeys : Level(esc'[c]) = 0
    BY <1>7, ResetIsLevelZero DEF Crash, EscalationReset, EmptyLadders
  <2>2. pc' = "idle" /\ lastToken' = -1 /\ now' = now
    BY <1>7 DEF Crash, RateLimiterReset, Drop
  <2> QED
    BY <2>1, <2>2 DEF PaceInv, TypeOK
<1>8. ASSUME NEW c \in Contexts, Receive(c)
      PROVE  PaceInv'
  BY <1>8, PaceFrame DEF Receive, escVars, historyVars, TypeOK
<1>9. CASE BreakerGate \/ CooldownGate \/ CordonGate
  <2>1. pc' \in {"idle", "limiter", "cordon", "dispatch"}
    BY <1>9 DEF BreakerGate, CooldownGate, CordonGate, Goto, Drop
  <2>2. UNCHANGED <<now, lastToken, esc, began>>
    BY <1>9 DEF BreakerGate, CooldownGate, CordonGate, escVars, historyVars
  <2> QED
    BY <2>1, <2>2, PaceFrame DEF TypeOK
<1>10. CASE Dispatch \/ DispatchFailed \/ LaunchObserver
  BY <1>10, PaceFrame DEF Dispatch, DispatchFailed, LaunchObserver, Goto, Drop, escVars,
        historyVars, TypeOK
<1>11. CASE TimePasses
  BY <1>11, PaceFrame DEF TimePasses, Tick, escVars, reconcilerVars, historyVars,
        TypeOK
<1>12. ASSUME NEW p \in Pods, PodChanges(p)
       PROVE  PaceInv'
  BY <1>12, PaceFrame DEF PodChanges, escVars, reconcilerVars, historyVars, TypeOK
<1>13. CASE UNCHANGED vars
  BY <1>13, PaceFrame DEF vars, TypeOK
<1> QED
  BY <1>1, <1>2, <1>3, <1>4, <1>5, <1>6, <1>7, <1>8, <1>9, <1>10, <1>11, <1>12, <1>13
     DEF Next, ReconcilerStep

\* From its first rung on, no schedule of anomalies, outcomes, purges and restarts
\* drives a context up the ladder faster than one rung per MinInterval.
THEOREM LadderPaced == Spec => []LadderPace
<1>1. Init => TypeOK /\ ControlOK /\ PaceInv
  <2>1. ASSUME Init PROVE PaceInv
    BY <2>1, ResetIsLevelZero DEF Init, ClockInit, RateLimiterInit, EscalationInit,
          EmptyLadders, NoTime, PaceInv
  <2> QED
    BY <2>1, TypeInit
<1>2. TypeOK /\ ControlOK /\ PaceInv /\ [Next]_vars => TypeOK' /\ ControlOK' /\ PaceInv'
  BY TypeStep, PaceStep
<1>3. PaceInv => LadderPace
  BY DEF PaceInv, Covers, LadderPace
<1> QED
  BY <1>1, <1>2, <1>3, PTL DEF Spec

-----------------------------------------------------------------------------
(* One verdict for each action.  An action is known by the instant of the  *)
(* token that paid for it: those under observation or in the breaker's     *)
(* history are no younger than the last token, and while a handler holds   *)
(* the last token nothing else bears its instant.                          *)

VerdictInv ==
    /\ lastToken <= now
    /\ \A w \in watchers : w.id <= lastToken /\ (pc \in Paid => w.id < lastToken)
    /\ \A r \in cbHistory : r.id <= lastToken /\ (pc \in Paid => r.id < lastToken)
    /\ OneVerdictPerAction

\* A step that launches no observer and records no outcome keeps it, if it
\* leaves the tokens alone and the handler acquires none.
LEMMA VerdictFrame ==
    ASSUME TypeOK, TypeOK', VerdictInv, UNCHANGED lastToken, now' >= now,
           watchers' \subseteq watchers, cbHistory' \subseteq cbHistory,
           pc' \in Paid => pc \in Paid
    PROVE  VerdictInv'
<1> USE DEF TypeOK, Instants, MaybeInstants, NoTime
<1>1. lastToken' <= now'
  BY DEF VerdictInv
<1> QED
  BY <1>1 DEF VerdictInv, OneVerdictPerAction

\* The verdict of an action that has none yet, and is no longer observed.
LEMMA VerdictRecorded ==
    ASSUME TypeOK, VerdictInv, NEW id \in Nat,
           id <= lastToken, UNCHANGED <<lastToken, now>>, watchers' \subseteq watchers,
           cbHistory' \in {cbHistory, Recorded(id, TRUE), Recorded(id, FALSE)},
           \A w \in watchers' : w.id # id,
           \A r \in cbHistory : r.id # id,
           pc' \in Paid => pc \in Paid /\ id < lastToken
    PROVE  VerdictInv'
<1>1. CASE cbHistory' = cbHistory
  BY <1>1 DEF VerdictInv, OneVerdictPerAction
<1>2. ASSUME NEW ok \in BOOLEAN, cbHistory' = Recorded(id, ok) PROVE VerdictInv'
  <2> DEFINE new == [id |-> id, at |-> now, success |-> ok]
  <2>1. new.id = id /\ cbHistory' \subseteq cbHistory \cup {new}
    BY <1>2 DEF Recorded
  <2> HIDE DEF new
  <2> QED
    BY <2>1 DEF VerdictInv, OneVerdictPerAction
<1> QED
  BY <1>1, <1>2

\* Every step keeps the verdicts apart.
LEMMA VerdictStep ==
    TypeOK /\ ControlOK /\ TypeOK' /\ VerdictInv /\ [Next]_vars => VerdictInv'
<1> SUFFICES ASSUME TypeOK, ControlOK, TypeOK', VerdictInv, [Next]_vars
             PROVE  VerdictInv'
  OBVIOUS
<1> USE DEF Instants, MaybeInstants, NoTime
<1>a. /\ \A w \in watchers : w.id \in Nat
      /\ \A r \in cbHistory : r.id \in Nat
  BY DEF TypeOK, Watchers
<1>1. CASE LimiterGate
  <2>1. CASE TakeToken /\ Goto("escalate")
    <3>1. /\ lastToken' = now /\ UNCHANGED <<now, watchers, cbHistory>>
          /\ lastToken = -1 \/ now - lastToken >= MinInterval
      BY <1>1, <2>1 DEF LimiterGate, TakeToken, TokenAvailable, cbVars
    <3>2. /\ \A w \in watchers : w.id < now
          /\ \A r \in cbHistory : r.id < now
      BY <3>1, <1>a, MinIntervalAssumption DEF VerdictInv, TypeOK
    <3> QED
      BY <3>1, <3>2, <1>a DEF VerdictInv, OneVerdictPerAction, TypeOK
  <2>2. CASE RefuseToken /\ Drop
    BY <1>1, <2>2, VerdictFrame DEF LimiterGate, RefuseToken, Drop, Paid, cbVars, TypeOK
  <2> QED
    BY <1>1, <2>1, <2>2 DEF LimiterGate
<1>2. CASE DispatchFailed
  <2>1. /\ lastToken \in Nat /\ pc \in Paid /\ pc' = "idle"
        /\ UNCHANGED <<lastToken, now, watchers>>
    BY <1>2 DEF DispatchFailed, Drop, ControlOK, Paid
  <2>2. cbHistory' \in {cbHistory, Recorded(lastToken, TRUE), Recorded(lastToken, FALSE)}
    BY <1>2 DEF DispatchFailed, RecordFailure, cbVars
  <2>3. /\ \A w \in watchers' : w.id # lastToken
        /\ \A r \in cbHistory : r.id # lastToken
    BY <2>1, <1>a DEF VerdictInv
  <2>4. pc' \notin Paid /\ watchers' \subseteq watchers
    BY <2>1 DEF Paid
  <2>5. lastToken <= lastToken
    BY <2>1
  <2>6. ASSUME NEW id \in Nat, id = lastToken PROVE VerdictInv'
    BY <2>1, <2>2, <2>3, <2>4, <2>5, <2>6, VerdictRecorded
  <2> QED
    BY <2>1, <2>6
<1>3. CASE LaunchObserver
  <2> DEFINE new == [id |-> lastToken, ctx |-> req, action |-> local.action,
                     deadline |-> now + ObservationWindow[local.action],
                     wake |-> now + PollInterval]
  <2>1. /\ lastToken \in Nat /\ pc \in Paid /\ pc' \notin Paid
        /\ UNCHANGED <<lastToken, now, cbHistory>>
    BY <1>3 DEF LaunchObserver, Drop, ControlOK, Paid, cbVars
  <2>2. new.id = lastToken /\ watchers' \subseteq watchers \cup {new}
    BY <1>3 DEF LaunchObserver
  <2> HIDE DEF new
  <2>3. /\ \A w \in watchers : w.id # lastToken
        /\ \A r \in cbHistory : r.id # lastToken
    BY <2>1, <1>a DEF VerdictInv
  <2> QED
    BY <2>1, <2>2, <2>3 DEF VerdictInv, OneVerdictPerAction
<1>4. ASSUME NEW w \in watchers, ObserverResolved(w) \/ ObserverExpired(w)
      PROVE  VerdictInv'
  <2>1. /\ watchers' = watchers \ {w} /\ UNCHANGED <<lastToken, now, pc>>
        /\ w.id \in Nat /\ w.id <= lastToken /\ (pc \in Paid => w.id < lastToken)
    BY <1>4, <1>a DEF ObserverResolved, ObserverExpired, reconcilerVars, VerdictInv
  <2>2. /\ \A v \in watchers' : v.id # w.id
        /\ \A r \in cbHistory : r.id # w.id
    BY <2>1 DEF VerdictInv, OneVerdictPerAction
  <2>3. cbHistory' \in {cbHistory, Recorded(w.id, TRUE), Recorded(w.id, FALSE)}
    <3>1. CASE ObserverResolved(w)
      BY <3>1 DEF ObserverResolved, RecordSuccess
    <3>2. CASE ObserverExpired(w)
      BY <3>2 DEF ObserverExpired, RecordFailure, cbVars
    <3> QED
      BY <1>4, <3>1, <3>2
  <2>4. watchers' \subseteq watchers /\ (pc' \in Paid => pc \in Paid /\ w.id < lastToken)
    BY <2>1
  <2> QED
    BY <2>1, <2>2, <2>3, <2>4, VerdictRecorded
<1>5. ASSUME NEW w \in watchers, ObserverSleeps(w) PROVE VerdictInv'
  <2> DEFINE again == [w EXCEPT !.wake = now + PollInterval]
  <2>1. /\ watchers' = (watchers \ {w}) \cup {again}
        /\ UNCHANGED <<lastToken, now, pc, cbHistory>>
    BY <1>5 DEF ObserverSleeps, reconcilerVars, cbVars
  <2>2. again.id = w.id
    BY DEF TypeOK, Watchers
  <2> HIDE DEF again
  <2> QED
    BY <2>1, <2>2 DEF VerdictInv, OneVerdictPerAction
<1>6. CASE Crash
  BY <1>6 DEF Crash, RateLimiterReset, BreakerReset, VerdictInv, OneVerdictPerAction, TypeOK
<1>7. CASE BreakerGate
  <2>1. /\ UNCHANGED <<lastToken, now, watchers>> /\ pc' \notin Paid
        /\ cbHistory' \subseteq cbHistory
    BY <1>7 DEF BreakerGate, BreakerAllow, BreakerRefuse, Goto, Drop, Paid, cbVars
  <2> QED
    BY <2>1, VerdictFrame DEF TypeOK
<1>8. CASE LoadEntry \/ StoreRung \/ ConfirmGate \/ CooldownGate \/ CordonGate
  <2>1. pc \in Paid /\ UNCHANGED <<lastToken, now, watchers, cbHistory>>
    BY <1>8 DEF LoadEntry, StoreRung, ConfirmGate, CooldownGate, CordonGate, Paid, cbVars
  <2> QED
    BY <2>1, VerdictFrame DEF TypeOK
<1>9. CASE Dispatch
  <2>1. pc \in Paid /\ UNCHANGED <<lastToken, now, watchers, cbHistory>>
    BY <1>9 DEF Dispatch, Paid, cbVars
  <2> QED
    BY <2>1, VerdictFrame DEF TypeOK
<1>10. ASSUME NEW c \in Contexts, Receive(c) PROVE VerdictInv'
  <2>1. pc' \notin Paid /\ UNCHANGED <<lastToken, now, watchers, cbHistory>>
    BY <1>10 DEF Receive, Paid, cbVars
  <2> QED
    BY <2>1, VerdictFrame DEF TypeOK
<1>11. CASE TimePasses \/ (\E c \in EscalationKeys : Purge(c))
            \/ (\E p \in Pods : PodChanges(p)) \/ UNCHANGED vars
  <2>1. UNCHANGED <<pc, lastToken, watchers, cbHistory>> /\ now' >= now
    BY <1>11 DEF TimePasses, Tick, Purge, PodChanges, reconcilerVars, cbVars, vars, TypeOK
  <2> QED
    BY <2>1, VerdictFrame DEF TypeOK
<1> QED
  BY <1>1, <1>2, <1>3, <1>4, <1>5, <1>6, <1>7, <1>8, <1>9, <1>10, <1>11
     DEF Next, ReconcilerStep, ObserverStep

\* Whatever the order in which dispatches fail, observers report and the breaker
\* forgets, no action counts twice in the failure rate.
THEOREM OneVerdict == Spec => []OneVerdictPerAction
<1>1. Init => TypeOK /\ ControlOK /\ VerdictInv
  <2>1. Init => VerdictInv
    BY DEF Init, ClockInit, RateLimiterInit, BreakerInit, NoTime, VerdictInv,
          OneVerdictPerAction
  <2> QED
    BY <2>1, TypeInit
<1>2. TypeOK /\ ControlOK /\ VerdictInv /\ [Next]_vars => TypeOK' /\ ControlOK' /\ VerdictInv'
  BY TypeStep, VerdictStep
<1>3. VerdictInv => OneVerdictPerAction
  BY DEF VerdictInv
<1> QED
  BY <1>1, <1>2, <1>3, PTL DEF Spec

-----------------------------------------------------------------------------
(* The controller implements the throttle: the spacing, cooldown and cap   *)
(* checks made by separate gates, steps and seconds before the dispatch,   *)
(* still hold of the ledger when the action is dispatched.                 *)

\* The actions this process dispatched for the key the handler is working on.
Mine(e) == e.epoch = epoch /\ e.pod = req[1] /\ e.action = local.action

CooldownInv ==
    /\ \A k \in CooldownKeys : cdLast[k] <= now
    /\ \A e \in ledger : e.epoch = epoch => e.stamp <= cdLast[<<e.pod, e.action>>]
    /\ pc \in Granted =>
          \A e \in ledger : Mine(e) => cdLast[Key] - e.stamp >= Cooldown[e.action]
    /\ CooldownSpacing

\* What the history of the key in hand is good for once the grant is given.
CapInv ==
    /\ \A k \in CooldownKeys :
          IsFiniteSet(cdHistory[k]) /\ \A s \in cdHistory[k] : s <= now
    /\ \A e \in ledger :
          e.epoch = epoch /\ e.stamp > now - Hour =>
              e.stamp \in cdHistory[<<e.pod, e.action>>]
    /\ pc \in Granted =>
          /\ cdLast[Key] \in cdHistory[Key]
          /\ MaxPerHour[local.action] > 0 =>
                Cardinality(cdHistory[Key]) <= MaxPerHour[local.action]
          /\ \A e \in ledger :
                Mine(e) /\ e.stamp > cdLast[Key] - Hour => e.stamp \in cdHistory[Key]

\* A step that leaves the cooldown store and the ledger alone, and gives the
\* handler no grant, keeps both.
LEMMA GrantFrame ==
    ASSUME TypeOK, TypeOK', CooldownInv, CapInv, now' >= now,
           UNCHANGED <<cdLast, cdHistory, ledger, epoch>>,
           pc' \in Granted => pc \in Granted /\ UNCHANGED <<req, local>>
    PROVE  CooldownInv' /\ CapInv'
<1> USE CooldownAssumption DEF Instants, MaybeInstants, NoTime
<1>1. \A k \in CooldownKeys : cdLast'[k] <= now'
  BY DEF CooldownInv, TypeOK
<1>2. \A e \in ledger : e.stamp \in Nat /\ <<e.pod, e.action>> \in CooldownKeys
  <2>1. \A e \in ledger : e.stamp \in Nat /\ e.pod \in Pods /\ e.action \in HealingActions
    BY DEF Actions, TypeOK
  <2> QED
    BY <2>1 DEF CooldownKeys
<1>3. \A e \in ledger : e.stamp > now' - Hour => e.stamp > now - Hour
  <2> SUFFICES ASSUME NEW e \in ledger, e.stamp > now' - Hour
               PROVE  e.stamp > now - Hour
    OBVIOUS
  <2>1. now \in Nat /\ now' \in Nat /\ Hour \in Nat /\ e.stamp \in Nat
    BY <1>2 DEF TypeOK
  <2>2. now' >= now
    OBVIOUS
  <2> HIDE CooldownAssumption
  <2> QED
    BY <2>1, <2>2
<1>4. CooldownInv'
  BY <1>1 DEF CooldownInv, CooldownSpacing, SameKey, Throttle!SameKey,
        Throttle!SameProcess, Apart, Mine, Key
<1>5. \A k \in CooldownKeys : IsFiniteSet(cdHistory'[k]) /\ \A s \in cdHistory'[k] : s <= now'
  <2>1. \A k \in CooldownKeys : \A s \in cdHistory[k] : s \in Nat /\ s <= now
    BY DEF CapInv, TypeOK
  <2>2. now \in Nat /\ now' \in Nat
    BY DEF TypeOK
  <2> QED
    BY <2>1, <2>2 DEF CapInv
<1>6. CapInv'
  BY <1>2, <1>3, <1>5 DEF CapInv, Mine, Key
<1> QED
  BY <1>4, <1>6

\* Every step keeps the cooldowns and the caps, between the grant at gate 7 and
\* the dispatch it pays for as well.
LEMMA GrantStep ==
    TypeOK /\ ControlOK /\ TypeOK' /\ TokenInv /\ CooldownInv /\ CapInv /\ [Next]_vars
        => CooldownInv' /\ CapInv'
<1> SUFFICES ASSUME TypeOK, ControlOK, TypeOK', TokenInv, CooldownInv, CapInv, [Next]_vars
             PROVE  CooldownInv' /\ CapInv'
  OBVIOUS
<1> USE CooldownAssumption DEF Instants, MaybeInstants, NoTime
<1>a. \A e \in ledger : /\ e.stamp \in Nat /\ e.epoch \in Nat /\ e.token \in Nat
                        /\ e.action \in HealingActions
                        /\ <<e.pod, e.action>> \in CooldownKeys
  BY DEF TypeOK, Actions, CooldownKeys
<1>1. CASE CooldownGate
  <2>1. Key \in CooldownKeys /\ Key = <<req[1], local.action>> /\ local.action \in HealingActions
    BY <1>1 DEF CooldownGate, ControlOK, Chosen, Key, CooldownKeys, Contexts
  <2>2. UNCHANGED <<now, ledger, epoch>>
    BY <1>1 DEF CooldownGate, historyVars
  <2>3. IsFiniteSet(Recent(cdHistory[Key])) /\ Recent(cdHistory[Key]) \subseteq cdHistory[Key]
    BY <2>1, FS_Subset DEF CapInv, Recent
  <2>4. CASE CooldownGrant(Key) /\ Goto(IF local.action = "cordon_node" THEN "cordon" ELSE "dispatch")
    <3>1. /\ UNCHANGED <<req, local>> /\ Key' = Key
          /\ cdLast' = [cdLast EXCEPT ![Key] = now]
          /\ cdHistory' = [cdHistory EXCEPT ![Key] = Recent(cdHistory[Key]) \cup {now}]
      BY <2>4 DEF Goto, CooldownGrant, Key
    <3>2. cdLast'[Key] = now /\ \A k \in CooldownKeys : k # Key => cdLast'[k] = cdLast[k]
      BY <2>1, <3>1 DEF TypeOK
    <3>3. /\ cdHistory'[Key] = Recent(cdHistory[Key]) \cup {now}
          /\ \A k \in CooldownKeys : k # Key => cdHistory'[k] = cdHistory[k]
      BY <2>1, <3>1 DEF TypeOK
    <3>4. \A e \in ledger : Mine(e) => <<e.pod, e.action>> = Key
      BY <2>1 DEF Mine
    <3>5. \A e \in ledger : Mine(e) => now - e.stamp >= Cooldown[e.action]
      <4> SUFFICES ASSUME NEW e \in ledger, Mine(e)
                   PROVE  now - e.stamp >= Cooldown[e.action]
        OBVIOUS
      <4>1. e.stamp <= cdLast[Key] /\ e.action = local.action
        BY <3>4 DEF CooldownInv, Mine
      <4>2. /\ Key[2] = local.action /\ Cooldown[local.action] \in Nat
            /\ cdLast[Key] \in Nat \cup {-1} /\ now \in Nat /\ e.stamp \in Nat
        BY <2>1, <1>a DEF TypeOK
      <4>3. cdLast[Key] # -1
        BY <4>1, <4>2
      <4>4. now - cdLast[Key] >= Cooldown[local.action]
        BY <2>4, <4>2, <4>3 DEF CooldownGrant, CooldownPermits
      <4> QED
        BY <4>1, <4>2, <4>3, <4>4
    <3>6. CooldownInv'
      <4>1. \A k \in CooldownKeys : cdLast'[k] <= now'
        BY <3>2, <2>2 DEF CooldownInv, TypeOK
      <4>2. \A e \in ledger : e.epoch = epoch => e.stamp <= cdLast'[<<e.pod, e.action>>]
        <5> SUFFICES ASSUME NEW e \in ledger, e.epoch = epoch
                     PROVE  e.stamp <= cdLast'[<<e.pod, e.action>>]
          OBVIOUS
        <5>1. e.stamp <= cdLast[<<e.pod, e.action>>] /\ cdLast[<<e.pod, e.action>>] <= now
          BY <1>a DEF CooldownInv
        <5> QED
          BY <5>1, <3>2, <1>a DEF TypeOK
      <4>3. \A e \in ledger : Mine(e)' <=> Mine(e)
        BY <3>1, <2>2 DEF Mine
      <4> QED
        BY <2>2, <3>1, <3>2, <3>5, <4>1, <4>2, <4>3 DEF CooldownInv, CooldownSpacing,
              SameKey, Throttle!SameKey, Throttle!SameProcess, Apart
    <3>7. CapInv'
      <4>1. \A k \in CooldownKeys :
                IsFiniteSet(cdHistory'[k]) /\ \A s \in cdHistory'[k] : s <= now
        <5>1. \A k \in CooldownKeys : IsFiniteSet(cdHistory'[k])
          <6>1. \A k \in CooldownKeys : IsFiniteSet(cdHistory[k])
            BY DEF CapInv
          <6>2. IsFiniteSet(Recent(cdHistory[Key]) \cup {now})
            BY <2>3, FS_AddElement, Zenon
          <6> QED
            BY <3>3, <6>1, <6>2
        <5>2. \A k \in CooldownKeys : \A s \in cdHistory'[k] : s = now \/ s \in cdHistory[k]
          BY <2>3, <3>3
        <5> QED
          BY <5>1, <5>2 DEF CapInv, TypeOK
      <4>2. \A e \in ledger : e.epoch = epoch /\ e.stamp > now - Hour =>
                e.stamp \in cdHistory'[<<e.pod, e.action>>]
        BY <1>a, <3>3 DEF CapInv, Recent
      <4>3. MaxPerHour[local.action] > 0 =>
                Cardinality(cdHistory'[Key]) <= MaxPerHour[local.action]
        <5> SUFFICES ASSUME MaxPerHour[local.action] > 0
                     PROVE  Cardinality(cdHistory'[Key]) <= MaxPerHour[local.action]
          OBVIOUS
        <5>1. Cardinality(Recent(cdHistory[Key])) < MaxPerHour[local.action]
          BY <2>1, <2>4 DEF CooldownGrant, CooldownPermits
        <5>2. /\ Cardinality(Recent(cdHistory[Key])) \in Nat
              /\ Cardinality(Recent(cdHistory[Key]) \cup {now})
                    <= Cardinality(Recent(cdHistory[Key])) + 1
          <6> DEFINE R == Recent(cdHistory[Key])
          <6>1. IsFiniteSet(R)
            BY <2>3
          <6> HIDE DEF R
          <6>2. Cardinality(R) \in Nat
            BY <6>1, FS_CardinalityType
          <6>3. Cardinality(R \cup {now}) = IF now \in R THEN Cardinality(R) ELSE Cardinality(R) + 1
            BY <6>1, FS_AddElement, Zenon
          <6>4. Cardinality(R \cup {now}) <= Cardinality(R) + 1
            BY <6>2, <6>3
          <6> QED
            BY <6>2, <6>4 DEF R
        <5>3. /\ MaxPerHour[local.action] \in Nat
              /\ Cardinality(Recent(cdHistory[Key]) \cup {now}) \in Nat
          BY <2>1, <2>3, FS_AddElement, FS_CardinalityType
        <5> QED
          BY <3>3, <5>1, <5>2, <5>3
      <4>4. \A e \in ledger : Mine(e) /\ e.stamp > now - Hour => e.stamp \in cdHistory'[Key]
        BY <3>4, <4>2 DEF Mine
      <4>5. \A e \in ledger : Mine(e)' <=> Mine(e)
        BY <3>1, <2>2 DEF Mine
      <4> QED
        BY <2>2, <3>1, <3>2, <3>3, <4>1, <4>2, <4>3, <4>4, <4>5 DEF CapInv
    <3> QED
      BY <3>6, <3>7
  <2>5. CASE CooldownRefuse(Key) /\ Drop
    <3>1. /\ UNCHANGED cdLast /\ pc' \notin Granted
          /\ cdHistory' = [cdHistory EXCEPT ![Key] = Recent(cdHistory[Key])]
      BY <2>5 DEF CooldownRefuse, Drop, Granted
    <3>2. \A k \in CooldownKeys : cdHistory'[k] = IF k = Key THEN Recent(cdHistory[k]) ELSE cdHistory[k]
      BY <2>1, <3>1 DEF TypeOK
    <3>3. CooldownInv'
      BY <2>2, <3>1 DEF CooldownInv, CooldownSpacing, SameKey, Throttle!SameKey,
            Throttle!SameProcess, Apart
    <3>4. CapInv'
      <4>1. \A k \in CooldownKeys :
                IsFiniteSet(cdHistory'[k]) /\ \A s \in cdHistory'[k] : s <= now
        BY <2>3, <3>2 DEF CapInv
      <4>2. \A e \in ledger : e.epoch = epoch /\ e.stamp > now - Hour =>
                e.stamp \in cdHistory'[<<e.pod, e.action>>]
        BY <1>a, <3>2 DEF CapInv, Recent
      <4> QED
        BY <2>2, <3>1, <4>1, <4>2 DEF CapInv
    <3> QED
      BY <3>3, <3>4
  <2> QED
    BY <1>1, <2>4, <2>5 DEF CooldownGate
<1>2. CASE Dispatch
  <2> PICK ok \in BOOLEAN :
        /\ ledger' = ledger \cup
              {[pod |-> req[1], action |-> local.action, token |-> lastToken,
                stamp |-> cdLast[Key], at |-> now, ok |-> ok, epoch |-> epoch]}
        /\ Goto(IF ok THEN "launch" ELSE "failed")
    BY <1>2 DEF Dispatch
  <2> DEFINE a == [pod |-> req[1], action |-> local.action, token |-> lastToken,
                   stamp |-> cdLast[Key], at |-> now, ok |-> ok, epoch |-> epoch]
  <2>1. /\ UNCHANGED <<now, cdLast, cdHistory, epoch>>
        /\ pc = "dispatch" /\ pc' \notin Granted
        /\ cdLast[Key] \in Nat
        /\ Key \in CooldownKeys /\ local.action \in HealingActions
    BY <1>2 DEF Dispatch, Goto, Granted, cdVars, ControlOK, Chosen, Key, CooldownKeys, Contexts
  <2>2. /\ a.stamp = cdLast[Key] /\ a.epoch = epoch /\ a.pod = req[1]
        /\ a.action = local.action /\ <<a.pod, a.action>> = Key
    BY DEF Key
  <2>3. \A e \in ledger : Mine(e) => cdLast[Key] - e.stamp >= Cooldown[e.action]
    BY <2>1 DEF CooldownInv, Granted
  <2>4. CooldownSpacing'
    <3> SUFFICES ASSUME NEW e \in ledger', NEW f \in ledger', e # f,
                        e.epoch = f.epoch, e.pod = f.pod, e.action = f.action
                 PROVE  Apart(e.stamp, f.stamp, Cooldown[e.action])
      BY DEF CooldownSpacing, SameKey, Throttle!SameKey, Throttle!SameProcess, Apart
    <3>1. CASE e \in ledger /\ f \in ledger
      BY <3>1 DEF CooldownInv, CooldownSpacing, SameKey, Throttle!SameKey,
            Throttle!SameProcess, Apart
    <3>2. CASE e = a /\ f \in ledger
      BY <3>2, <2>2, <2>3 DEF Apart, Mine
    <3>3. CASE e \in ledger /\ f = a
      BY <3>3, <2>2, <2>3 DEF Apart, Mine
    <3> QED
      BY <3>1, <3>2, <3>3
  <2>5. \A e \in ledger' : e.epoch = epoch => e.stamp <= cdLast[<<e.pod, e.action>>]
    BY <2>1, <2>2 DEF CooldownInv
  <2>6. CooldownInv'
    BY <2>1, <2>4, <2>5 DEF CooldownInv
  <2>7. \A e \in ledger' : e.epoch = epoch /\ e.stamp > now - Hour =>
            e.stamp \in cdHistory[<<e.pod, e.action>>]
    BY <2>1, <2>2 DEF CapInv, Granted
  <2>8. CapInv'
    BY <2>1, <2>7 DEF CapInv
  <2> QED
    BY <2>6, <2>8
<1>3. CASE Crash
  <2>1. /\ epoch' = epoch + 1 /\ UNCHANGED <<now, ledger>> /\ pc' \notin Granted
        /\ cdLast' = NeverGranted /\ cdHistory' = EmptyHistory
    BY <1>3 DEF Crash, CooldownReset, Drop, Granted
  <2>2. \A e \in ledger : e.epoch # epoch'
    BY <1>a, <2>1 DEF TokenInv, TypeOK
  <2>3. CooldownInv'
    BY <2>1, <2>2 DEF CooldownInv, CooldownSpacing, SameKey, Throttle!SameKey,
          Throttle!SameProcess, Apart, NeverGranted, TypeOK
  <2>4. CapInv'
    BY <2>1, <2>2, FS_EmptySet DEF CapInv, EmptyHistory
  <2> QED
    BY <2>3, <2>4
<1>4. CASE TimePasses
  BY <1>4, GrantFrame DEF TimePasses, Tick, cdVars, historyVars, reconcilerVars, TypeOK
<1>5. ASSUME NEW c \in Contexts, Receive(c)
      PROVE  CooldownInv' /\ CapInv'
  BY <1>5, GrantFrame DEF Receive, cdVars, historyVars, Granted, TypeOK
<1>6. CASE BreakerGate \/ LimiterGate \/ LoadEntry \/ StoreRung \/ ConfirmGate
  <2>1. pc' \notin Granted
    BY <1>6 DEF BreakerGate, LimiterGate, LoadEntry, StoreRung, ConfirmGate, Goto, Drop, Granted
  <2>2. UNCHANGED <<now, cdLast, cdHistory, ledger, epoch>>
    BY <1>6 DEF BreakerGate, LimiterGate, LoadEntry, StoreRung, ConfirmGate, cdVars, historyVars
  <2> QED
    BY <2>1, <2>2, GrantFrame DEF TypeOK
<1>7. CASE CordonGate
  <2>1. Drop \/ Goto("dispatch")
    BY <1>7 DEF CordonGate
  <2> QED
    BY <1>7, <2>1, GrantFrame DEF CordonGate, Drop, Goto, Granted, cdVars, historyVars, TypeOK
<1>8. CASE DispatchFailed \/ LaunchObserver
  BY <1>8, GrantFrame DEF DispatchFailed, LaunchObserver, Drop, Granted, cdVars, historyVars,
        TypeOK
<1>9. ASSUME NEW w \in watchers, ObserverStep(w)
      PROVE  CooldownInv' /\ CapInv'
  BY <1>9, GrantFrame DEF ObserverStep, ObserverResolved, ObserverSleeps, ObserverExpired,
        cdVars, historyVars, reconcilerVars, TypeOK
<1>10. ASSUME NEW c \in EscalationKeys, Purge(c)
       PROVE  CooldownInv' /\ CapInv'
  BY <1>10, GrantFrame DEF Purge, cdVars, historyVars, reconcilerVars, TypeOK
<1>11. ASSUME NEW p \in Pods, PodChanges(p)
       PROVE  CooldownInv' /\ CapInv'
  BY <1>11, GrantFrame DEF PodChanges, cdVars, historyVars, reconcilerVars, TypeOK
<1>12. CASE UNCHANGED vars
  BY <1>12, GrantFrame DEF vars, TypeOK
<1> QED
  BY <1>1, <1>2, <1>3, <1>4, <1>5, <1>6, <1>7, <1>8, <1>9, <1>10, <1>11, <1>12
     DEF Next, ReconcilerStep

-----------------------------------------------------------------------------
(* The refinement.                                                         *)

\* A set of actions with pairwise different stamps, all in the history but
\* for one element of it, has fewer members than the history.
LEMMA StampsCounted ==
    ASSUME NEW S, NEW H, IsFiniteSet(H), NEW x \in H,
           \A e \in S : e.stamp \in H \ {x},
           \A e, f \in S : e # f => e.stamp # f.stamp
    PROVE  /\ IsFiniteSet(S)
           /\ Cardinality(S) < Cardinality(H)
<1> DEFINE T == H \ {x}
           g == [e \in S |-> e.stamp]
<1>1. IsFiniteSet(T) /\ Cardinality(T) = Cardinality(H) - 1
  BY FS_RemoveElement
<1>2. g \in Injection(S, T)
  BY DEF Injection, IsInjective
<1>3. IsFiniteSet(S) /\ Cardinality(S) <= Cardinality(T)
  <2> HIDE DEF T, g
  <2> QED
    BY <1>1, <1>2, FS_Injection
<1>4. Cardinality(H) \in Nat /\ Cardinality(S) \in Nat
  BY <1>3, FS_CardinalityType
<1> QED
  BY <1>1, <1>3, <1>4

\* Counting in the abstract module is counting here.
LEMMA SameCardinality == \A S : Throttle!Cardinality(S) = Cardinality(S)
BY Zenon DEF Throttle!Cardinality, Cardinality

\* The action a Dispatch appends is one the throttle admits.
LEMMA DispatchIssues ==
    ASSUME TypeOK, ControlOK, TokenInv, CooldownInv, CapInv, Dispatch
    PROVE  Throttle!Issue
<1> USE CooldownAssumption DEF Instants, MaybeInstants, NoTime
<1> PICK ok \in BOOLEAN :
      ledger' = ledger \cup
            {[pod |-> req[1], action |-> local.action, token |-> lastToken,
              stamp |-> cdLast[Key], at |-> now, ok |-> ok, epoch |-> epoch]}
  BY DEF Dispatch
<1> DEFINE a == [pod |-> req[1], action |-> local.action, token |-> lastToken,
                 stamp |-> cdLast[Key], at |-> now, ok |-> ok, epoch |-> epoch]
           S == {f \in ledger : Throttle!SameKey(a, f) /\ f.stamp > a.stamp - Hour}
<1>1. /\ a.token = lastToken /\ a.stamp = cdLast[Key] /\ a.epoch = epoch
      /\ a.pod = req[1] /\ a.action = local.action
  OBVIOUS
<1>2. /\ pc = "dispatch" /\ pc \in Holding /\ pc \in Granted
      /\ local.action \in HealingActions /\ Key \in CooldownKeys /\ cdLast[Key] \in Nat
  BY DEF Dispatch, Holding, Granted, ControlOK, Chosen, Key, CooldownKeys, Contexts
<1>3. \A f \in ledger : f.stamp \in Nat
  BY DEF TypeOK, Actions
<1>4. \A f \in ledger : Throttle!SameKey(a, f) <=> Mine(f)
  BY <1>1 DEF Throttle!SameKey, Throttle!SameProcess, Mine
<1>5. \A f \in ledger : Throttle!SameProcess(a, f) => a.token - f.token >= MinInterval
  BY <1>1, <1>2 DEF Throttle!SameProcess, TokenInv
<1>6. \A f \in ledger : Throttle!SameKey(a, f) => a.stamp - f.stamp >= Cooldown[a.action]
  BY <1>1, <1>2, <1>4 DEF CooldownInv, Mine
<1>7. MaxPerHour[a.action] > 0 => Cardinality(S) < MaxPerHour[a.action]
  <2> SUFFICES ASSUME MaxPerHour[local.action] > 0
               PROVE  Cardinality(S) < MaxPerHour[local.action]
    BY <1>1
  <2>1. /\ IsFiniteSet(cdHistory[Key]) /\ cdLast[Key] \in cdHistory[Key]
        /\ Cardinality(cdHistory[Key]) <= MaxPerHour[local.action]
    BY <1>2 DEF CapInv
  <2>2. \A f \in S : f.stamp \in cdHistory[Key]
    BY <1>1, <1>2, <1>4 DEF CapInv
  <2>3. \A f \in S : f.stamp # cdLast[Key]
    <3> SUFFICES ASSUME NEW f \in S, f.stamp = cdLast[Key] PROVE FALSE
      OBVIOUS
    <3>1. f.stamp \in Nat /\ a.stamp - f.stamp >= Cooldown[local.action]
      BY <1>1, <1>3, <1>6
    <3>2. Cooldown[local.action] \in Nat \ {0}
      BY <1>2
    <3> QED
      BY <1>1, <1>2, <3>1, <3>2
  <2>4. \A e, f \in S : e # f => e.stamp # f.stamp
    <3> SUFFICES ASSUME NEW e \in S, NEW f \in S, e # f, e.stamp = f.stamp PROVE FALSE
      OBVIOUS
    <3>1. SameKey(e, f)
      BY <1>4 DEF SameKey, Throttle!SameKey, Throttle!SameProcess, Mine
    <3>2. Apart(e.stamp, f.stamp, Cooldown[e.action]) /\ e.action = local.action
      BY <3>1, <1>4 DEF CooldownInv, CooldownSpacing, Mine
    <3>3. Cooldown[local.action] \in Nat \ {0} /\ e.stamp \in Nat
      BY <1>2, <1>3
    <3> QED
      BY <3>2, <3>3 DEF Apart
  <2>5. IsFiniteSet(S) /\ Cardinality(S) < Cardinality(cdHistory[Key])
    <3> HIDE DEF S
    <3> QED
      BY <2>1, <2>2, <2>3, <2>4, StampsCounted
  <2>6. /\ Cardinality(S) \in Nat /\ Cardinality(cdHistory[Key]) \in Nat
        /\ MaxPerHour[local.action] \in Nat
    BY <1>2, <2>1, <2>5, FS_CardinalityType
  <2> HIDE DEF S
  <2> QED
    BY <2>1, <2>5, <2>6
<1>8. a \in ledger' /\ ledger' = ledger \cup {a}
  OBVIOUS
<1> HIDE DEF a
<1>9. Throttle!Admits(a)
  BY <1>5, <1>6, <1>7, SameCardinality DEF Throttle!Admits
<1> QED
  BY <1>8, <1>9 DEF Throttle!Issue

ThrottleInv == TypeOK /\ ControlOK /\ TokenInv /\ CooldownInv /\ CapInv

\* The guardrails' invariant holds before anything is dispatched.
LEMMA ThrottleInit == Init => ThrottleInv
<1> SUFFICES ASSUME Init PROVE TokenInv /\ CooldownInv /\ CapInv
  BY TypeInit DEF ThrottleInv
<1>1. TokenInv
  BY DEF Init, ClockInit, RateLimiterInit, NoTime, TokenInv, TokenSpacing, Holding
<1>2. CooldownInv
  BY DEF Init, ClockInit, CooldownInit, NeverGranted, NoTime, CooldownInv,
        CooldownSpacing, Granted
<1>3. CapInv
  BY FS_EmptySet DEF Init, CooldownInit, EmptyHistory, CapInv, Granted
<1> QED
  BY <1>1, <1>2, <1>3

\* The guardrails' invariant holds throughout.
LEMMA ThrottleInvariant == Spec => []ThrottleInv
<1>1. ThrottleInv /\ [Next]_vars => ThrottleInv'
  BY TypeStep, TokenStep, GrantStep DEF ThrottleInv
<1> QED
  BY ThrottleInit, <1>1, PTL DEF Spec

\* No step but Dispatch touches the ledger.
LEMMA OnlyDispatchIssues ==
    ASSUME TypeOK, [Next]_vars, ~Dispatch
    PROVE  UNCHANGED ledger
BY DEF Next, ReconcilerStep, Receive, BreakerGate, LimiterGate, LoadEntry, StoreRung,
       ConfirmGate, CooldownGate, CordonGate, DispatchFailed, LaunchObserver,
       ObserverStep, ObserverResolved, ObserverSleeps, ObserverExpired, Purge,
       TimePasses, PodChanges, Crash, historyVars, vars

\* The same action on the same pod is granted no sooner than its cooldown
\* allows, whichever anomaly types ask for it.
THEOREM CooldownsKept == Spec => []CooldownSpacing
<1>1. ThrottleInv => CooldownSpacing
  BY DEF ThrottleInv, CooldownInv
<1> QED
  BY ThrottleInvariant, <1>1, PTL

\* The wait the limiter reports is over exactly when a token is to be had.
LEMMA TokenWaitExact ==
    ASSUME TypeOK, TokenInv, NEW d \in Nat
    PROVE  TokenAvailableAt(now + d) <=> TokenWait <= d
BY MinIntervalAssumption
   DEF TypeOK, TokenInv, TokenAvailableAt, TokenWait, Instants, MaybeInstants, NoTime

\* The wait a cooldown reports: what is left of the interval, then the hour that
\* empties the history, then nothing.
LEMMA CooldownWaitExact ==
    ASSUME ThrottleInv, NEW k \in CooldownKeys
    PROVE  /\ CooldownWait(k) \in Nat
           /\ CooldownPermits(k) <=> CooldownWait(k) = 0
           /\ ~IntervalOver(k, now) =>
                 \A d \in 0 .. CooldownWait(k) : IntervalOver(k, now + d) <=> d = CooldownWait(k)
           /\ IntervalOver(k, now) => CapOpen(k, now + CooldownWait(k))
<1> USE DEF Instants, MaybeInstants, NoTime
<1>1. /\ now \in Nat /\ cdLast[k] \in Nat \cup {-1} /\ Hour \in Nat \ {0}
      /\ Cooldown[k[2]] \in Nat \ {0} /\ MaxPerHour[k[2]] \in Nat
      /\ cdLast[k] <= now
  BY CooldownAssumption DEF ThrottleInv, TypeOK, CooldownKeys, CooldownInv
<1>2. Cardinality(Recent(cdHistory[k])) \in Nat
  <2>1. IsFiniteSet(cdHistory[k]) /\ Recent(cdHistory[k]) \subseteq cdHistory[k]
    BY DEF ThrottleInv, CapInv, Recent
  <2> QED
    BY <2>1, FS_Subset, FS_CardinalityType
<1>3. CooldownWait(k) \in Nat /\ (CooldownPermits(k) <=> CooldownWait(k) = 0)
  BY <1>1, <1>2 DEF CooldownPermits, CooldownWait
<1>4. ASSUME ~IntervalOver(k, now), NEW d \in 0 .. CooldownWait(k)
      PROVE  IntervalOver(k, now + d) <=> d = CooldownWait(k)
  <2>1. CooldownWait(k) = Cooldown[k[2]] - (now - cdLast[k]) /\ cdLast[k] # -1
    BY <1>1, <1>4 DEF CooldownWait, IntervalOver
  <2>2. d \in Nat /\ d <= CooldownWait(k)
    BY <1>3
  <2> QED
    BY <1>1, <2>1, <2>2 DEF IntervalOver
<1>5. ASSUME IntervalOver(k, now) PROVE CapOpen(k, now + CooldownWait(k))
  <2>1. CASE CooldownWait(k) = 0
    <3>1. CooldownPermits(k) /\ now + 0 = now
      BY <1>1, <1>3, <2>1
    <3> QED
      BY <1>1, <2>1, <3>1 DEF CooldownPermits, CapOpen, Recent
  <2>2. CASE CooldownWait(k) # 0
    <3>1. CooldownWait(k) = Hour /\ now + Hour - Hour = now
      BY <1>1, <1>5, <2>2 DEF CooldownWait, IntervalOver
    <3>2. {s \in cdHistory[k] : s > now + Hour - Hour} = {}
      <4>1. \A s \in cdHistory[k] : s \in Nat /\ s <= now
        BY DEF ThrottleInv, CapInv, TypeOK
      <4> QED
        BY <1>1, <3>1, <4>1
    <3>3. Cardinality({s \in cdHistory[k] : s > now + Hour - Hour}) = 0
      BY <3>2, FS_EmptySet
    <3> QED
      BY <1>1, <3>1, <3>3 DEF CapOpen
  <2> QED
    BY <2>1, <2>2
<1> QED
  BY <1>3, <1>4, <1>5

\* The waiting time reported beside a refusal is how long the refusal lasts: for
\* the limiter, and for every pod and action whatever the history of its key
\* holds, pruned or not.
THEOREM WaitsAgree == Spec => []WaitAgreesWithAllow
<1>1. ThrottleInv => WaitAgreesWithAllow
  BY TokenWaitExact, CooldownWaitExact DEF ThrottleInv, WaitAgreesWithAllow
<1> QED
  BY ThrottleInvariant, <1>1, PTL

\* Every action the controller dispatches, in any interleaving with observers,
\* purges, slow calls and crashes, is one the throttle admits: the controller
\* implements HealingThrottle.
THEOREM ControllerImplementsThrottle == Spec => ThrottleSpec
<1>1. Init => Throttle!Init
  BY DEF Init, Throttle!Init
<1>2. ThrottleInv /\ [Next]_vars => [Throttle!Issue]_ledger
  <2> SUFFICES ASSUME ThrottleInv, [Next]_vars PROVE [Throttle!Issue]_ledger
    OBVIOUS
  <2>1. CASE Dispatch
    BY <2>1, DispatchIssues DEF ThrottleInv
  <2>2. CASE ~Dispatch
    BY <2>2, OnlyDispatchIssues DEF ThrottleInv
  <2> QED
    BY <2>1, <2>2
<1> QED
  BY ThrottleInvariant, <1>1, <1>2, PTL DEF Spec, ThrottleSpec, Throttle!Spec
=============================================================================
