----------------------------- MODULE Controller -----------------------------
(***************************************************************************)
(* The healing controller (internal/controller): the reconciler goroutine  *)
(* that takes one anomaly at a time through eight gates to a dispatched    *)
(* action, the outcome observers it launches, which run concurrently with  *)
(* it and with each other, the purge goroutine, and process restarts.      *)
(***************************************************************************)
EXTENDS RateLimiter, CooldownStore, CircuitBreaker, Escalation

CONSTANTS ProtectedNamespacePods,  \* pods in protected_namespaces
          ProtectedLabelPods,      \* pods carrying one of protected_labels
          NeedsConfirmation,       \* actions for which RequiresConfirmation is true
          CordonMinPods,           \* cordon_requires_min_affected_pods
          ObservationWindow,       \* Policy.ObservationWindow, per action
          PollInterval,            \* observerPollInterval
          DryRun,                  \* Reconciler.dryRun
          SlowPoints,              \* program points at which time may pass
          MaxEpoch                 \* bound on controller restarts

ProgramPoints ==
    {"idle", "breaker", "limiter", "escalate", "store", "confirm", "cooldown",
     "cordon", "dispatch", "failed", "launch"}

ASSUME ControllerAssumption ==
    /\ ProtectedNamespacePods \subseteq Pods
    /\ ProtectedLabelPods \subseteq Pods
    \* "manual" is not in the policy's action table, and an action that is not
    \* there requires confirmation.
    /\ "manual" \in NeedsConfirmation
    /\ CordonMinPods \in Nat
    /\ ObservationWindow \in [HealingActions -> Nat \ {0}]
    /\ PollInterval \in Nat \ {0}
    /\ DryRun \in BOOLEAN
    /\ SlowPoints \subseteq ProgramPoints
    /\ MaxEpoch \in Nat
    /\ Pods \cap Nodes = {}

VARIABLES pc,          \* where the reconciler goroutine is
          req,         \* the anomaly in hand, as its (pod, type)
          local,       \* NextAction's loaded entry, then the rung it chose
          watchers,    \* running outcome observers
          ready,       \* pods the API server reports Running and Ready
          cordoned,    \* nodes with Spec.Unschedulable
          shunning,    \* pods whose Deployment has been told to avoid their node
          epoch,       \* incarnation of the controller process
          ledger,      \* history: every dispatched action
          slips,       \* history: dispatches made since the breaker opened
          began        \* history: the token that paid a ladder's first rung

reconcilerVars == <<pc, req, local>>
clusterVars == <<ready, cordoned, shunning>>
historyVars == <<epoch, ledger, slips, began>>
vars == <<now, lastToken, cdLast, cdHistory, cbHistory, cbOpen, cbTrippedAt,
          esc, purging, pc, req, local, watchers, ready, cordoned, shunning,
          epoch, ledger, slips, began>>

NoContext == <<>>

NeverBegan == [c \in EscalationKeys |-> NoTime]

Init ==
    /\ ClockInit
    /\ RateLimiterInit
    /\ CooldownInit
    /\ BreakerInit
    /\ EscalationInit
    /\ pc = "idle"
    /\ req = NoContext
    /\ local = NoEntry
    /\ watchers = {}
    /\ ready = Pods
    /\ cordoned = {}
    /\ shunning = {}
    /\ epoch = 0
    /\ ledger = {}
    /\ slips = 0
    /\ began = NeverBegan

-----------------------------------------------------------------------------
(* The reconciler goroutine.  handleAnomaly acknowledges the message on    *)
(* every path, so a gate that says no simply drops the anomaly.            *)

Goto(l) == pc' = l /\ UNCHANGED <<req, local>>
Drop == pc' = "idle" /\ req' = NoContext /\ local' = NoEntry

\* An anomaly is delivered and passes gates 1 (protected namespace) and 2
\* (protected labels).  When the pod lookup fails the labels are nil and the
\* second gate is passed.
Receive(c) ==
    /\ pc = "idle"
    /\ c[1] \notin ProtectedNamespacePods
    /\ \E lookupFailed \in BOOLEAN : c[1] \in ProtectedLabelPods => lookupFailed
    /\ pc' = "breaker"
    /\ req' = c
    /\ UNCHANGED <<now, lastToken, cdVars, cbVars, escVars, local, watchers,
                   clusterVars, historyVars>>

\* Gate 3.
BreakerGate ==
    /\ pc = "breaker"
    /\ \/ /\ BreakerAllow
          /\ Goto("limiter")
          /\ slips' = IF cbOpen' THEN slips ELSE 0
       \/ BreakerRefuse /\ Drop /\ UNCHANGED slips
    /\ UNCHANGED <<now, lastToken, cdVars, escVars, watchers, clusterVars,
                   epoch, ledger, began>>

\* Gate 4.
LimiterGate ==
    /\ pc = "limiter"
    /\ \/ TakeToken /\ Goto("escalate")
       \/ RefuseToken /\ Drop
    /\ UNCHANGED <<now, cdVars, cbVars, escVars, watchers, clusterVars, historyVars>>

\* Gate 5, first half: IsManual, then NextAction's Load.  The two reads are
\* one step because in between other goroutines can only reset the entry.
LoadEntry ==
    /\ pc = "escalate"
    /\ IF IsManual(req)
       THEN Drop
       ELSE pc' = "store" /\ local' = esc[req] /\ UNCHANGED req
    /\ UNCHANGED <<now, lastToken, cdVars, cbVars, escVars, watchers,
                   clusterVars, historyVars>>

\* Gate 5, second half: NextAction's Store.  The ladder has advanced whatever
\* the remaining gates say.
StoreRung ==
    /\ pc = "store"
    /\ StoreNext(req, local)
    /\ pc' = "confirm"
    /\ local' = NextRung(local)
    /\ began' = IF Level(NextRung(local)) = 1
                THEN [began EXCEPT ![req] = lastToken] ELSE began
    /\ UNCHANGED <<now, lastToken, cdVars, cbVars, req, watchers, clusterVars,
                   epoch, ledger, slips>>

\* Gate 6: an action that requires confirmation resets the ladder.
ConfirmGate ==
    /\ pc = "confirm"
    /\ IF local.action \in NeedsConfirmation
       THEN MarkResolved(req) /\ Drop
       ELSE UNCHANGED escVars /\ Goto("cooldown")
    /\ UNCHANGED <<now, lastToken, cdVars, cbVars, watchers, clusterVars, historyVars>>

\* Gate 7.
Key == <<req[1], local.action>>

\* Mutation: a refused handler waits for the cooldown instead of returning.
CooldownGate_Waits ==
    /\ pc = "cooldown"
    /\ \/ /\ CooldownGrant(Key)
          /\ Goto(IF local.action = "cordon_node" THEN "cordon" ELSE "dispatch")
       \/ CooldownRefuse(Key) /\ Goto("cooldown")
    /\ UNCHANGED <<now, lastToken, cbVars, escVars, watchers, clusterVars, historyVars>>

CooldownGate ==
    /\ pc = "cooldown"
    /\ \/ /\ CooldownGrant(Key)
          /\ Goto(IF local.action = "cordon_node" THEN "cordon" ELSE "dispatch")
       \/ CooldownRefuse(Key) /\ Drop
    /\ UNCHANGED <<now, lastToken, cbVars, escVars, watchers, clusterVars, historyVars>>

\* Gate 8: AffectedPodCount lists the namespace's pods on the node; a failed
\* list counts as zero.
CordonGate ==
    /\ pc = "cordon"
    /\ \E count \in 0 .. Cardinality({p \in Pods : AffectedNode(p) = AffectedNode(req[1])}) :
          IF count < CordonMinPods THEN Drop ELSE Goto("dispatch")
    /\ UNCHANGED <<now, lastToken, cdVars, cbVars, escVars, watchers,
                   clusterVars, historyVars>>

\* The executors.  A mutating call may fail before or after it took effect.
DeletePod(p, ok) ==
    /\ UNCHANGED cordoned
    /\ \/ ready' = ready \ {p} /\ ~DryRun
       \/ ready' = ready /\ (DryRun \/ ~ok)

RestartExecute(p, ok) ==
    /\ DryRun => ok
    /\ DeletePod(p, ok)
    /\ UNCHANGED shunning

\* injectAntiAffinity: skipped when the anomaly names no Deployment, a
\* server-side dry run in dry-run mode, and an error is only logged.
InjectAntiAffinity(p) ==
    \/ UNCHANGED shunning
    \/ ~DryRun /\ shunning' = shunning \cup {p}

RescheduleExecute(p, ok) ==
    IF AffectedNode(p) = NoNode
    THEN ~ok /\ UNCHANGED clusterVars
    ELSE (DryRun => ok) /\ InjectAntiAffinity(p) /\ DeletePod(p, ok)

\* Mutation: dry run is not consulted.
CordonExecute_Wet(n, ok) ==
    /\ UNCHANGED <<ready, shunning>>
    /\ \/ ~ok /\ UNCHANGED cordoned
       \/ n # NoNode /\ cordoned' = cordoned \cup {n}

CordonExecute(n, ok) ==
    /\ UNCHANGED <<ready, shunning>>
    /\ \/ ~ok /\ UNCHANGED cordoned
       \/ n # NoNode /\ ok /\ (n \in cordoned \/ DryRun) /\ UNCHANGED cordoned
       \/ n # NoNode /\ n \notin cordoned /\ ~DryRun /\ cordoned' = cordoned \cup {n}

Execute(a, p, ok) ==
    CASE a = "restart_pod" -> RestartExecute(p, ok)
      [] a = "reschedule_pod" -> RescheduleExecute(p, ok)
      [] a = "cordon_node" -> CordonExecute(AffectedNode(p), ok)

Dispatch ==
    /\ pc = "dispatch"
    /\ \E ok \in BOOLEAN :
          /\ Execute(local.action, req[1], ok)
          /\ ledger' = ledger \cup
                {[pod |-> req[1], action |-> local.action, token |-> lastToken,
                  stamp |-> cdLast[Key], at |-> now,
                  ok |-> ok, epoch |-> epoch]}
          /\ Goto(IF ok THEN "launch" ELSE "failed")
    /\ slips' = IF cbOpen THEN slips + 1 ELSE slips
    /\ UNCHANGED <<now, lastToken, cdVars, cbVars, escVars, watchers, epoch, began>>

\* The rest of reconcile after Execute returned an error.
DispatchFailed ==
    /\ pc = "failed"
    /\ RecordFailure(lastToken)
    /\ Drop
    /\ UNCHANGED <<now, lastToken, cdVars, escVars, watchers, clusterVars, historyVars>>

\* The rest of reconcile after a successful Execute: events and audit are
\* emitted, and unless this is a dry run an observer goroutine is launched.
\* The token's instant identifies the action within its epoch.
LaunchObserver ==
    /\ pc = "launch"
    /\ watchers' = IF DryRun THEN watchers ELSE watchers \cup
          {[id |-> lastToken, ctx |-> req, action |-> local.action,
            deadline |-> now + ObservationWindow[local.action],
            wake |-> now + PollInterval]}
    /\ Drop
    /\ UNCHANGED <<now, lastToken, cdVars, cbVars, escVars, clusterVars, historyVars>>

-----------------------------------------------------------------------------
(* Outcome observers, one goroutine each.                                  *)

\* checkNodeCordoned or checkPodReady would say yes.
Healthy(w) ==
    IF w.action = "cordon_node"
    THEN AffectedNode(w.ctx[1]) \in cordoned
    ELSE w.ctx[1] \in ready

\* publish() resolves the ladder of (action.TargetName, type), and the target
\* of a cordon is the node.
ResolvedKey(w) ==
    IF w.action = "cordon_node" THEN <<AffectedNode(w.ctx[1]), w.ctx[2]>> ELSE w.ctx

\* Mutations: the goroutine reports but does not return; it never gives up.
ObserverResolved_Stays(w) ==
    /\ now >= w.wake
    /\ Healthy(w)
    /\ UNCHANGED watchers
    /\ RecordSuccess(w.id)
    /\ MarkResolved(ResolvedKey(w))
    /\ UNCHANGED <<now, lastToken, cdVars, reconcilerVars, clusterVars, historyVars>>
ObserverSleeps_NoDeadline(w) ==
    /\ now >= w.wake
    /\ watchers' = (watchers \ {w}) \cup {[w EXCEPT !.wake = now + PollInterval]}
    /\ UNCHANGED <<now, lastToken, cdVars, cbVars, escVars, reconcilerVars,
                   clusterVars, historyVars>>

\* One wake-up of watch(): the check succeeds, or the window is not over and
\* the goroutine sleeps again, or the window is over.  A failing API call is
\* a check that does not succeed.  publish() is part of the step: a pod's
\* readiness changes freely, so acting on an earlier check is no further
\* behaviour.  Its two updates, of the breaker's history and of the ladder,
\* are of disjoint state and a success trips nothing: they are one step.
ObserverResolved(w) ==
    /\ now >= w.wake
    /\ Healthy(w)
    /\ watchers' = watchers \ {w}
    /\ RecordSuccess(w.id)
    /\ MarkResolved(ResolvedKey(w))
    /\ UNCHANGED <<now, lastToken, cdVars, reconcilerVars, clusterVars, historyVars>>

ObserverSleeps(w) ==
    /\ now >= w.wake
    /\ now < w.deadline
    /\ watchers' = (watchers \ {w}) \cup {[w EXCEPT !.wake = now + PollInterval]}
    /\ UNCHANGED <<now, lastToken, cdVars, cbVars, escVars, reconcilerVars,
                   clusterVars, historyVars>>

ObserverExpired(w) ==
    /\ now >= w.wake
    /\ now >= w.deadline
    /\ watchers' = watchers \ {w}
    /\ RecordFailure(w.id)
    /\ UNCHANGED <<now, lastToken, cdVars, escVars, reconcilerVars, clusterVars,
                   historyVars>>

-----------------------------------------------------------------------------
(* The purge goroutine, the environment and process restarts.              *)

Purge(c) ==
    /\ PurgeVisit(c) \/ PurgeDelete(c)
    /\ UNCHANGED <<now, lastToken, cdVars, cbVars, reconcilerVars, watchers,
                   clusterVars, historyVars>>

\* While the handler is inside straight-line code time need not pass for the
\* goroutine to be overtaken by the others; SlowPoints says where it may.
TimePasses ==
    /\ pc \in SlowPoints
    /\ Tick
    /\ UNCHANGED <<lastToken, cdVars, cbVars, escVars, reconcilerVars, watchers,
                   clusterVars, historyVars>>

\* A pod recovers, or fails, on its own.
PodChanges(p) ==
    /\ ready' = IF p \in ready THEN ready \ {p} ELSE ready \cup {p}
    /\ UNCHANGED <<now, lastToken, cdVars, cbVars, escVars, reconcilerVars,
                   watchers, cordoned, shunning, historyVars>>

\* The process dies, at any point, and is started again; everything it knew
\* was in memory.  The anomaly in hand
\* was not acknowledged and may be delivered again.
Crash ==
    /\ epoch < MaxEpoch
    /\ epoch' = epoch + 1
    /\ RateLimiterReset
    /\ CooldownReset
    /\ BreakerReset
    /\ EscalationReset
    /\ Drop
    /\ watchers' = {}
    /\ slips' = 0
    /\ began' = NeverBegan
    /\ UNCHANGED <<now, clusterVars, ledger>>

ReconcilerStep ==
    \/ BreakerGate \/ LimiterGate \/ LoadEntry \/ StoreRung \/ ConfirmGate
    \/ CooldownGate \/ CordonGate \/ Dispatch \/ DispatchFailed \/ LaunchObserver

ObserverStep(w) == ObserverResolved(w) \/ ObserverSleeps(w) \/ ObserverExpired(w)

Next ==
    \/ \E c \in Contexts : Receive(c)
    \/ ReconcilerStep
    \/ \E w \in watchers : ObserverStep(w)
    \/ \E c \in EscalationKeys : Purge(c)
    \/ TimePasses
    \/ \E p \in Pods : PodChanges(p)
    \/ Crash

Spec == Init /\ [][Next]_vars

\* The Go runtime runs every goroutine that can run, and time passes.  A pod
\* need not recover and anomalies need not arrive.
Fairness ==
    /\ WF_vars(ReconcilerStep)
    /\ WF_vars(TimePasses)
    /\ \A i \in 0 .. MaxTime :
          WF_vars(\E w \in watchers : w.id = i /\ ObserverStep(w))

FairSpec == Spec /\ Fairness

-----------------------------------------------------------------------------
(* Properties.                                                             *)

Watchers ==
    [id : Instants, ctx : Contexts, action : HealingActions,
     deadline : Instants, wake : Instants]

Actions ==
    [pod : Pods, action : HealingActions, token : Instants, stamp : Instants,
     at : Instants, ok : BOOLEAN, epoch : Nat]

\* The types of the whole state.
TypeOK ==
    /\ now \in Instants
    /\ lastToken \in MaybeInstants
    /\ cdLast \in [CooldownKeys -> MaybeInstants]
    /\ cdHistory \in [CooldownKeys -> SUBSET Instants]
    /\ cbHistory \subseteq [id : Instants, at : Instants, success : BOOLEAN]
    /\ cbOpen \in BOOLEAN
    /\ cbTrippedAt \in MaybeInstants
    /\ esc \in [EscalationKeys -> EscalationEntry]
    /\ purging \subseteq EscalationKeys
    /\ pc \in ProgramPoints
    /\ req \in Contexts \cup {NoContext}
    /\ local \in EscalationEntry
    /\ watchers \subseteq Watchers
    /\ ready \subseteq Pods
    /\ cordoned \subseteq Nodes
    /\ shunning \subseteq Pods
    /\ epoch \in Nat
    /\ ledger \subseteq Actions
    /\ slips \in Nat
    /\ began \in [EscalationKeys -> MaybeInstants]

\* The dispatched actions of a process are those of a throttle that keeps the
\* spacing, the cooldowns and the caps: every Dispatch is an admissible Issue,
\* although the checks were made by separate gates several steps earlier.
Throttle == INSTANCE HealingThrottle WITH issued <- ledger
ThrottleSpec == Throttle!Spec

SameProcess(e, f) == Throttle!SameProcess(e, f)
SameKey(e, f) == Throttle!SameKey(e, f)

Apart(t, u, d) == t - u >= d \/ u - t >= d

\* The rate limiter's promise as reconcile uses it: however observers, crashes
\* and slow API calls interleave, two actions dispatched by one process paid
\* with tokens taken at least MinInterval apart.
TokenSpacing ==
    \A e, f \in ledger :
        SameProcess(e, f) /\ e # f => Apart(e.token, f.token, MinInterval)

\* One process never grants the same action on the same pod twice within the
\* action's cooldown.
CooldownSpacing ==
    \A e, f \in ledger :
        SameKey(e, f) /\ e # f => Apart(e.stamp, f.stamp, Cooldown[e.action])

\* A refused caller is told how long the refusal lasts, although Allow() and
\* TimeUntilNext() read the clock and the history separately.  Of the limiter
\* this is exact: a token is to be had after d if and only if d is at least the
\* wait.  A cooldown's wait is exactly what is left of the interval; when only
\* the cap refuses, the whole hour it names is enough, if nothing is granted
\* meanwhile.
WaitAgreesWithAllow ==
    /\ \A d \in 0 .. MinInterval : TokenAvailableAt(now + d) <=> TokenWait <= d
    /\ \A k \in CooldownKeys :
          LET wait == CooldownWait(k) IN
          /\ CooldownPermits(k) <=> wait = 0
          /\ ~IntervalOver(k, now) =>
                \A d \in 0 .. wait : IntervalOver(k, now + d) <=> d = wait
          /\ IntervalOver(k, now) => CapOpen(k, now + wait)

\* The breaker is consulted at gate 3 and the action executed several steps
\* later, so an observer can trip it in between; but no more than that one
\* action gets through while the breaker is open.
AtMostOneSlip == slips <= 1

\* Every rung costs a rate-limiter token, even one a later gate refuses to
\* execute: from its first rung on, whenever that was taken and whatever was
\* resolved, purged or handled for others in between, a ladder is climbed no
\* faster than one rung per MinInterval.
LadderPace ==
    \A c \in EscalationKeys :
        Level(esc[c]) > 0 =>
            lastToken >= began[c] + (Level(esc[c]) - 1) * MinInterval

\* An action counts once in the breaker's failure rate: a failed dispatch is
\* not observed as well, and no two observers report on the same action.
OneVerdictPerAction ==
    /\ \A r, s \in cbHistory : r.id = s.id => r = s
    /\ \A w \in watchers, r \in cbHistory : w.id # r.id
    /\ \A v, w \in watchers : v.id = w.id => v = w

\* In dry-run mode, whatever rung the ladder reaches, no node is cordoned, no
\* Deployment is patched and no outcome is awaited,
DryRunTouchesNothing ==
    DryRun => cordoned = {} /\ shunning = {} /\ watchers = {}

\* and no step of the handler, an executor's among them, takes a pod away.
DryRunDeletesNothing ==
    [][DryRun /\ ReconcilerStep => UNCHANGED ready]_vars

\* handleAnomaly always comes back for the next message.
HandlerReturns == pc # "idle" ~> pc = "idle"

\* Every launched observer whose window ends within the horizon reaches a
\* verdict, unless the process dies.
VerdictReached ==
    \A i \in 0 .. MaxTime :
        (\E w \in watchers : w.id = i /\ w.deadline + PollInterval <= MaxTime)
            ~> ~(\E w \in watchers : w.id = i)
=============================================================================
