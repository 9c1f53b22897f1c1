---------------------------- MODULE CooldownStore ----------------------------
(***************************************************************************)
(* guardrails.CooldownStore (cooldown.go): per (pod, action) cooldown      *)
(* interval and rolling hourly cap.  A pod stands for its namespaced name. *)
(* The history slice is a set of instants: a cooldown is positive, so no   *)
(* two grants of one key carry the same instant.                           *)
(***************************************************************************)
EXTENDS Clock, Workload, FiniteSets

CONSTANTS Cooldown,         \* Policy.CooldownFor, per action
          MaxPerHour,       \* Policy.MaxPerHour, per action; at 0 Allow() has no cap
          Hour              \* length of the rolling window

CooldownKeys == Pods \X HealingActions

ASSUME CooldownAssumption ==
    /\ Cooldown \in [HealingActions -> Nat \ {0}]
    /\ MaxPerHour \in [HealingActions -> Nat]
    /\ Hour \in Nat \ {0}

VARIABLES cdLast,           \* cooldownEntry.lastAction
          cdHistory         \* cooldownEntry.history

cdVars == <<cdLast, cdHistory>>

NeverGranted == [k \in CooldownKeys |-> NoTime]
EmptyHistory == [k \in CooldownKeys |-> {}]

CooldownInit == cdLast = NeverGranted /\ cdHistory = EmptyHistory
\* A restarted process: the entries live in memory.
CooldownReset == cdLast' = NeverGranted /\ cdHistory' = EmptyHistory

\* Entries strictly younger than one hour: Allow() prunes the others.
Recent(hist) == {t \in hist : t > now - Hour}

\* Mutations: the interval is not checked; the cap admits one too many.
CooldownPermits_NoInterval(k) ==
    MaxPerHour[k[2]] = 0 \/ Cardinality(Recent(cdHistory[k])) < MaxPerHour[k[2]]
CooldownPermits_OneMore(k) ==
    /\ cdLast[k] = NoTime \/ now - cdLast[k] >= Cooldown[k[2]]
    /\ MaxPerHour[k[2]] = 0 \/ Cardinality(Recent(cdHistory[k])) <= MaxPerHour[k[2]]

\* The two checks of Allow(), on the pruned history.
CooldownPermits(k) ==
    /\ cdLast[k] = NoTime \/ now - cdLast[k] >= Cooldown[k[2]]
    /\ MaxPerHour[k[2]] = 0 \/ Cardinality(Recent(cdHistory[k])) < MaxPerHour[k[2]]

\* What the two checks amount to at instant t, if nothing is granted until then.
IntervalOver(k, t) == cdLast[k] = NoTime \/ t - cdLast[k] >= Cooldown[k[2]]
CapOpen(k, t) ==
    MaxPerHour[k[2]] > 0 =>
        Cardinality({s \in cdHistory[k] : s > t - Hour}) < MaxPerHour[k[2]]

\* Allow() returning true: prune, then record the grant.
CooldownGrant(k) ==
    /\ CooldownPermits(k)
    /\ cdLast' = [cdLast EXCEPT ![k] = now]
    /\ cdHistory' = [cdHistory EXCEPT ![k] = Recent(@) \cup {now}]

\* Allow() returning false: only the pruning is kept.
CooldownRefuse(k) ==
    /\ ~CooldownPermits(k)
    /\ cdHistory' = [cdHistory EXCEPT ![k] = Recent(@)]
    /\ UNCHANGED cdLast

\* Mutation: the cap is compared with the history as stored, not the last hour.
CooldownWait_Unpruned(k) ==
    IF cdLast[k] # NoTime /\ Cooldown[k[2]] - (now - cdLast[k]) > 0
    THEN Cooldown[k[2]] - (now - cdLast[k])
    ELSE IF MaxPerHour[k[2]] > 0 /\ Cardinality(cdHistory[k]) >= MaxPerHour[k[2]]
    THEN Hour
    ELSE 0

\* TimeUntilNext(): what the refused caller is told to wait; the whole hour
\* when it is the cap that refuses.
CooldownWait(k) ==
    IF cdLast[k] # NoTime /\ Cooldown[k[2]] - (now - cdLast[k]) > 0
    THEN Cooldown[k[2]] - (now - cdLast[k])
    ELSE IF MaxPerHour[k[2]] > 0 /\ Cardinality(Recent(cdHistory[k])) >= MaxPerHour[k[2]]
    THEN Hour
    ELSE 0
=============================================================================
