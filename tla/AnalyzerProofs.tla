--------------------------- MODULE AnalyzerProofs ---------------------------
(***************************************************************************)
(* The analyzer's cooldowns and windows, for any rules, pods, policies and *)
(* any number of signals, replicas and restarts.                           *)
(***************************************************************************)
EXTENDS Analyzer, SequenceFacts

KeyOf(a) == <<a.name, a.action>>

\* An anomaly that was reported is remembered by its replica, under an instant
\* that is not earlier; AlertSpacing alone says nothing of what Allow compares.
Remembered ==
    \A a \in alerts :
        /\ a.replica \in Replicas /\ KeyOf(a) \in AlertKeys /\ a.at \in Nat
        /\ a.at <= alerted[a.replica][KeyOf(a)]

SpacingInv ==
    /\ now \in Nat
    /\ alerted \in [Replicas -> [AlertKeys -> MaybeInstants]]
    /\ \A r \in Replicas, k \in AlertKeys : alerted[r][k] <= now
    /\ Remembered
    /\ AlertSpacing

\* The cooldown of an action, from the table or by default, is a positive duration.
LEMMA CooldownNat == \A a \in SuggestedActions : AlertCooldown[a] \in Nat \ {0}
<1> SUFFICES ASSUME NEW a \in SuggestedActions PROVE CooldownPolicyFor(a).duration \in Nat \ {0}
  BY DEF AlertCooldown
<1>1. CASE a \in DOMAIN DefaultCooldowns
  BY <1>1, AnalyzerAssumption DEF CooldownPolicyFor
<1>2. CASE a \notin DOMAIN DefaultCooldowns
  BY <1>2, AnalyzerAssumption DEF CooldownPolicyFor
<1> QED
  BY <1>1, <1>2

\* Nothing has been reported at first.
LEMMA SpacingInit == Init => SpacingInv
BY DEF Init, ClockInit, SpacingInv, Remembered, AlertSpacing, NeverAlerted, MaybeInstants, NoTime

\* A signal: the new anomalies are allowed by what the replica remembers, and two
\* of one signal never share an entry.
LEMMA SignalStep ==
    ASSUME SpacingInv, NEW r \in Replicas, NEW p \in Pods, NEW m, NEW v, NEW t,
           ProcessSignal(r, p, m, v, t)
    PROVE  SpacingInv'
<1> DEFINE n == NameOf[p]
           w == WindowAfter(r, <<n, m>>, [pod |-> p, v |-> v, t |-> t])
           hits == Hits(w, m)
           alerting == Alerting(r, n, hits)
           KeyFor(i) == <<n, RuleList[i].action>>
           keys == {KeyFor(i) : i \in alerting}
           Alert(i) == [replica |-> r, pod |-> p, name |-> n, rule |-> i,
                        action |-> RuleList[i].action, at |-> now,
                        decision |-> Decide(Confidence(i, hits))]
<1>1. /\ alerts' = alerts \cup {Alert(i) : i \in alerting}
      /\ alerted' = [alerted EXCEPT ![r] =
             [k \in AlertKeys |-> IF k \in keys THEN now ELSE alerted[r][k]]]
      /\ now' = now
  BY DEF ProcessSignal, AlertRecord
<1>2. hits \subseteq RuleIndices
  BY DEF Hits, Matching
<1>3. \A i \in alerting :
         /\ i \in Nat /\ RuleList[i].action \in SuggestedActions
         /\ KeyFor(i) \in AlertKeys
         /\ AlertAllowed(r, KeyFor(i))
         /\ \A j \in alerting : RuleList[j].action = RuleList[i].action => i <= j
  BY <1>2, AnalyzerAssumption DEF Alerting, SuggestedActions, AlertKeys, Names
<1> HIDE DEF n, w, hits, alerting
<1> USE DEF SpacingInv, Remembered, KeyOf
<1>4. (/\ now \in Nat
       /\ alerted \in [Replicas -> [AlertKeys -> MaybeInstants]]
       /\ \A q \in Replicas, k \in AlertKeys : alerted[q][k] <= now)'
  BY <1>1 DEF MaybeInstants
<1>5. \A q \in Replicas, k \in AlertKeys : alerted'[q][k] >= alerted[q][k]
  BY <1>1 DEF MaybeInstants, NoTime
<1>6. Remembered'
  <2> SUFFICES ASSUME NEW a \in alerts'
               PROVE  /\ a.replica \in Replicas /\ KeyOf(a) \in AlertKeys /\ a.at \in Nat
                      /\ a.at <= alerted'[a.replica][KeyOf(a)]
    OBVIOUS
  <2>1. CASE a \in alerts
    <3>1. alerted'[a.replica][KeyOf(a)] >= alerted[a.replica][KeyOf(a)]
      BY <1>5, <2>1
    <3>2. /\ alerted[a.replica][KeyOf(a)] \in Int
          /\ alerted'[a.replica][KeyOf(a)] \in Int
      <4>1. a.replica \in Replicas /\ KeyOf(a) \in AlertKeys
        BY <2>1
      <4> HIDE DEF KeyOf, Remembered
      <4> QED
        BY <1>4, <4>1 DEF MaybeInstants, NoTime
    <3> QED
      BY <2>1, <3>1, <3>2
  <2>2. ASSUME NEW i \in alerting, a = Alert(i)
        PROVE  /\ a.replica \in Replicas /\ KeyOf(a) \in AlertKeys /\ a.at \in Nat
               /\ a.at <= alerted'[a.replica][KeyOf(a)]
    <3>1. /\ a.replica = r /\ a.at = now /\ KeyOf(a) = KeyFor(i)
      BY <2>2
    <3>2. alerted'[r][KeyFor(i)] = now
      BY <1>1, <1>3
    <3> QED
      BY <1>3, <3>1, <3>2
  <2> QED
    BY <1>1, <2>1, <2>2
<1>7. ASSUME NEW a \in alerts, NEW i \in alerting, SameStore(a, Alert(i))
      PROVE  now - a.at >= AlertCooldown[a.action]
  <2>1. a.replica = r /\ KeyOf(a) = KeyFor(i) /\ a.action = RuleList[i].action
    BY <1>7 DEF SameStore
  <2>2. a.at \in Nat /\ a.at <= alerted[r][KeyFor(i)] /\ alerted[r][KeyFor(i)] \in MaybeInstants
    BY <2>1, <1>3
  <2>3. now - alerted[r][KeyFor(i)] >= AlertCooldown[RuleList[i].action]
    <3>1. KeyFor(i)[2] = RuleList[i].action
      OBVIOUS
    <3>2. alerted[r][KeyFor(i)] # NoTime
      BY <2>2 DEF NoTime, MaybeInstants
    <3> QED
      BY <1>3, <3>1, <3>2 DEF AlertAllowed
  <2> QED
    BY <1>3, <2>1, <2>2, <2>3, CooldownNat DEF MaybeInstants, NoTime
<1>8. AlertSpacing'
  <2> SUFFICES ASSUME NEW a \in alerts', NEW b \in alerts', SameStore(a, b), a # b
               PROVE  \/ a.at - b.at >= AlertCooldown[a.action]
                      \/ b.at - a.at >= AlertCooldown[a.action]
    BY DEF AlertSpacing, SameStore
  <2>1. CASE a \in alerts /\ b \in alerts
    BY <2>1 DEF AlertSpacing
  <2>2. ASSUME a \in alerts, NEW i \in alerting, b = Alert(i)
        PROVE  b.at - a.at >= AlertCooldown[a.action]
    BY <1>7, <2>2
  <2>3. ASSUME b \in alerts, NEW i \in alerting, a = Alert(i)
        PROVE  a.at - b.at >= AlertCooldown[a.action]
    <3>1. SameStore(b, Alert(i)) /\ a.action = b.action /\ a.at = now
      BY <2>3 DEF SameStore
    <3> QED
      BY <1>7, <2>3, <3>1
  <2>4. ASSUME NEW i \in alerting, NEW j \in alerting, a = Alert(i), b = Alert(j) PROVE FALSE
    <3>1. RuleList[i].action = RuleList[j].action
      BY <2>4 DEF SameStore
    <3>2. i = j
      <4>1. i \in Nat /\ j \in Nat
        BY <1>3
      <4>2. i <= j /\ j <= i
        BY <1>3, <3>1
      <4> QED
        BY <4>1, <4>2
    <3> QED
      BY <2>4, <3>2
  <2> QED
    BY <1>1, <2>1, <2>2, <2>3, <2>4
<1> QED
  BY <1>4, <1>6, <1>8

\* Every step keeps the invariant; a restart forgets a replica's anomalies
\* together with its cooldowns.
LEMMA SpacingStep == SpacingInv /\ [Next]_aVars => SpacingInv'
<1> SUFFICES ASSUME SpacingInv, [Next]_aVars PROVE SpacingInv'
  OBVIOUS
<1> USE DEF SpacingInv
<1>1. ASSUME NEW r \in Replicas, NEW p \in Pods, NEW m, NEW v, NEW t,
             ProcessSignal(r, p, m, v, t)
      PROVE  SpacingInv'
  BY <1>1, SignalStep
<1>2. ASSUME NEW r \in Replicas, Restart(r) PROVE SpacingInv'
  <2>1. /\ alerted' = [alerted EXCEPT ![r] = NeverAlerted]
        /\ alerts' = {a \in alerts : a.replica # r}
        /\ now' = now
    BY <1>2 DEF Restart
  <2>2. (/\ now \in Nat
         /\ alerted \in [Replicas -> [AlertKeys -> MaybeInstants]]
         /\ \A q \in Replicas, k \in AlertKeys : alerted[q][k] <= now)'
    BY <2>1 DEF NeverAlerted, MaybeInstants, NoTime
  <2>3. Remembered'
    BY <2>1 DEF Remembered, KeyOf
  <2>4. AlertSpacing'
    BY <2>1 DEF AlertSpacing, SameStore
  <2> QED
    BY <2>2, <2>3, <2>4
<1>3. CASE TimePasses
  <2>1. now' = now + 1 /\ UNCHANGED <<alerted, alerts>>
    BY <1>3 DEF TimePasses, Tick
  <2>2. \A r \in Replicas, k \in AlertKeys : alerted'[r][k] <= now'
    BY <2>1 DEF MaybeInstants, NoTime
  <2>3. Remembered' /\ AlertSpacing'
    BY <2>1 DEF Remembered, KeyOf, AlertSpacing, SameStore
  <2> QED
    BY <2>1, <2>2, <2>3
<1>4. CASE UNCHANGED aVars
  BY <1>4 DEF aVars, Remembered, KeyOf, AlertSpacing, SameStore
<1> QED
  BY <1>1, <1>2, <1>3, <1>4 DEF Next, IgnoreSignal

\* One replica of the analyzer suggests the same action for a pod name at most
\* once per cooldown, whatever rules fire together and however signals arrive.
THEOREM AlertsSpaced == Spec => []AlertSpacing
<1>1. SpacingInv => AlertSpacing
  BY DEF SpacingInv
<1> QED
  BY SpacingInit, SpacingStep, <1>1, PTL DEF Spec
-----------------------------------------------------------------------------
(* The cap.  What Allow() counts is the pruned list of instants; it holds  *)
(* one for every anomaly of the last hour, and no two anomalies of a key   *)
(* share an instant because a cooldown is positive.                        *)

CapInv ==
    /\ recent \in [Replicas -> [AlertKeys -> SUBSET Nat]]
    /\ \A r \in Replicas, k \in AlertKeys : IsFiniteSet(recent[r][k])
    /\ \A a \in alerts : a.at > now - Hour => a.at \in recent[a.replica][KeyOf(a)]
    /\ AlertCap

\* The cap of an action, from the table or by default, is a number.
LEMMA CapNat == \A a \in SuggestedActions : AlertMaxPerHour[a] \in Nat
<1> SUFFICES ASSUME NEW a \in SuggestedActions PROVE CooldownPolicyFor(a).maxPerHour \in Nat
  BY DEF AlertMaxPerHour
<1>1. CASE a \in DOMAIN DefaultCooldowns
  BY <1>1, AnalyzerAssumption DEF CooldownPolicyFor
<1>2. CASE a \notin DOMAIN DefaultCooldowns
  BY <1>2, AnalyzerAssumption DEF CooldownPolicyFor
<1> QED
  BY <1>1, <1>2

\* Anomalies at pairwise different instants of H are no more than H has.
LEMMA InstantsCounted ==
    ASSUME NEW S, NEW H, IsFiniteSet(H),
           \A e \in S : e.at \in H,
           \A e, f \in S : e # f => e.at # f.at
    PROVE  IsFiniteSet(S) /\ Cardinality(S) <= Cardinality(H)
<1> DEFINE g == [e \in S |-> e.at]
<1>1. g \in Injection(S, H)
  BY DEF Injection, IsInjective
<1> HIDE DEF g
<1> QED
  BY <1>1, FS_Injection

\* The anomalies of a's store in the hour that ends with a.
HourOf(a) == {b \in alerts : SameStore(a, b) /\ b.at <= a.at /\ b.at > a.at - Hour}

CapOf(a) == IF AlertMaxPerHour[a.action] = 0 THEN 1 ELSE AlertMaxPerHour[a.action]

\* Nothing has been reported at first.
LEMMA CapInit == Init => CapInv
<1> SUFFICES ASSUME Init PROVE CapInv
  OBVIOUS
<1>1. \A r \in Replicas, k \in AlertKeys : recent[r][k] = {}
  BY DEF Init, NoneRecent
<1>2. recent \in [Replicas -> [AlertKeys -> SUBSET Nat]]
  BY DEF Init, NoneRecent
<1> QED
  BY <1>1, <1>2, FS_EmptySet DEF Init, CapInv, AlertCap

\* A signal: a key that was allowed has room for one more, and gets one.
LEMMA CapSignalStep ==
    ASSUME SpacingInv, SpacingInv', CapInv, NEW r \in Replicas, NEW p \in Pods,
           NEW m, NEW v, NEW t, ProcessSignal(r, p, m, v, t)
    PROVE  CapInv'
<1> DEFINE n == NameOf[p]
           w == WindowAfter(r, <<n, m>>, [pod |-> p, v |-> v, t |-> t])
           hits == Hits(w, m)
           alerting == Alerting(r, n, hits)
           KeyFor(i) == <<n, RuleList[i].action>>
           keys == {KeyFor(i) : i \in alerting}
           Alert(i) == [replica |-> r, pod |-> p, name |-> n, rule |-> i,
                        action |-> RuleList[i].action, at |-> now,
                        decision |-> Decide(Confidence(i, hits))]
           Pruned(k) == {u \in recent[r][k] : u > now - Hour}
<1>1. /\ alerts' = alerts \cup {Alert(i) : i \in alerting}
      /\ recent' = [recent EXCEPT ![r] =
             [k \in AlertKeys |->
                 IF k \in keys THEN Pruned(k) \cup {now} ELSE recent[r][k]]]
      /\ now' = now
  BY DEF ProcessSignal, AlertRecord
<1>2. hits \subseteq RuleIndices
  BY DEF Hits, Matching
<1>3. \A i \in alerting :
         /\ RuleList[i].action \in SuggestedActions
         /\ KeyFor(i) \in AlertKeys
         /\ AlertAllowed(r, KeyFor(i))
  BY <1>2 DEF Alerting, SuggestedActions, AlertKeys, Names
<1>4. \A i \in alerting : /\ Alert(i).replica = r /\ Alert(i).at = now
                           /\ Alert(i).action = RuleList[i].action
                           /\ KeyOf(Alert(i)) = KeyFor(i)
  BY DEF KeyOf
<1>n. now \in Nat /\ Hour \in Nat \ {0}
  BY AnalyzerAssumption DEF SpacingInv
<1>5. \A a, b \in alerts' : SameStore(a, b) <=> a.replica = b.replica /\ KeyOf(a) = KeyOf(b)
  BY DEF SameStore, KeyOf
<1> HIDE DEF n, w, hits, alerting, Alert, KeyFor, Pruned
<1>6. \A k \in AlertKeys : /\ Pruned(k) \subseteq recent[r][k] /\ Pruned(k) \subseteq Nat
                            /\ IsFiniteSet(Pruned(k))
  BY FS_Subset DEF CapInv, Pruned
<1>7. recent' \in [Replicas -> [AlertKeys -> SUBSET Nat]]
  BY <1>1, <1>6, <1>n DEF CapInv
<1>8. \A q \in Replicas, k \in AlertKeys : IsFiniteSet(recent'[q][k])
  <2>1. \A k \in AlertKeys : IsFiniteSet(Pruned(k) \cup {now})
    BY <1>6, FS_AddElement
  <2> QED
    BY <1>1, <2>1 DEF CapInv
<1>9. \A a \in alerts' : a.at > now' - Hour => a.at \in recent'[a.replica][KeyOf(a)]
  <2> SUFFICES ASSUME NEW a \in alerts', a.at > now - Hour
               PROVE  a.at \in recent'[a.replica][KeyOf(a)]
    BY <1>1
  <2>1. CASE a \in alerts
    <3>1. a.replica \in Replicas /\ KeyOf(a) \in AlertKeys
      BY <2>1 DEF SpacingInv, Remembered
    <3>2. a.at \in recent[a.replica][KeyOf(a)]
      BY <2>1 DEF CapInv
    <3>3. a.replica = r => a.at \in Pruned(KeyOf(a))
      BY <3>2 DEF Pruned
    <3> QED
      BY <1>1, <3>1, <3>2, <3>3 DEF CapInv
  <2>2. ASSUME NEW i \in alerting, a = Alert(i) PROVE a.at \in recent'[a.replica][KeyOf(a)]
    BY <1>1, <1>3, <1>4, <2>2 DEF CapInv
  <2> QED
    BY <1>1, <2>1, <2>2
<1>10. \A a, b \in alerts' : SameStore(a, b) /\ a # b => a.at # b.at
  <2> SUFFICES ASSUME NEW a \in alerts', NEW b \in alerts', SameStore(a, b), a # b
               PROVE  a.at # b.at
    OBVIOUS
  <2>1. a.at \in Nat /\ b.at \in Nat /\ a.action \in SuggestedActions
    BY DEF SpacingInv, Remembered, KeyOf, AlertKeys
  <2>2. a.at - b.at >= AlertCooldown[a.action] \/ b.at - a.at >= AlertCooldown[a.action]
    BY DEF SpacingInv, AlertSpacing, SameStore
  <2> QED
    BY <2>1, <2>2, CooldownNat
<1>11. ASSUME NEW a \in alerts PROVE HourOf(a)' = HourOf(a)
  <2>1. \A i \in alerting : SameStore(a, Alert(i)) => ~(Alert(i).at <= a.at)
    <3> SUFFICES ASSUME NEW i \in alerting, SameStore(a, Alert(i)), now <= a.at PROVE FALSE
      BY <1>4
    <3>1. a.at \in Nat /\ a.at <= now
      <4>1. /\ a.at \in Nat /\ a.at <= alerted[a.replica][KeyOf(a)]
            /\ a.replica \in Replicas /\ KeyOf(a) \in AlertKeys
        BY DEF SpacingInv, Remembered
      <4>2. alerted[a.replica][KeyOf(a)] <= now /\ alerted[a.replica][KeyOf(a)] \in Int
        BY <4>1 DEF SpacingInv, MaybeInstants, NoTime
      <4> QED
        BY <1>n, <4>1, <4>2
    <3>2. a.at = now
      BY <1>n, <3>1
    <3>3. a # Alert(i)
      <4>1. KeyOf(a) = KeyFor(i) /\ a.replica = r
        BY <1>1, <1>4, <1>5
      <4>2. a.at <= alerted[r][KeyFor(i)] /\ alerted[r][KeyFor(i)] \in Nat \cup {-1}
        BY <1>3, <4>1 DEF SpacingInv, Remembered, MaybeInstants, NoTime
      <4>3. now - alerted[r][KeyFor(i)] >= AlertCooldown[RuleList[i].action]
        <5>1. KeyFor(i)[2] = RuleList[i].action
          BY DEF KeyFor
        <5>2. alerted[r][KeyFor(i)] # NoTime
          BY <3>1, <4>2 DEF NoTime
        <5> QED
          BY <1>3, <5>1, <5>2 DEF AlertAllowed
      <4> QED
        BY <1>3, <1>n, <3>2, <4>2, <4>3, CooldownNat
    <3>4. Alert(i) \in alerts'
      BY <1>1
    <3> QED
      BY <1>1, <1>4, <1>10, <3>2, <3>3, <3>4
  <2> QED
    BY <1>1, <2>1 DEF HourOf, SameStore
<1>12. ASSUME NEW i \in alerting, NEW a, a = Alert(i)
       PROVE  Cardinality(HourOf(a)') <= CapOf(a)
  <2> DEFINE old == {b \in alerts : SameStore(a, b) /\ b.at > now - Hour}
  <2>1. a \in alerts' /\ a.at = now /\ KeyOf(a) = KeyFor(i) /\ a.replica = r
        /\ a.action = RuleList[i].action
    BY <1>1, <1>4, <1>12
  <2>2. HourOf(a)' \subseteq old \cup {a}
    <3> SUFFICES ASSUME NEW b \in alerts', SameStore(a, b), b.at > now - Hour, b \notin alerts
                 PROVE  b = a
      BY <2>1 DEF HourOf
    <3>1. PICK j \in alerting : b = Alert(j)
      BY <1>1
    <3> QED
      BY <1>4, <1>10, <2>1, <3>1
  <2>3. /\ \A b \in old : b.at \in Pruned(KeyFor(i))
        /\ \A b, c \in old : b # c => b.at # c.at
    <3>1. \A b \in old : b \in alerts /\ b \in alerts' /\ SameStore(a, b) /\ b.at > now - Hour
      BY <1>1
    <3>2. \A b \in old : b.at \in recent[r][KeyFor(i)]
      BY <1>5, <2>1, <3>1 DEF CapInv
    <3>3. \A b, c \in old : SameStore(b, c)
      BY <3>1 DEF SameStore
    <3> QED
      BY <1>10, <3>1, <3>2, <3>3 DEF Pruned
  <2>4. IsFiniteSet(old) /\ Cardinality(old) <= Cardinality(Pruned(KeyFor(i)))
    <3> HIDE DEF old
    <3> QED
      BY <1>3, <1>6, <2>3, InstantsCounted
  <2>5. alerted[r][KeyFor(i)] = NoTime => old = {}
    <3> SUFFICES ASSUME alerted[r][KeyFor(i)] = NoTime, NEW b \in old PROVE FALSE
      OBVIOUS
    <3>1. b \in alerts /\ b.replica = r /\ KeyOf(b) = KeyFor(i)
      BY <1>1, <1>5, <2>1
    <3> QED
      BY <3>1 DEF SpacingInv, Remembered, NoTime
  <2>6. /\ Cardinality(old) \in Nat /\ Cardinality(Pruned(KeyFor(i))) \in Nat
        /\ AlertMaxPerHour[a.action] \in Nat
    BY <1>3, <1>6, <2>1, <2>4, FS_CardinalityType, CapNat
  <2>7. Cardinality(old) + 1 <= CapOf(a)
    <3>1. CASE alerted[r][KeyFor(i)] = NoTime
      <4>1. Cardinality(old) = 0
        BY <2>5, <3>1, FS_EmptySet
      <4> HIDE DEF old
      <4> QED
        BY <2>6, <4>1 DEF CapOf
    <3>2. CASE alerted[r][KeyFor(i)] # NoTime
      <4>1. Cardinality(Pruned(KeyFor(i))) < AlertMaxPerHour[a.action]
        <5>1. KeyFor(i)[2] = RuleList[i].action
          BY DEF KeyFor
        <5> QED
          BY <1>3, <2>1, <3>2, <5>1 DEF AlertAllowed, Pruned
      <4> HIDE DEF old
      <4> QED
        BY <2>4, <2>6, <4>1 DEF CapOf
    <3> QED
      BY <3>1, <3>2
  <2>8. IsFiniteSet(old \cup {a}) /\ Cardinality(old \cup {a}) \in Nat
        /\ Cardinality(old \cup {a}) <= Cardinality(old) + 1
    <3> HIDE DEF old
    <3>1. /\ IsFiniteSet(old \cup {a})
          /\ Cardinality(old \cup {a}) = IF a \in old THEN Cardinality(old) ELSE Cardinality(old) + 1
      BY <2>4, FS_AddElement
    <3> QED
      BY <2>6, <3>1
  <2>9. IsFiniteSet(HourOf(a)') /\ Cardinality(HourOf(a)') <= Cardinality(old \cup {a})
    BY <2>2, <2>8, FS_Subset
  <2>10. Cardinality(HourOf(a)') \in Nat /\ CapOf(a) \in Nat
    BY <2>6, <2>9, FS_CardinalityType DEF CapOf
  <2> HIDE DEF old
  <2> QED
    BY <2>6, <2>7, <2>8, <2>9, <2>10
<1>13. AlertCap'
  <2>1. \A a \in alerts : Cardinality(HourOf(a)) <= CapOf(a)
    BY DEF CapInv, AlertCap, HourOf, CapOf
  <2>2. \A a \in alerts' : Cardinality(HourOf(a)') <= CapOf(a)
    BY <1>1, <1>11, <1>12, <2>1
  <2> QED
    BY <2>2 DEF AlertCap, HourOf, CapOf, SameStore
<1> QED
  BY <1>7, <1>8, <1>9, <1>13 DEF CapInv

\* Every step keeps the caps.
LEMMA CapStep == SpacingInv /\ SpacingInv' /\ CapInv /\ [Next]_aVars => CapInv'
<1> SUFFICES ASSUME SpacingInv, SpacingInv', CapInv, [Next]_aVars PROVE CapInv'
  OBVIOUS
<1>1. ASSUME NEW r \in Replicas, NEW p \in Pods, NEW m, NEW v, NEW t,
             ProcessSignal(r, p, m, v, t)
      PROVE  CapInv'
  BY <1>1, CapSignalStep
<1>2. ASSUME NEW r \in Replicas, Restart(r) PROVE CapInv'
  <2>1. /\ recent' = [recent EXCEPT ![r] = NoneRecent]
        /\ alerts' = {a \in alerts : a.replica # r}
        /\ now' = now
    BY <1>2 DEF Restart
  <2>2. NoneRecent \in [AlertKeys -> SUBSET Nat] /\ \A k \in AlertKeys : IsFiniteSet(NoneRecent[k])
    BY FS_EmptySet DEF NoneRecent
  <2>3. /\ recent' \in [Replicas -> [AlertKeys -> SUBSET Nat]]
        /\ \A q \in Replicas, k \in AlertKeys : IsFiniteSet(recent'[q][k])
    BY <2>1, <2>2 DEF CapInv
  <2>4. \A a \in alerts' : a.at > now' - Hour => a.at \in recent'[a.replica][KeyOf(a)]
    BY <2>1 DEF CapInv, SpacingInv, Remembered
  <2>5. \A a \in alerts' : HourOf(a)' = HourOf(a)
    BY <2>1 DEF HourOf, SameStore
  <2>6. \A a \in alerts' : Cardinality(HourOf(a)') <= CapOf(a)
    BY <2>1, <2>5 DEF CapInv, AlertCap, HourOf, CapOf
  <2>7. AlertCap'
    BY <2>6 DEF AlertCap, HourOf, CapOf, SameStore
  <2> QED
    BY <2>3, <2>4, <2>7 DEF CapInv
<1>3. CASE TimePasses
  <2>1. now' = now + 1 /\ UNCHANGED <<recent, alerts>>
    BY <1>3 DEF TimePasses, Tick
  <2>2. \A a \in alerts : a.at > now' - Hour => a.at > now - Hour
    BY <2>1, AnalyzerAssumption DEF SpacingInv, Remembered
  <2>3. AlertCap'
    BY <2>1 DEF CapInv, AlertCap, SameStore
  <2> QED
    BY <2>1, <2>2, <2>3 DEF CapInv, KeyOf
<1>4. CASE UNCHANGED aVars
  BY <1>4 DEF aVars, CapInv, KeyOf, AlertCap, SameStore
<1> QED
  BY <1>1, <1>2, <1>3, <1>4 DEF Next, IgnoreSignal

\* In every rolling hour one replica suggests an action for a pod name at most as
\* often as the action's cap allows, or once where the cap is zero: a key
\* without an entry is not checked against it.
THEOREM AlertsCapped == Spec => []AlertCap
<1>1. Init => SpacingInv /\ CapInv
  BY SpacingInit, CapInit
<1>2. SpacingInv /\ CapInv /\ [Next]_aVars => SpacingInv' /\ CapInv'
  BY SpacingStep, CapStep
<1>3. CapInv => AlertCap
  BY DEF CapInv
<1> QED
  BY <1>1, <1>2, <1>3, PTL DEF Spec

-----------------------------------------------------------------------------
(* What a window keeps.                                                    *)

Samples == [pod : Pods, v : Int, t : Nat]

\* Eviction from the front stops at the first sample that is not too old; there
\* is one as soon as some sample is not too old.
LEMMA FreshFromFirst ==
    ASSUME NEW q \in Seq(Samples), NEW c \in Int, NEW z \in 1 .. Len(q), q[z].t >= c
    PROVE  /\ FreshFrom(q, c) \in 1 .. Len(q)
           /\ q[FreshFrom(q, c)].t >= c
           /\ \A j \in 1 .. FreshFrom(q, c) - 1 : q[j].t < c
<1> DEFINE T == {i \in 1 .. Len(q) : q[i].t >= c}
<1>1. T \subseteq Nat /\ T # {}
  OBVIOUS
<1>2. PICK x \in T : \A y \in T : x <= y
  <2> HIDE DEF T
  <2> QED
    BY <1>1, LeastNat
<1>3. \A j \in 1 .. x - 1 : q[j].t < c
  <2> SUFFICES ASSUME NEW j \in 1 .. x - 1 PROVE q[j].t < c
    OBVIOUS
  <2>1. j \in 1 .. Len(q) /\ ~(x <= j)
    OBVIOUS
  <2>2. q[j] \in Samples
    BY <2>1, ElementOfSeq
  <2>3. j \notin T
    BY <1>2, <2>1
  <2> QED
    BY <2>1, <2>2, <2>3 DEF Samples
<1>4. \E i \in 1 .. Len(q) : q[i].t >= c /\ \A j \in 1 .. i - 1 : q[j].t < c
  BY <1>2, <1>3
<1> QED
  BY <1>4 DEF FreshFrom

\* Counted from the end, a sample that is not too old stays where it was before
\* the new ones, as far as the capacity reaches; nothing else comes in.
Kept(q, d, s, n, x) ==
    /\ x = [duration |-> d, samples |-> x.samples]
    /\ x.samples \in Seq(Samples)
    /\ Len(x.samples) \in 1 .. Capacity
    /\ x.samples[Len(x.samples)] = s
    /\ \A e \in 0 .. Len(q) - 1 :
          e + n < Capacity /\ q[Len(q) - e].t >= s.t - d =>
              /\ e + n < Len(x.samples)
              /\ x.samples[Len(x.samples) - (e + n)] = q[Len(q) - e]
    /\ \A j \in 1 .. Len(x.samples) :
          x.samples[j] = s \/ \E i \in 1 .. Len(q) : x.samples[j] = q[i]

\* One record does so.
LEMMA RecordOneKeeps ==
    ASSUME NEW q \in Seq(Samples), NEW d \in Nat, NEW s \in Samples, NEW n \in Nat \ {0},
           n = 1, NEW x, x = RecordOne([duration |-> d, samples |-> q], s)
    PROVE  Kept(q, d, s, n, x)
<1> DEFINE all == Append(q, s)
           f == FreshFrom(all, s.t - d)
           cut == SubSeq(all, f, Len(all))
           res == Capped(cut)
           L == Len(q)
<1>0. L \in Nat /\ Capacity \in Nat \ {0} /\ s.t \in Nat
  BY CapacityAssumption DEF Samples
<1>2. /\ all \in Seq(Samples) /\ Len(all) = L + n
      /\ \A i \in 1 .. L + n : all[i] = IF i <= L THEN q[i] ELSE s
  OBVIOUS
<1>x. x = [duration |-> d, samples |-> res]
  BY DEF RecordOne
<1> HIDE DEF all
<1>3. /\ f \in 1 .. L + n
      /\ \A j \in 1 .. f - 1 : all[j].t < s.t - d
  <2>1. s.t - d \in Int /\ L + n \in 1 .. Len(all) /\ all[L + n].t >= s.t - d
    BY <1>0, <1>2
  <2> QED
    BY <1>2, <2>1, FreshFromFirst
<1> HIDE DEF f
<1>4. /\ cut \in Seq(Samples) /\ Len(cut) = L + n - f + 1
      /\ \A i \in 1 .. L + n - f + 1 : cut[i] = all[f + i - 1]
  <2>1. \A i \in f .. L + n : all[i] \in Samples
    BY <1>2, <1>3, ElementOfSeq
  <2> QED
    BY <1>0, <1>2, <1>3, <2>1, SubSeqProperties
<1> HIDE DEF cut, L
<1>a. /\ L \in Nat /\ n \in Nat /\ n >= 1 /\ Capacity \in Nat /\ Capacity >= 1
      /\ f \in Nat /\ 1 <= f /\ f <= L + n /\ Len(cut) = L + n - f + 1 /\ Len(cut) \in Nat
  BY <1>0, <1>3, <1>4
<1>5. PICK g \in f .. L + n :
         /\ res \in Seq(Samples) /\ Len(res) = L + n - g + 1 /\ Len(res) <= Capacity
         /\ \A i \in 1 .. L + n - g + 1 : res[i] = all[g + i - 1]
         /\ g = f \/ Len(res) = Capacity
  <2>1. CASE Len(cut) > Capacity
    <3> DEFINE g == L + n - Capacity + 1
               m == Len(cut) - Capacity + 1
    <3>1. g \in f .. L + n /\ m \in 1 .. Len(cut) /\ Len(cut) - m + 1 = Capacity
          /\ L + n - g + 1 = Capacity /\ f + m - 1 = g
      BY <1>a, <2>1
    <3>2. res = SubSeq(cut, m, Len(cut))
      BY <2>1 DEF Capped
    <3>3. \A i \in m .. Len(cut) : cut[i] \in Samples
      BY <1>4, <3>1, ElementOfSeq
    <3>4. /\ res \in Seq(Samples) /\ Len(res) = Capacity
          /\ \A i \in 1 .. Capacity : res[i] = cut[m + i - 1]
      <4> HIDE DEF m, res
      <4> QED
        BY <1>0, <1>4, <3>1, <3>2, <3>3, SubSeqProperties
    <3>5. \A i \in 1 .. Capacity : cut[m + i - 1] = all[g + i - 1]
      <4> SUFFICES ASSUME NEW i \in 1 .. Capacity PROVE cut[m + i - 1] = all[g + i - 1]
        OBVIOUS
      <4> HIDE DEF m, g
      <4>1. m + i - 1 \in 1 .. L + n - f + 1 /\ f + (m + i - 1) - 1 = g + i - 1
        BY <1>a, <3>1
      <4> QED
        BY <1>4, <4>1
    <3> HIDE DEF m, g, res
    <3>6. \A i \in 1 .. L + n - g + 1 : res[i] = all[g + i - 1]
      BY <3>1, <3>4, <3>5
    <3>7. Len(res) = L + n - g + 1 /\ Len(res) <= Capacity
      BY <1>a, <3>1, <3>4
    <3> QED
      BY <3>1, <3>4, <3>6, <3>7
  <2>2. CASE ~(Len(cut) > Capacity)
    <3>1. res = cut
      BY <2>2 DEF Capped
    <3> HIDE DEF res
    <3>2. f \in f .. L + n /\ Len(res) = L + n - f + 1 /\ Len(res) <= Capacity
      BY <1>a, <2>2, <3>1
    <3> QED
      BY <1>4, <3>1, <3>2
  <2> QED
    BY <2>1, <2>2
<1> HIDE DEF res
<1>6. x.samples = res
  BY <1>x
<1>b. /\ g \in Nat /\ f <= g /\ g <= L + n /\ Len(res) = L + n - g + 1 /\ Len(res) \in Nat
      /\ Len(res) <= Capacity /\ (g = f \/ Len(res) = Capacity)
  BY <1>a, <1>5
<1>7. Len(res) \in 1 .. Capacity /\ res[Len(res)] = s
  <2>1. /\ Len(res) \in 1 .. Capacity /\ Len(res) \in 1 .. L + n - g + 1
        /\ g + Len(res) - 1 = L + n /\ L + n \in 1 .. L + n /\ ~(L + n <= L)
    BY <1>a, <1>b
  <2>2. all[L + n] = s
    BY <1>2, <2>1
  <2> QED
    BY <1>5, <2>1, <2>2
<1>8. ASSUME NEW e \in 0 .. L - 1, e + n < Capacity, q[L - e].t >= s.t - d
      PROVE  e + n < Len(res) /\ res[Len(res) - (e + n)] = q[L - e]
  <2>1. L - e \in 1 .. L + n /\ all[L - e] = q[L - e]
    <3>1. L - e \in 1 .. L + n /\ L - e <= L
      BY <1>a
    <3> QED
      BY <1>2, <3>1
  <2>2. f <= L - e
    <3>1. q[L - e].t \in Nat
      <4>1. L - e \in 1 .. Len(q)
        BY <1>a DEF L
      <4>2. q[L - e] \in Samples
        BY <4>1, ElementOfSeq
      <4> QED
        BY <4>2 DEF Samples
    <3>2. ~(L - e \in 1 .. f - 1)
      BY <1>0, <1>3, <1>8, <2>1, <3>1
    <3> QED
      BY <1>a, <2>1, <3>2
  <2>3. g <= L - e
    BY <1>a, <1>b, <1>8, <2>2
  <2>4. /\ Len(res) - (e + n) \in 1 .. L + n - g + 1
        /\ g + (Len(res) - (e + n)) - 1 = L - e
    BY <1>a, <1>b, <2>3
  <2>5. e + n < Len(res)
    BY <1>a, <1>b, <2>3
  <2> QED
    BY <1>5, <2>1, <2>4, <2>5
<1>9. ASSUME NEW j \in 1 .. Len(res)
      PROVE  res[j] = s \/ \E i \in 1 .. Len(q) : res[j] = q[i]
  <2>1. g + j - 1 \in 1 .. L + n /\ res[j] = all[g + j - 1]
    <3>1. g + j - 1 \in 1 .. L + n /\ j \in 1 .. L + n - g + 1
      BY <1>a, <1>b
    <3> QED
      BY <1>5, <3>1
  <2>2. CASE g + j - 1 <= L
    <3>1. g + j - 1 \in 1 .. Len(q)
      BY <1>a, <2>1, <2>2 DEF L
    <3> QED
      BY <1>2, <2>1, <2>2, <3>1
  <2>3. CASE ~(g + j - 1 <= L)
    BY <1>2, <2>1, <2>3
  <2> QED
    BY <2>2, <2>3
<1> QED
  BY <1>x, <1>5, <1>6, <1>7, <1>8, <1>9 DEF L, Kept

\* A sample that one record more leaves in its place.
LEMMA KeptOnceMore ==
    ASSUME NEW q \in Seq(Samples), NEW d \in Nat, NEW s \in Samples, NEW n \in Nat \ {0},
           NEW x, Kept(q, d, s, n, x)
    PROVE  Kept(q, d, s, n + 1, RecordOne(x, s))
<1> DEFINE xs == x.samples
           y == RecordOne(x, s)
<1>1. /\ xs \in Seq(Samples) /\ x = [duration |-> d, samples |-> xs]
      /\ Len(xs) \in Nat /\ Len(q) \in Nat /\ Capacity \in Nat
  BY CapacityAssumption DEF Kept
<1> HIDE DEF xs
<1>2. Kept(xs, d, s, 1, y)
  <2>1. 1 \in Nat \ {0} /\ y = RecordOne([duration |-> d, samples |-> xs], s)
    BY <1>1
  <2> HIDE DEF y
  <2> QED
    BY <1>1, <2>1, RecordOneKeeps
<1>3. /\ \A e \in 0 .. Len(q) - 1 :
            e + n < Capacity /\ q[Len(q) - e].t >= s.t - d =>
               e + n < Len(xs) /\ xs[Len(xs) - (e + n)] = q[Len(q) - e]
      /\ \A j \in 1 .. Len(xs) : xs[j] = s \/ \E i \in 1 .. Len(q) : xs[j] = q[i]
  BY DEF Kept, xs
<1> HIDE DEF y
<1>4. ASSUME NEW e \in 0 .. Len(q) - 1, e + (n + 1) < Capacity, q[Len(q) - e].t >= s.t - d
      PROVE  /\ e + (n + 1) < Len(y.samples)
             /\ y.samples[Len(y.samples) - (e + (n + 1))] = q[Len(q) - e]
  <2>1. /\ e + n < Capacity /\ e + n \in Nat /\ (e + n) + 1 = e + (n + 1)
        /\ (e + n) + 1 < Capacity
    BY <1>1, <1>4
  <2>2. e + n < Len(xs) /\ xs[Len(xs) - (e + n)] = q[Len(q) - e]
    BY <1>3, <1>4, <2>1
  <2>3. e + n \in 0 .. Len(xs) - 1
    BY <1>1, <2>1, <2>2
  <2>4. /\ (e + n) + 1 < Len(y.samples)
        /\ y.samples[Len(y.samples) - ((e + n) + 1)] = xs[Len(xs) - (e + n)]
    BY <1>2, <1>4, <2>1, <2>2, <2>3 DEF Kept
  <2> QED
    BY <2>1, <2>2, <2>4
<1>5. ASSUME NEW j \in 1 .. Len(y.samples)
      PROVE  y.samples[j] = s \/ \E i \in 1 .. Len(q) : y.samples[j] = q[i]
  BY <1>2, <1>3 DEF Kept
<1>6. /\ y = [duration |-> d, samples |-> y.samples] /\ y.samples \in Seq(Samples)
      /\ Len(y.samples) \in 1 .. Capacity /\ y.samples[Len(y.samples)] = s
  BY <1>2 DEF Kept
<1>7. Kept(q, d, s, n + 1, y)
  BY <1>4, <1>5, <1>6 DEF Kept
<1> QED
  BY <1>7 DEF y

ActualWindows == [duration : Nat, samples : Seq(Samples)]

\* The windows after 0, 1, ..., n records of s.
Records(w, s, n) ==
    CHOOSE f : f = [i \in 0 .. n |-> IF i = 0 THEN w ELSE RecordOne(f[i - 1], s)]

\* They exist.
LEMMA RecordsAre ==
    ASSUME NEW w \in ActualWindows, NEW s \in Samples, NEW n \in Nat
    PROVE  /\ Records(w, s, n)[0] = w
           /\ \A i \in 1 .. n : Records(w, s, n)[i] = RecordOne(Records(w, s, n)[i - 1], s)
<1> DEFINE step == [j \in Nat |-> [v \in ActualWindows |-> RecordOne(v, s)]]
<1>1. \A v \in ActualWindows : RecordOne(v, s) \in ActualWindows
  <2> SUFFICES ASSUME NEW v \in ActualWindows PROVE RecordOne(v, s) \in ActualWindows
    OBVIOUS
  <2> DEFINE x == RecordOne(v, s)
  <2>1. /\ v.duration \in Nat /\ v.samples \in Seq(Samples)
        /\ v = [duration |-> v.duration, samples |-> v.samples]
    BY DEF ActualWindows
  <2>2. /\ 1 \in Nat \ {0}
        /\ x = RecordOne([duration |-> v.duration, samples |-> v.samples], s)
    BY <2>1
  <2> HIDE DEF x
  <2>4. Kept(v.samples, v.duration, s, 1, x)
    BY <2>1, <2>2, RecordOneKeeps
  <2>3. x \in ActualWindows
    BY <2>1, <2>4 DEF Kept, ActualWindows
  <2> QED
    BY <2>3 DEF x
<1>2. step \in [Nat -> [ActualWindows -> ActualWindows]]
  BY <1>1
<1>3. \A d \in Nat, v \in ActualWindows : step[d][v] = RecordOne(v, s)
  OBVIOUS
<1> HIDE DEF step
<1>4. PICK g : Steps(g, 0, n, ActualWindows, w, step)
  <2>1. 0 \in Nat /\ 0 <= n
    OBVIOUS
  <2> QED
    BY <1>2, <2>1, RecursionExists
<1>5. g = [i \in 0 .. n |-> IF i = 0 THEN w ELSE RecordOne(g[i - 1], s)]
  <2>1. \A i \in 0 .. n : i # 0 => i \in Nat /\ i - 1 \in 0 .. n
    OBVIOUS
  <2>2. \A i \in 0 .. n : g[i] \in ActualWindows
    BY <1>4 DEF Steps
  <2>3. \A i \in 0 .. n : i # 0 => g[i] = RecordOne(g[i - 1], s)
    BY <1>3, <1>4, <2>1, <2>2 DEF Steps
  <2> QED
    BY <1>4, <2>3 DEF Steps
<1> DEFINE f == Records(w, s, n)
<1>6. f = [i \in 0 .. n |-> IF i = 0 THEN w ELSE RecordOne(f[i - 1], s)]
  BY <1>5 DEF Records
<1> HIDE DEF f
<1>7. 0 \in 0 .. n /\ \A i \in 1 .. n : i # 0 /\ i \in 0 .. n
  OBVIOUS
<1>8. f[0] = w /\ \A i \in 1 .. n : f[i] = RecordOne(f[i - 1], s)
  BY <1>6, <1>7
<1> QED
  BY <1>8 DEF f

\* The records of one signal, by induction on their number.
LEMMA RecordKeeps ==
    ASSUME NEW q \in Seq(Samples), NEW d \in Nat, NEW s \in Samples, NEW n \in Nat \ {0},
           NEW x, x = WindowRecord([duration |-> d, samples |-> q], s, n)
    PROVE  Kept(q, d, s, n, x)
<1> DEFINE w == [duration |-> d, samples |-> q]
           f == Records(w, s, n)
           T == {i \in 1 .. n : ~Kept(q, d, s, i, f[i])}
<1>1. x = f[n]
  BY DEF WindowRecord, Records
<1>2. f[0] = w /\ \A i \in 1 .. n : f[i] = RecordOne(f[i - 1], s)
  <2>1. w \in ActualWindows
    BY DEF ActualWindows
  <2> HIDE DEF w
  <2> QED
    BY <2>1, RecordsAre
<1> HIDE DEF f
<1>3. T = {}
  <2> SUFFICES ASSUME T # {} PROVE FALSE
    OBVIOUS
  <2>1. PICK i \in T : \A y \in T : i <= y
    <3>1. T \subseteq Nat
      OBVIOUS
    <3> HIDE DEF T
    <3> QED
      BY <3>1, LeastNat
  <2>2. CASE i = 1
    <3>1. f[1] = RecordOne(w, s) /\ i \in 1 .. n /\ 1 \in Nat \ {0}
      BY <1>2, <2>1, <2>2
    <3>2. Kept(q, d, s, 1, f[1])
      BY <3>1, RecordOneKeeps
    <3> QED
      BY <2>1, <2>2, <3>2
  <2>3. CASE i # 1
    <3>1. /\ i - 1 \in Nat \ {0} /\ i - 1 \in 1 .. n /\ ~(i <= i - 1) /\ i \in 1 .. n
          /\ (i - 1) + 1 = i
      BY <2>3
    <3>2. Kept(q, d, s, i - 1, f[i - 1])
      BY <2>1, <3>1
    <3>3. Kept(q, d, s, (i - 1) + 1, RecordOne(f[i - 1], s))
      BY <3>1, <3>2, KeptOnceMore
    <3>4. Kept(q, d, s, i, f[i])
      BY <1>2, <3>1, <3>3
    <3> QED
      BY <2>1, <3>4
  <2> QED
    BY <2>2, <2>3
<1>4. n \in 1 .. n
  OBVIOUS
<1> QED
  BY <1>1, <1>3, <1>4

-----------------------------------------------------------------------------
(* The sum of a window.                                                    *)

\* g holds the sums of the first 0, 1, ..., n values of q.
IsSumTo(q, n, g) ==
    g \in [0 .. n -> Int] /\ g[0] = 0 /\ \A i \in 1 .. n : g[i] = g[i - 1] + q[i].v

\* The sums exist, by induction on their number.
LEMMA SumsExist ==
    ASSUME NEW q \in Seq(Samples)
    PROVE  \E g : IsSumTo(q, Len(q), g)
<1> DEFINE T == {n \in 0 .. Len(q) : ~ \E g : IsSumTo(q, n, g)}
<1>1. SUFFICES ASSUME T # {} PROVE FALSE
  <2>1. Len(q) \in 0 .. Len(q)
    OBVIOUS
  <2> QED
    BY <2>1
<1>2. PICK n \in T : \A y \in T : n <= y
  <2>1. T \subseteq Nat
    OBVIOUS
  <2> HIDE DEF T
  <2> QED
    BY <1>1, <2>1, LeastNat
<1>3. CASE n = 0
  <2>1. IsSumTo(q, 0, [i \in 0 .. 0 |-> 0])
    BY DEF IsSumTo
  <2> QED
    BY <1>3, <2>1
<1>4. CASE n # 0
  <2>1. n - 1 \in 0 .. Len(q) /\ n \in 1 .. Len(q) /\ ~(n <= n - 1)
    BY <1>4
  <2>2. PICK g : IsSumTo(q, n - 1, g)
    BY <1>2, <2>1
  <2> DEFINE h == [i \in 0 .. n |-> IF i = n THEN g[n - 1] + q[n].v ELSE g[i]]
  <2>3. q[n] \in Samples
    BY <2>1, ElementOfSeq
  <2>4. /\ g[n - 1] \in Int /\ q[n].v \in Int
        /\ \A i \in 0 .. n : i # n => g[i] \in Int
    <3>1. g \in [0 .. n - 1 -> Int]
      BY <2>2 DEF IsSumTo
    <3>2. q[n].v \in Int
      BY <2>3 DEF Samples
    <3>3. n - 1 \in 0 .. n - 1 /\ \A i \in 0 .. n : i # n => i \in 0 .. n - 1
      BY <2>1
    <3> HIDE DEF T
    <3> QED
      BY <3>1, <3>2, <3>3
  <2>5. h \in [0 .. n -> Int] /\ h[0] = 0
    BY <2>1, <2>2, <2>4 DEF IsSumTo
  <2>6. ASSUME NEW i \in 1 .. n PROVE h[i] = h[i - 1] + q[i].v
    <3>1. CASE i = n
      BY <2>1, <3>1
    <3>2. CASE i # n
      <4>1. i \in 1 .. n - 1 /\ i - 1 \in 0 .. n /\ i - 1 # n
        BY <2>1, <3>2
      <4> QED
        BY <2>2, <3>2, <4>1 DEF IsSumTo
    <3> QED
      BY <3>1, <3>2
  <2>7. IsSumTo(q, n, h)
    <3> HIDE DEF h
    <3> QED
      BY <2>5, <2>6 DEF IsSumTo
  <2> QED
    BY <2>7
<1> QED
  BY <1>3, <1>4

\* What Sum() computes.
Sums(q) ==
    CHOOSE f : f = [i \in 0 .. Len(q) |-> IF i = 0 THEN 0 ELSE f[i - 1] + q[i].v]

LEMMA SumsAre ==
    ASSUME NEW q \in Seq(Samples)
    PROVE  IsSumTo(q, Len(q), Sums(q))
<1>1. PICK g : IsSumTo(q, Len(q), g)
  BY SumsExist
<1>2. g = [i \in 0 .. Len(q) |-> IF i = 0 THEN 0 ELSE g[i - 1] + q[i].v]
  <2>1. \A i \in 0 .. Len(q) : i # 0 => i \in 1 .. Len(q)
    OBVIOUS
  <2> QED
    BY <1>1, <2>1 DEF IsSumTo
<1> DEFINE f == Sums(q)
<1>3. f = [i \in 0 .. Len(q) |-> IF i = 0 THEN 0 ELSE f[i - 1] + q[i].v]
  BY <1>2 DEF Sums
<1> HIDE DEF f
<1>4. /\ f[0] = 0
      /\ \A i \in 1 .. Len(q) : f[i] = f[i - 1] + q[i].v
      /\ DOMAIN f = 0 .. Len(q)
  <2>1. 0 \in 0 .. Len(q) /\ \A i \in 1 .. Len(q) : i # 0 /\ i \in 0 .. Len(q)
    OBVIOUS
  <2> QED
    BY <1>3, <2>1
<1> DEFINE T == {n \in 0 .. Len(q) : f[n] # g[n]}
<1>5. T = {}
  <2> SUFFICES ASSUME T # {} PROVE FALSE
    OBVIOUS
  <2>1. PICK n \in T : \A y \in T : n <= y
    <3>1. T \subseteq Nat
      OBVIOUS
    <3> HIDE DEF T
    <3> QED
      BY <3>1, LeastNat
  <2>2. n # 0
    BY <1>1, <1>4 DEF IsSumTo
  <2>3. n \in 1 .. Len(q) /\ n - 1 \in 0 .. Len(q) /\ ~(n <= n - 1)
    BY <2>2
  <2>4. f[n - 1] = g[n - 1]
    BY <2>1, <2>3
  <2> QED
    BY <1>1, <1>4, <2>3, <2>4 DEF IsSumTo
<1>6. \A i \in 0 .. Len(q) : f[i] \in Int
  BY <1>1, <1>5 DEF IsSumTo
<1>7. f \in [0 .. Len(q) -> Int]
  BY <1>3, <1>6
<1> QED
  BY <1>4, <1>7 DEF f, IsSumTo

\* Values that are all at most c add up to at most c for each of them.
LEMMA SumBound ==
    ASSUME NEW q \in Seq(Samples), NEW c \in Int, NEW d,
           \A i \in 1 .. Len(q) : q[i].v <= c
    PROVE  WindowSum([duration |-> d, samples |-> q]) <= c * Len(q)
<1> DEFINE f == Sums(q)
<1>1. WindowSum([duration |-> d, samples |-> q]) = f[Len(q)]
  BY DEF WindowSum, Sums
<1>2. IsSumTo(q, Len(q), f)
  BY SumsAre
<1> HIDE DEF f
<1> DEFINE T == {n \in 0 .. Len(q) : ~(f[n] <= c * n)}
<1>3. T = {}
  <2> SUFFICES ASSUME T # {} PROVE FALSE
    OBVIOUS
  <2>1. PICK n \in T : \A y \in T : n <= y
    <3>1. T \subseteq Nat
      OBVIOUS
    <3> HIDE DEF T
    <3> QED
      BY <3>1, LeastNat
  <2>2. n # 0
    BY <1>2 DEF IsSumTo
  <2>3. n \in 1 .. Len(q) /\ n - 1 \in 0 .. Len(q) /\ ~(n <= n - 1)
    BY <2>2
  <2>4. f[n - 1] <= c * (n - 1)
    BY <2>1, <2>3
  <2>5. f[n] = f[n - 1] + q[n].v /\ f[n - 1] \in Int /\ f[n] \in Int
    BY <1>2, <2>3 DEF IsSumTo
  <2>6. q[n] \in Samples /\ q[n].v <= c
    BY <2>3, ElementOfSeq
  <2>7. q[n].v \in Int
    BY <2>6 DEF Samples
  <2>8. c * n = c * (n - 1) + c
    BY <2>3
  <2>9. c * (n - 1) \in Int
    BY <2>3
  <2>10. f[n] <= c * n
    BY <2>4, <2>5, <2>6, <2>7, <2>8, <2>9
  <2> QED
    BY <2>1, <2>10
<1>4. Len(q) \in 0 .. Len(q)
  OBVIOUS
<1> QED
  BY <1>1, <1>3, <1>4

\* ... and if they are all at least c, to at least that.
LEMMA SumFloor ==
    ASSUME NEW q \in Seq(Samples), NEW c \in Int, NEW d,
           \A i \in 1 .. Len(q) : q[i].v >= c
    PROVE  WindowSum([duration |-> d, samples |-> q]) >= c * Len(q)
<1> DEFINE f == Sums(q)
<1>1. WindowSum([duration |-> d, samples |-> q]) = f[Len(q)]
  BY DEF WindowSum, Sums
<1>2. IsSumTo(q, Len(q), f)
  BY SumsAre
<1> HIDE DEF f
<1> DEFINE T == {n \in 0 .. Len(q) : ~(f[n] >= c * n)}
<1>3. T = {}
  <2> SUFFICES ASSUME T # {} PROVE FALSE
    OBVIOUS
  <2>1. PICK n \in T : \A y \in T : n <= y
    <3>1. T \subseteq Nat
      OBVIOUS
    <3> HIDE DEF T
    <3> QED
      BY <3>1, LeastNat
  <2>2. n # 0
    BY <1>2 DEF IsSumTo
  <2>3. n \in 1 .. Len(q) /\ n - 1 \in 0 .. Len(q) /\ ~(n <= n - 1)
    BY <2>2
  <2>4. f[n - 1] >= c * (n - 1)
    BY <2>1, <2>3
  <2>5. f[n] = f[n - 1] + q[n].v /\ f[n - 1] \in Int /\ f[n] \in Int
    BY <1>2, <2>3 DEF IsSumTo
  <2>6. q[n] \in Samples /\ q[n].v >= c
    BY <2>3, ElementOfSeq
  <2>7. q[n].v \in Int
    BY <2>6 DEF Samples
  <2>8. c * n = c * (n - 1) + c
    BY <2>3
  <2>9. c * (n - 1) \in Int
    BY <2>3
  <2>10. f[n] >= c * n
    BY <2>4, <2>5, <2>6, <2>7, <2>8, <2>9
  <2> QED
    BY <2>1, <2>10
<1>4. Len(q) \in 0 .. Len(q)
  OBVIOUS
<1> QED
  BY <1>1, <1>3, <1>4

-----------------------------------------------------------------------------
(* Windows and the signals behind them.                                    *)

Windows == [duration : Nat, samples : Seq(Samples)] \cup {NoWindow}
Receipts == [metric : Metrics, sample : Samples]

\* Records made after the signal i for window k: how far its last copy is from
\* the end of the window.
After(r, k, i) == {j \in Handled(r, k) : j > i}
Behind(r, k, i) == Cardinality(After(r, k, i)) * Cardinality(Recording(k[2]))

\* Signal i is not too old for the window of k, given all that were handled.
StillFresh(r, k, i) ==
    \A j \in Handled(r, k) :
        received[r][i].sample.t >= received[r][j].sample.t - windows[r][k].duration

\* A fresh signal is found at its place from the end, and the window holds
\* nothing but signals of its own name and metric.
WindowOK(r, k) ==
    /\ Len(windows[r][k].samples) <= Capacity
    /\ Recording(k[2]) = {} => windows[r][k] = NoWindow
    /\ windows[r][k] = NoWindow => Recording(k[2]) = {} \/ Handled(r, k) = {}
    /\ windows[r][k] # NoWindow => Len(windows[r][k].samples) # 0
    /\ windows[r][k] # NoWindow =>
          \A i \in Handled(r, k) :
              StillFresh(r, k, i) /\ Behind(r, k, i) < Capacity =>
                  /\ Behind(r, k, i) < Len(windows[r][k].samples)
                  /\ windows[r][k].samples[Len(windows[r][k].samples) - Behind(r, k, i)]
                         = received[r][i].sample
    /\ \A j \in 1 .. Len(windows[r][k].samples) :
          \E i \in Handled(r, k) : windows[r][k].samples[j] = received[r][i].sample

WindowInv ==
    /\ now \in Nat
    /\ windows \in [Replicas -> [WindowKeys -> Windows]]
    /\ received \in [Replicas -> Seq(Receipts)]
    /\ \A r \in Replicas : \A i \in 1 .. Len(received[r]) : received[r][i].sample.t <= now
    /\ \A r \in Replicas, k \in WindowKeys : WindowOK(r, k)

\* Rules are finitely many.
LEMMA RecordingFinite ==
    ASSUME NEW m
    PROVE  /\ Recording(m) \subseteq Nat /\ IsFiniteSet(Recording(m))
           /\ Cardinality(Recording(m)) \in Nat
           /\ Recording(m) # {} => Cardinality(Recording(m)) # 0
<1>1. Recording(m) \subseteq RuleIndices
  BY DEF Recording, Matching
<1> QED
  BY <1>1, AnalyzerAssumption, FS_Subset, FS_CardinalityType, FS_EmptySet

\* A new window has the duration of the first rule that records the metric.
LEMMA FirstDuration ==
    ASSUME NEW m, Recording(m) # {}
    PROVE  RuleList[Min(Recording(m))].window \in Nat
<1>1. \E x \in Recording(m) : \A y \in Recording(m) : x <= y
  BY RecordingFinite, LeastNat
<1>2. Min(Recording(m)) \in Recording(m)
  BY <1>1 DEF Min
<1> QED
  BY <1>2, AnalyzerAssumption DEF Recording, Matching

\* Signals handled are finitely many.
LEMMA AfterFinite ==
    ASSUME WindowInv, NEW r \in Replicas, NEW k, NEW i
    PROVE  /\ Handled(r, k) \subseteq 1 .. Len(received[r])
           /\ IsFiniteSet(After(r, k, i)) /\ Cardinality(After(r, k, i)) \in Nat
<1>1. received[r] \in Seq(Receipts)
  BY DEF WindowInv
<1>2. DOMAIN received[r] = 1 .. Len(received[r]) /\ Len(received[r]) \in Nat
  BY <1>1
<1>3. Handled(r, k) \subseteq 1 .. Len(received[r]) /\ After(r, k, i) \subseteq 1 .. Len(received[r])
  BY <1>2 DEF Handled, After
<1>4. IsFiniteSet(1 .. Len(received[r]))
  <2>1. 1 \in Int /\ Len(received[r]) \in Int
    BY <1>2
  <2> QED
    BY <2>1, FS_Interval
<1> QED
  BY <1>3, <1>4, FS_Subset, FS_CardinalityType

\* What is known of a receipt.
LEMMA ReceiptTyped ==
    ASSUME WindowInv, NEW r \in Replicas, NEW i \in 1 .. Len(received[r])
    PROVE  /\ received[r][i] \in Receipts /\ received[r][i].sample \in Samples
           /\ received[r][i].sample.t \in Nat
<1>1. received[r] \in Seq(Receipts)
  BY DEF WindowInv
<1>2. received[r][i] \in Receipts
  BY <1>1, ElementOfSeq
<1>3. received[r][i].sample \in Samples
  BY <1>2 DEF Receipts
<1> QED
  BY <1>2, <1>3 DEF Samples

\* Nothing was handled, and there are no windows.
LEMMA EmptyWindowOK ==
    ASSUME NEW r, NEW k, windows[r][k] = NoWindow, received[r] = <<>>
    PROVE  WindowOK(r, k)
<1>1. Handled(r, k) = {}
  BY DEF Handled
<1>2. Len(windows[r][k].samples) = 0
  BY DEF NoWindow
<1> QED
  BY <1>1, <1>2, CapacityAssumption DEF WindowOK

LEMMA WindowInit == Init => WindowInv
<1> SUFFICES ASSUME Init PROVE WindowInv
  OBVIOUS
<1>1. \A r \in Replicas, k \in WindowKeys : windows[r][k] = NoWindow
  BY DEF Init, NoWindows
<1>2. \A r \in Replicas : received[r] = <<>>
  BY DEF Init
<1>3. windows \in [Replicas -> [WindowKeys -> Windows]]
  BY DEF Init, NoWindows, Windows
<1>4. received \in [Replicas -> Seq(Receipts)]
  BY DEF Init
<1>5. \A r \in Replicas, k \in WindowKeys : WindowOK(r, k)
  BY <1>1, <1>2, EmptyWindowOK
<1>6. \A r \in Replicas : \A i \in 1 .. Len(received[r]) : received[r][i].sample.t <= now
  BY <1>2
<1> QED
  BY <1>3, <1>4, <1>5, <1>6 DEF WindowInv, Init, ClockInit

\* A signal leaves the windows of other keys and replicas alone, and adds no
\* receipt to them.
LEMMA OtherWindow ==
    ASSUME WindowInv, NEW r \in Replicas, NEW p \in Pods, NEW m \in Metrics, NEW s \in Samples,
           s.pod = p,
           received' = [received EXCEPT ![r] = Append(received[r], [metric |-> m, sample |-> s])],
           NEW q \in Replicas, NEW k \in WindowKeys, ~(q = r /\ k = <<NameOf[p], m>>),
           windows'[q][k] = windows[q][k]
    PROVE  WindowOK(q, k)'
<1>1. received[r] \in Seq(Receipts) /\ received[q] \in Seq(Receipts)
  BY DEF WindowInv
<1>4. WindowOK(q, k) /\ windows'[q][k] = windows[q][k]
  BY DEF WindowInv
<1>5. ASSUME WindowOK(q, k), windows'[q][k] = windows[q][k], Handled(q, k)' = Handled(q, k),
             \A i \in Handled(q, k) : received'[q][i] = received[q][i]
      PROVE  WindowOK(q, k)'
  <2>1. \A i \in Handled(q, k) : Behind(q, k, i)' = Behind(q, k, i)
    BY <1>5 DEF Behind, After
  <2>2. \A i \in Handled(q, k) : StillFresh(q, k, i)' <=> StillFresh(q, k, i)
    BY <1>5 DEF StillFresh
  <2>3. windows'[q][k] # NoWindow =>
          \A i \in Handled(q, k)' :
              StillFresh(q, k, i)' /\ Behind(q, k, i)' < Capacity =>
                  /\ Behind(q, k, i)' < Len(windows'[q][k].samples)
                  /\ windows'[q][k].samples[Len(windows'[q][k].samples) - Behind(q, k, i)']
                         = received'[q][i].sample
    <3> SUFFICES ASSUME windows'[q][k] # NoWindow, NEW i \in Handled(q, k)',
                        StillFresh(q, k, i)', Behind(q, k, i)' < Capacity
                 PROVE  /\ Behind(q, k, i)' < Len(windows'[q][k].samples)
                        /\ windows'[q][k].samples[Len(windows'[q][k].samples) - Behind(q, k, i)']
                               = received'[q][i].sample
      OBVIOUS
    <3>1. i \in Handled(q, k) /\ StillFresh(q, k, i) /\ Behind(q, k, i) < Capacity
      BY <1>5, <2>1, <2>2
    <3>2. windows[q][k] # NoWindow
      BY <1>5
    <3>3. /\ Behind(q, k, i) < Len(windows[q][k].samples)
          /\ windows[q][k].samples[Len(windows[q][k].samples) - Behind(q, k, i)]
                 = received[q][i].sample
      BY <1>5, <3>1, <3>2 DEF WindowOK
    <3> QED
      BY <1>5, <2>1, <3>1, <3>3
  <2>4. \A j \in 1 .. Len(windows'[q][k].samples) :
           \E i \in Handled(q, k)' : windows'[q][k].samples[j] = received'[q][i].sample
    <3> SUFFICES ASSUME NEW j \in 1 .. Len(windows'[q][k].samples)
                 PROVE  \E i \in Handled(q, k)' : windows'[q][k].samples[j] = received'[q][i].sample
      OBVIOUS
    <3>1. j \in 1 .. Len(windows[q][k].samples)
      BY <1>5
    <3>2. PICK i \in Handled(q, k) : windows[q][k].samples[j] = received[q][i].sample
      BY <1>5, <3>1 DEF WindowOK
    <3> QED
      BY <1>5, <3>2
  <2>5. /\ Len(windows'[q][k].samples) <= Capacity
        /\ Recording(k[2]) = {} => windows'[q][k] = NoWindow
        /\ windows'[q][k] = NoWindow => Recording(k[2]) = {} \/ Handled(q, k)' = {}
        /\ windows'[q][k] # NoWindow => Len(windows'[q][k].samples) # 0
    BY <1>5 DEF WindowOK
  <2> QED
    BY <2>3, <2>4, <2>5 DEF WindowOK
<1>2. CASE q # r
  <2>1. received'[q] = received[q]
    BY <1>2 DEF WindowInv
  <2>2. Handled(q, k)' = Handled(q, k)
    BY <2>1 DEF Handled
  <2> QED
    BY <1>4, <1>5, <2>1, <2>2
<1>3. CASE q = r /\ k # <<NameOf[p], m>>
  <2> DEFINE N == Len(received[r])
             rec == [metric |-> m, sample |-> s]
  <2>1. /\ received'[r] = Append(received[r], rec)
        /\ rec \in Receipts /\ rec.metric = m /\ rec.sample = s
    BY DEF WindowInv, Receipts
  <2> HIDE DEF rec
  <2>2. /\ N \in Nat /\ Len(received'[r]) = N + 1
        /\ DOMAIN received[r] = 1 .. N /\ DOMAIN received'[r] = 1 .. N + 1
        /\ received'[r][N + 1] = rec
        /\ \A i \in 1 .. N : received'[r][i] = received[r][i]
    BY <1>1, <2>1
  <2>3. k[1] # NameOf[p] \/ k[2] # m
    BY <1>3 DEF WindowKeys
  <2>4. Handled(r, k)' = Handled(r, k)
    <3>1. 1 .. N + 1 = (1 .. N) \cup {N + 1}
      BY <2>2
    <3> HIDE DEF N
    <3> QED
      BY <2>1, <2>2, <2>3, <3>1 DEF Handled
  <2>5. \A i \in Handled(r, k) : received'[r][i] = received[r][i]
    BY <2>2 DEF Handled
  <2> QED
    BY <1>3, <1>4, <1>5, <2>4, <2>5
<1> QED
  BY <1>2, <1>3

\* The window of the signal itself.
LEMMA OwnWindow ==
    ASSUME WindowInv, NEW r \in Replicas, NEW p \in Pods, NEW m \in Metrics, NEW s \in Samples,
           s.pod = p, NEW k \in WindowKeys, k = <<NameOf[p], m>>,
           received' = [received EXCEPT ![r] = Append(received[r], [metric |-> m, sample |-> s])],
           NEW x, x = WindowAfter(r, k, s), windows'[r][k] = x
    PROVE  x \in Windows /\ WindowOK(r, k)'
<1> DEFINE N == Len(received[r])
           rec == [metric |-> m, sample |-> s]
           w == windows[r][k]
           c == Cardinality(Recording(m))
<1>k. k[1] = NameOf[p] /\ k[2] = m
  OBVIOUS
<1>1. received[r] \in Seq(Receipts) /\ w \in Windows
  BY DEF WindowInv
<1>2. /\ received'[r] = Append(received[r], rec)
      /\ rec \in Receipts /\ rec.metric = m /\ rec.sample = s
  BY DEF WindowInv, Receipts
<1> HIDE DEF rec
<1>3. /\ N \in Nat /\ Len(received'[r]) = N + 1
      /\ DOMAIN received[r] = 1 .. N /\ DOMAIN received'[r] = 1 .. N + 1
      /\ received'[r][N + 1] = rec
      /\ \A i \in 1 .. N : received'[r][i] = received[r][i]
  BY <1>1, <1>2
<1>4. WindowOK(r, k)
  BY DEF WindowInv
<1>5. CASE Recording(m) = {}
  <2>1. x = w /\ w = NoWindow
    BY <1>k, <1>4, <1>5 DEF WindowAfter, WindowOK
  <2>2. Len(x.samples) = 0
    BY <2>1 DEF NoWindow
  <2>3. windows'[r][k] = NoWindow /\ Recording(k[2]) = {}
    BY <1>k, <1>5, <2>1
  <2>4. x \in Windows
    BY <2>1 DEF Windows
  <2>5. Len(windows'[r][k].samples) = 0
    BY <2>3 DEF NoWindow
  <2>6. Len(windows'[r][k].samples) <= Capacity /\ 1 .. Len(windows'[r][k].samples) = {}
    BY <2>5, CapacityAssumption
  <2> QED
    BY <2>3, <2>4, <2>6 DEF WindowOK
<1>6. CASE Recording(m) # {}
  <2>0. c \in Nat \ {0}
    BY <1>6, RecordingFinite
  <2>1. PICK q \in Seq(Samples), d \in Nat :
           /\ x = WindowRecord([duration |-> d, samples |-> q], s, c)
           /\ w # NoWindow => w.duration = d /\ w.samples = q
           /\ w = NoWindow => q = <<>>
    <3>1. CASE w = NoWindow
      <4>1. x = WindowRecord([duration |-> RuleList[Min(Recording(m))].window, samples |-> <<>>], s, c)
        BY <1>k, <1>6, <3>1 DEF WindowAfter, NewWindow
      <4>2. RuleList[Min(Recording(m))].window \in Nat /\ <<>> \in Seq(Samples)
        BY <1>6, FirstDuration
      <4> HIDE DEF w, c
      <4> QED
        BY <3>1, <4>1, <4>2
    <3>2. CASE w # NoWindow
      <4>1. x = WindowRecord(w, s, c)
        BY <1>k, <1>6, <3>2 DEF WindowAfter
      <4>2. /\ w = [duration |-> w.duration, samples |-> w.samples]
            /\ w.duration \in Nat /\ w.samples \in Seq(Samples)
        BY <1>1, <3>2 DEF Windows
      <4> HIDE DEF w
      <4> QED
        BY <3>2, <4>1, <4>2
    <3> QED
      BY <3>1, <3>2
  <2>2. Kept(q, d, s, c, x)
    <3> HIDE DEF c
    <3> QED
      BY <2>0, <2>1, RecordKeeps
  <2>3. x.duration = d /\ x # NoWindow /\ x \in Windows
    <3>1. x.duration = d
      BY <2>2 DEF Kept
    <3>2. x # NoWindow
      BY <3>1 DEF NoWindow, BadWindow
    <3>3. x \in [duration : Nat, samples : Seq(Samples)]
      BY <2>2 DEF Kept
    <3> QED
      BY <3>1, <3>2, <3>3 DEF Windows
  <2>4. Handled(r, k)' = Handled(r, k) \cup {N + 1} /\ Handled(r, k) \subseteq 1 .. N
    <3>1. 1 .. N + 1 = (1 .. N) \cup {N + 1}
      BY <1>3
    <3>2. NameOf[received'[r][N + 1].sample.pod] = k[1] /\ received'[r][N + 1].metric = k[2]
      BY <1>k, <1>2, <1>3
    <3> HIDE DEF N
    <3> QED
      BY <1>3, <3>1, <3>2 DEF Handled
  <2>5. Len(windows'[r][k].samples) <= Capacity /\ Len(windows'[r][k].samples) # 0
    BY <2>2, CapacityAssumption DEF Kept
  <2>6. ASSUME NEW j \in 1 .. Len(x.samples)
        PROVE  \E i \in Handled(r, k)' : x.samples[j] = received'[r][i].sample
    <3>1. CASE x.samples[j] = s
      BY <1>2, <1>3, <2>4, <3>1
    <3>2. ASSUME NEW i \in 1 .. Len(q), x.samples[j] = q[i]
          PROVE  \E h \in Handled(r, k)' : x.samples[j] = received'[r][h].sample
      <4>1. w # NoWindow /\ w.samples = q
        BY <2>1
      <4>2. PICK h \in Handled(r, k) : q[i] = received[r][h].sample
        BY <1>4, <4>1 DEF WindowOK
      <4> QED
        BY <1>3, <2>4, <3>2, <4>2
    <3> QED
      BY <2>2, <3>1, <3>2 DEF Kept
  <2>7. ASSUME NEW i \in Handled(r, k)', StillFresh(r, k, i)', Behind(r, k, i)' < Capacity
        PROVE  /\ Behind(r, k, i)' < Len(x.samples)
               /\ x.samples[Len(x.samples) - Behind(r, k, i)'] = received'[r][i].sample
    <3>1. CASE i = N + 1
      <4>1. After(r, k, i)' = {}
        <5>1. \A j \in (1 .. N) \cup {N + 1} : ~(j > N + 1)
          BY <1>3
        <5> HIDE DEF N
        <5> QED
          BY <2>4, <3>1, <5>1 DEF After
      <4>2. Behind(r, k, i)' = Cardinality({}) * c
        BY <1>k, <4>1 DEF Behind
      <4>3. Cardinality({}) = 0
        BY FS_EmptySet
      <4>4. Behind(r, k, i)' = 0
        <5> HIDE DEF c
        <5> QED
          BY <2>0, <4>2, <4>3
      <4>5. Len(x.samples) \in Nat /\ Len(x.samples) >= 1 /\ x.samples[Len(x.samples)] = s
        BY <2>2, CapacityAssumption DEF Kept
      <4>6. Len(x.samples) - 0 = Len(x.samples) /\ 0 < Len(x.samples)
        BY <4>5
      <4>7. received'[r][i].sample = s
        BY <1>2, <1>3, <3>1
      <4> QED
        BY <4>4, <4>5, <4>6, <4>7
    <3>2. CASE i # N + 1
      <4>1. i \in Handled(r, k) /\ i \in 1 .. N /\ received'[r][i] = received[r][i]
        BY <1>3, <2>4, <3>2
      <4>2. w # NoWindow /\ w.samples = q /\ w.duration = d
        BY <1>k, <1>4, <1>6, <2>1, <4>1 DEF WindowOK
      <4>3. /\ After(r, k, i)' = After(r, k, i) \cup {N + 1}
            /\ N + 1 \notin After(r, k, i)
        <5>1. N + 1 > i /\ N + 1 \notin 1 .. N
          BY <1>3, <4>1
        <5> QED
          BY <2>4, <5>1 DEF After
      <4> DEFINE a == Cardinality(After(r, k, i))
                 e == Behind(r, k, i)
      <4>4. a \in Nat /\ Cardinality(After(r, k, i)') = a + 1
        <5>1. IsFiniteSet(After(r, k, i)) /\ Cardinality(After(r, k, i)) \in Nat
          BY AfterFinite
        <5>2. N + 1 \notin After(r, k, i) /\ After(r, k, i)' = After(r, k, i) \cup {N + 1}
          BY <4>3
        <5>3. Cardinality(After(r, k, i) \cup {N + 1})
                 = IF N + 1 \in After(r, k, i) THEN Cardinality(After(r, k, i))
                   ELSE Cardinality(After(r, k, i)) + 1
          <6> HIDE DEF N
          <6> QED
            BY <5>1, FS_AddElement
        <5> QED
          BY <5>1, <5>2, <5>3
      <4>5. e = a * c /\ e \in Nat /\ Behind(r, k, i)' = e + c
        <5>1. e = a * c /\ Behind(r, k, i)' = (a + 1) * c
          BY <1>k, <4>4 DEF Behind
        <5> HIDE DEF a, c, e
        <5> QED
          BY <2>0, <4>4, <5>1
      <4> HIDE DEF a, c, e
      <4>6. received[r][i].sample.t >= s.t - d
        <5>1. N + 1 \in Handled(r, k)' /\ received'[r][N + 1].sample = s
          BY <1>2, <1>3, <2>4
        <5>2. windows'[r][k].duration = d
          BY <2>3
        <5> QED
          BY <2>7, <4>1, <5>1, <5>2 DEF StillFresh
      <4>7. StillFresh(r, k, i)
        <5> SUFFICES ASSUME NEW j \in Handled(r, k)
                     PROVE  received[r][i].sample.t >= received[r][j].sample.t - w.duration
          BY DEF StillFresh
        <5>1. j \in Handled(r, k)' /\ received'[r][j] = received[r][j]
          BY <1>3, <2>4
        <5>2. windows'[r][k].duration = w.duration
          BY <2>3, <4>2
        <5> QED
          BY <2>7, <4>1, <5>1, <5>2 DEF StillFresh
      <4>8. e < Capacity
        BY <2>0, <2>7, <4>5, CapacityAssumption
      <4>9. e < Len(q) /\ q[Len(q) - e] = received[r][i].sample
        BY <1>4, <4>1, <4>2, <4>7, <4>8 DEF WindowOK, e
      <4>10. e \in 0 .. Len(q) - 1 /\ e + c < Capacity
        BY <2>7, <4>5, <4>9
      <4> QED
        BY <2>2, <4>1, <4>5, <4>6, <4>9, <4>10 DEF Kept
    <3> QED
      BY <3>1, <3>2
  <2>8. windows'[r][k] = x /\ windows'[r][k] # NoWindow /\ Recording(k[2]) # {}
    BY <1>k, <1>6, <2>3
  <2>9. \A i \in Handled(r, k)' :
           StillFresh(r, k, i)' /\ Behind(r, k, i)' < Capacity =>
               /\ Behind(r, k, i)' < Len(windows'[r][k].samples)
               /\ windows'[r][k].samples[Len(windows'[r][k].samples) - Behind(r, k, i)']
                      = received'[r][i].sample
    BY <2>7, <2>8
  <2>10. \A j \in 1 .. Len(windows'[r][k].samples) :
            \E i \in Handled(r, k)' : windows'[r][k].samples[j] = received'[r][i].sample
    <3> SUFFICES ASSUME NEW j \in 1 .. Len(windows'[r][k].samples)
                 PROVE  \E i \in Handled(r, k)' : windows'[r][k].samples[j] = received'[r][i].sample
      OBVIOUS
    <3>1. j \in 1 .. Len(x.samples)
      BY <2>8
    <3>2. PICK i \in Handled(r, k)' : x.samples[j] = received'[r][i].sample
      BY <2>6, <3>1
    <3> QED
      BY <2>8, <3>2
  <2>11. WindowOK(r, k)'
    BY <2>5, <2>8, <2>9, <2>10 DEF WindowOK
  <2> QED
    BY <2>3, <2>11
<1> QED
  BY <1>5, <1>6

\* A receipt does not change, and stays one of its window, as signals arrive.
LEMMA ReceiptsStay ==
    ASSUME WindowInv, NEW r \in Replicas, NEW p \in Pods, NEW m, NEW v, NEW t,
           ProcessSignal(r, p, m, v, t), NEW q \in Replicas, NEW k, NEW i \in Handled(q, k)
    PROVE  i \in Handled(q, k)' /\ received'[q][i] = received[q][i]
<1> DEFINE rec == [metric |-> m, sample |-> [pod |-> p, v |-> v, t |-> t]]
<1>1. received' = [received EXCEPT ![r] = Append(received[r], rec)]
  BY DEF ProcessSignal
<1> HIDE DEF rec
<1>2. received \in [Replicas -> Seq(Receipts)] /\ i \in DOMAIN received[q]
  BY DEF WindowInv, Handled
<1>3. CASE q # r
  BY <1>1, <1>2, <1>3 DEF Handled
<1>4. CASE q = r
  <2>1. received'[r] = Append(received[r], rec) /\ received[r] \in Seq(Receipts)
    BY <1>1, <1>2
  <2>2. i \in DOMAIN received'[r] /\ received'[r][i] = received[r][i]
    BY <1>2, <1>4, <2>1
  <2> QED
    BY <1>4, <2>2 DEF Handled
<1> QED
  BY <1>3, <1>4

\* A signal changes its own window and no other.
LEMMA WindowSignalStep ==
    ASSUME WindowInv, NEW r \in Replicas, NEW p \in Pods, NEW m \in Metrics,
           NEW v \in Values, NEW t \in 0 .. now, ProcessSignal(r, p, m, v, t)
    PROVE  WindowInv'
<1> DEFINE key == <<NameOf[p], m>>
           s == [pod |-> p, v |-> v, t |-> t]
           x == WindowAfter(r, key, s)
<1>0. now \in Nat
  BY DEF WindowInv
<1>1. /\ windows' = [windows EXCEPT ![r][key] = x]
      /\ received' = [received EXCEPT ![r] = Append(received[r], [metric |-> m, sample |-> s])]
      /\ now' = now
  BY DEF ProcessSignal
<1>2. /\ s \in Samples /\ s.pod = p /\ s.t = t
      /\ key \in WindowKeys
  BY <1>0, AnalyzerAssumption DEF Samples, WindowKeys, Names
<1>3. /\ windows \in [Replicas -> [WindowKeys -> Windows]]
      /\ received \in [Replicas -> Seq(Receipts)]
  BY DEF WindowInv
<1> HIDE DEF s
<1>4. windows'[r][key] = x
  <2> HIDE DEF x, key
  <2> QED
    BY <1>1, <1>2, <1>3
<1>5. \A q \in Replicas, k \in WindowKeys : ~(q = r /\ k = key) => windows'[q][k] = windows[q][k]
  <2> HIDE DEF x, key
  <2> QED
    BY <1>1, <1>2, <1>3
<1>6. x \in Windows /\ WindowOK(r, key)'
  <2> SUFFICES ASSUME NEW k, k = key, NEW y, y = x
               PROVE  y \in Windows /\ WindowOK(r, k)'
    OBVIOUS
  <2>1. k \in WindowKeys /\ k = <<NameOf[p], m>> /\ y = WindowAfter(r, k, s) /\ windows'[r][k] = y
    BY <1>2, <1>4
  <2> HIDE DEF key, x
  <2> QED
    BY <1>1, <1>2, <2>1, OwnWindow
<1>7. \A q \in Replicas, k \in WindowKeys : WindowOK(q, k)'
  <2> SUFFICES ASSUME NEW q \in Replicas, NEW k \in WindowKeys PROVE WindowOK(q, k)'
    OBVIOUS
  <2>1. CASE q = r /\ k = key
    BY <1>6, <2>1
  <2>2. CASE ~(q = r /\ k = key)
    <3>1. windows'[q][k] = windows[q][k] /\ ~(q = r /\ k = <<NameOf[p], m>>)
      BY <1>5, <2>2
    <3>2. /\ received' = [received EXCEPT ![r] = Append(received[r], [metric |-> m, sample |-> s])]
          /\ s \in Samples /\ s.pod = p
      BY <1>1, <1>2
    <3> HIDE DEF key, x
    <3> QED
      BY <3>1, <3>2, OtherWindow, ZenonT(30)
  <2> QED
    BY <2>1, <2>2
<1>8. windows' \in [Replicas -> [WindowKeys -> Windows]]
  <2> HIDE DEF x, key
  <2> QED
    BY <1>1, <1>2, <1>3, <1>6
<1>9. [metric |-> m, sample |-> s] \in Receipts
  BY <1>2 DEF Receipts
<1>10. received' \in [Replicas -> Seq(Receipts)]
  BY <1>1, <1>3, <1>9
<1>11. \A q \in Replicas : \A i \in 1 .. Len(received'[q]) : received'[q][i].sample.t <= now'
  <2> SUFFICES ASSUME NEW q \in Replicas, NEW i \in 1 .. Len(received'[q])
               PROVE  received'[q][i].sample.t <= now
    BY <1>1
  <2> DEFINE rec == [metric |-> m, sample |-> s]
  <2>1. CASE q # r
    BY <1>1, <1>3, <2>1 DEF WindowInv
  <2>2. CASE q = r
    <3>1. received'[r] = Append(received[r], rec) /\ rec.sample = s /\ received[r] \in Seq(Receipts)
      BY <1>1, <1>3
    <3> HIDE DEF rec
    <3>2. CASE i = Len(received[r]) + 1
      BY <1>0, <1>2, <2>2, <3>1, <3>2
    <3>3. CASE i # Len(received[r]) + 1
      <4>1. i \in 1 .. Len(received[r]) /\ received'[r][i] = received[r][i]
        BY <2>2, <3>1, <3>3
      <4> QED
        BY <2>2, <4>1 DEF WindowInv
    <3> QED
      BY <3>2, <3>3
  <2> QED
    BY <2>1, <2>2
<1> QED
  BY <1>0, <1>1, <1>7, <1>8, <1>10, <1>11 DEF WindowInv

\* A window that stays as it is, with the signals behind it, stays right.
LEMMA SameWindow ==
    ASSUME NEW q, NEW k, WindowOK(q, k),
           windows'[q][k] = windows[q][k], received'[q] = received[q]
    PROVE  WindowOK(q, k)'
<1>1. Handled(q, k)' = Handled(q, k)
  BY DEF Handled
<1> QED
  BY <1>1 DEF WindowOK, StillFresh, Behind, After

\* Every step keeps the windows right.
LEMMA WindowStep == WindowInv /\ [Next]_aVars => WindowInv'
<1> SUFFICES ASSUME WindowInv, [Next]_aVars PROVE WindowInv'
  OBVIOUS
<1>1. ASSUME NEW r \in Replicas, NEW p \in Pods, NEW m \in Metrics, NEW v \in Values,
             NEW t \in 0 .. now, ProcessSignal(r, p, m, v, t)
      PROVE  WindowInv'
  BY <1>1, WindowSignalStep
<1>2. ASSUME NEW r \in Replicas, Restart(r) PROVE WindowInv'
  <2>1. /\ windows' = [windows EXCEPT ![r] = NoWindows]
        /\ received' = [received EXCEPT ![r] = <<>>]
        /\ now' = now
    BY <1>2 DEF Restart
  <2>2. /\ windows \in [Replicas -> [WindowKeys -> Windows]]
        /\ received \in [Replicas -> Seq(Receipts)]
    BY DEF WindowInv
  <2>3. NoWindows \in [WindowKeys -> Windows] /\ \A k \in WindowKeys : NoWindows[k] = NoWindow
    BY DEF NoWindows, Windows
  <2>4. /\ windows' \in [Replicas -> [WindowKeys -> Windows]]
        /\ received' \in [Replicas -> Seq(Receipts)]
    BY <2>1, <2>2, <2>3
  <2>5. \A q \in Replicas, k \in WindowKeys : WindowOK(q, k)'
    <3> SUFFICES ASSUME NEW q \in Replicas, NEW k \in WindowKeys PROVE WindowOK(q, k)'
      OBVIOUS
    <3>1. CASE q = r
      <4>1. windows'[q][k] = NoWindow /\ received'[q] = <<>>
        BY <2>1, <2>2, <2>3, <3>1
      <4>2. Handled(q, k)' = {}
        BY <4>1 DEF Handled
      <4>3. Len(windows'[q][k].samples) = 0
        BY <4>1 DEF NoWindow
      <4>4. Len(windows'[q][k].samples) <= Capacity /\ 1 .. Len(windows'[q][k].samples) = {}
        BY <4>3, CapacityAssumption
      <4> QED
        BY <4>1, <4>2, <4>4 DEF WindowOK
    <3>2. CASE q # r
      <4>1. windows'[q][k] = windows[q][k] /\ received'[q] = received[q]
        BY <2>1, <2>2, <3>2
      <4> QED
        BY <4>1, SameWindow DEF WindowInv
    <3> QED
      BY <3>1, <3>2
  <2>6. \A q \in Replicas : \A i \in 1 .. Len(received'[q]) : received'[q][i].sample.t <= now'
    <3> SUFFICES ASSUME NEW q \in Replicas, NEW i \in 1 .. Len(received'[q])
                 PROVE  received'[q][i].sample.t <= now
      BY <2>1
    <3>1. q # r /\ received'[q] = received[q]
      BY <2>1, <2>2
    <3> QED
      BY <3>1 DEF WindowInv
  <2> QED
    BY <2>1, <2>4, <2>5, <2>6 DEF WindowInv
<1>3. CASE TimePasses
  <2>1. now' = now + 1 /\ windows' = windows /\ received' = received
    BY <1>3 DEF TimePasses, Tick
  <2>2. \A q \in Replicas, k \in WindowKeys : WindowOK(q, k)'
    BY <2>1, SameWindow DEF WindowInv
  <2>3. \A q \in Replicas : \A i \in 1 .. Len(received'[q]) : received'[q][i].sample.t <= now'
    <3> SUFFICES ASSUME NEW q \in Replicas, NEW i \in 1 .. Len(received[q])
                 PROVE  received[q][i].sample.t <= now + 1
      BY <2>1
    <3>1. received[q][i].sample.t <= now /\ now \in Nat
      BY DEF WindowInv
    <3>2. received[q][i].sample.t \in Nat
      BY ReceiptTyped
    <3> QED
      BY <3>1, <3>2
  <2> QED
    BY <2>1, <2>2, <2>3 DEF WindowInv
<1>4. CASE UNCHANGED aVars
  <2>1. now' = now /\ windows' = windows /\ received' = received
    BY <1>4 DEF aVars
  <2>2. \A q \in Replicas, k \in WindowKeys : WindowOK(q, k)'
    BY <2>1, SameWindow DEF WindowInv
  <2> QED
    BY <2>1, <2>2 DEF WindowInv
<1> QED
  BY <1>1, <1>2, <1>3, <1>4 DEF Next, IgnoreSignal

\* Among timestamps that are not in the future there is a newest.
LEMMA NewestExists ==
    ASSUME NEW T, NEW b \in Nat, T \subseteq 0 .. b, T # {}
    PROVE  \E x \in T : \A y \in T : x >= y
<1> DEFINE D == {b - x : x \in T}
<1>a. \A x \in T : x \in 0 .. b /\ b - x \in Nat
  OBVIOUS
<1>b. PICK z \in T : TRUE
  OBVIOUS
<1>c. b - z \in D
  OBVIOUS
<1>1. D \subseteq Nat /\ D # {}
  BY <1>a, <1>c
<1>2. PICK d \in D : \A y \in D : d <= y
  <2> HIDE DEF D
  <2> QED
    BY <1>1, LeastNat
<1>3. PICK x \in T : d = b - x
  BY <1>2
<1>4. ASSUME NEW y \in T PROVE x >= y
  <2>1. b - x <= b - y
    BY <1>2, <1>3
  <2> QED
    BY <2>1
<1> QED
  BY <1>4

\* What is found at a place of the window is in it.
LEMMA FreshFound ==
    ASSUME WindowInv, NEW r \in Replicas, NEW k \in WindowKeys, windows[r][k] # NoWindow,
           NEW i \in Handled(r, k), NEW newest,
           newest = Max({received[r][j].sample.t : j \in Handled(r, k)}),
           received[r][i].sample.t >= newest - windows[r][k].duration,
           Behind(r, k, i) < Capacity
    PROVE  \E j \in DOMAIN windows[r][k].samples :
              windows[r][k].samples[j] = received[r][i].sample
<1> DEFINE w == windows[r][k]
           T == {received[r][j].sample.t : j \in Handled(r, k)}
           e == Behind(r, k, i)
<1>1. w.duration \in Nat /\ w.samples \in Seq(Samples) /\ now \in Nat
  BY DEF WindowInv, Windows
<1>2. \A j \in Handled(r, k) :
         received[r][j].sample.t \in Nat /\ received[r][j].sample.t <= now
  BY AfterFinite, ReceiptTyped DEF WindowInv
<1>3. newest \in T /\ \A y \in T : newest >= y
  <2>1. T \subseteq 0 .. now /\ T # {}
    BY <1>1, <1>2
  <2>2. newest = Max(T)
    OBVIOUS
  <2> HIDE DEF T
  <2>3. \E x \in T : \A y \in T : x >= y
    BY <1>1, <2>1, NewestExists
  <2> QED
    BY <2>2, <2>3 DEF Max
<1>4. StillFresh(r, k, i)
  <2> SUFFICES ASSUME NEW j \in Handled(r, k)
               PROVE  received[r][i].sample.t >= received[r][j].sample.t - w.duration
    BY DEF StillFresh
  <2>1. newest >= received[r][j].sample.t /\ newest \in Nat
    BY <1>2, <1>3
  <2>2. received[r][i].sample.t \in Nat /\ received[r][j].sample.t \in Nat
    BY <1>2
  <2>3. w.duration \in Nat /\ received[r][i].sample.t >= newest - w.duration
    BY <1>1
  <2> HIDE DEF T, w
  <2> QED
    BY <2>1, <2>2, <2>3
<1>5. e < Len(w.samples) /\ w.samples[Len(w.samples) - e] = received[r][i].sample
  BY <1>4 DEF WindowInv, WindowOK
<1>6. e \in Nat
  <2>1. Cardinality(After(r, k, i)) \in Nat /\ Cardinality(Recording(k[2])) \in Nat
    BY AfterFinite, RecordingFinite
  <2> QED
    BY <2>1 DEF Behind
<1>7. Len(w.samples) - e \in DOMAIN w.samples
  <2> HIDE DEF e
  <2> QED
    BY <1>1, <1>5, <1>6
<1> QED
  BY <1>5, <1>7

\* However late and out of order signals arrive, a window misses no sample of a
\* signal that is not older than the window is long, unless Capacity records
\* pushed it out, and it never holds more than Capacity.
THEOREM FreshKept == Spec => []FreshSamplesKept
<1>1. WindowInv => FreshSamplesKept
  <2> SUFFICES ASSUME WindowInv, NEW r \in Replicas, NEW k \in WindowKeys
               PROVE  /\ WindowCount(windows[r][k]) <= Capacity
                      /\ windows[r][k] # NoWindow =>
                           \A i \in Handled(r, k) :
                              /\ received[r][i].sample.t
                                   >= Max({received[r][j].sample.t : j \in Handled(r, k)})
                                         - windows[r][k].duration
                              /\ Cardinality({j \in Handled(r, k) : j > i})
                                     * Cardinality(Recording(k[2])) < Capacity
                              => \E j \in DOMAIN windows[r][k].samples :
                                    windows[r][k].samples[j] = received[r][i].sample
    BY DEF FreshSamplesKept
  <2>1. WindowCount(windows[r][k]) <= Capacity
    BY DEF WindowInv, WindowOK, WindowCount
  <2>2. ASSUME windows[r][k] # NoWindow, NEW i \in Handled(r, k),
               received[r][i].sample.t
                  >= Max({received[r][j].sample.t : j \in Handled(r, k)}) - windows[r][k].duration,
               Cardinality({j \in Handled(r, k) : j > i})
                  * Cardinality(Recording(k[2])) < Capacity
        PROVE  \E j \in DOMAIN windows[r][k].samples :
                  windows[r][k].samples[j] = received[r][i].sample
    <3>1. Behind(r, k, i) < Capacity
      BY <2>2 DEF Behind, After
    <3> QED
      BY <2>2, <3>1, FreshFound
  <2> QED
    BY <2>1, <2>2
<1> QED
  BY <1>1, WindowInit, WindowStep, PTL DEF Spec

-----------------------------------------------------------------------------
(* Who is blamed.                                                          *)

BlamedInv ==
    /\ \A a \in alerts : a.replica \in Replicas
    /\ BlamedNameBreached

\* A window whose average is on one side of the threshold holds a sample that is.
LEMMA SomeSampleHolds ==
    ASSUME NEW q \in Seq(Samples), Len(q) # 0, NEW d, NEW i \in RuleIndices,
           RuleList[i].op # "==", Breaches([duration |-> d, samples |-> q], i)
    PROVE  \E j \in 1 .. Len(q) : Holds(RuleList[i].op, q[j].v, RuleList[i].value)
<1> DEFINE c == RuleList[i].value
           op == RuleList[i].op
           n == Len(q)
           sum == WindowSum([duration |-> d, samples |-> q])
<1>1. c \in Int /\ n \in Nat \ {0}
  BY AnalyzerAssumption
<1>2. Holds(op, sum, c * n)
  BY DEF Breaches, WindowCount
<1>3. sum \in Int
  <2>1. IsSumTo(q, n, Sums(q))
    BY SumsAre
  <2>2. sum = Sums(q)[n] /\ n \in 0 .. n
    BY DEF WindowSum, Sums
  <2> QED
    BY <2>1, <2>2 DEF IsSumTo
<1>4. /\ c * n \in Int /\ (c - 1) * n = c * n - n /\ (c + 1) * n = c * n + n
      /\ c - 1 \in Int /\ c + 1 \in Int
  <2> HIDE DEF c, n
  <2> QED
    BY <1>1
<1>5. op \in {">", ">=", "<", "<="}
  BY <1>2 DEF Holds
<1>6. SUFFICES ASSUME \A j \in 1 .. n : ~Holds(op, q[j].v, c) PROVE FALSE
  OBVIOUS
<1>7. \A j \in 1 .. n : q[j].v \in Int
  <2> SUFFICES ASSUME NEW j \in 1 .. n PROVE q[j].v \in Int
    OBVIOUS
  <2>1. q[j] \in Samples
    BY ElementOfSeq
  <2> QED
    BY <2>1 DEF Samples
<1> HIDE DEF c, op
<1>8. CASE op = ">"
  <2>1. \A j \in 1 .. n : q[j].v <= c
    BY <1>1, <1>6, <1>7, <1>8 DEF Holds
  <2>2. sum <= c * n
    BY <1>1, <2>1, SumBound
  <2>3. sum > c * n
    BY <1>2, <1>8 DEF Holds
  <2> HIDE DEF sum, n
  <2> QED
    BY <1>3, <1>4, <2>2, <2>3
<1>9. CASE op = ">="
  <2>1. \A j \in 1 .. n : q[j].v <= c - 1
    BY <1>1, <1>6, <1>7, <1>9 DEF Holds
  <2>2. sum <= (c - 1) * n
    BY <1>4, <2>1, SumBound
  <2>3. sum >= c * n
    BY <1>2, <1>9 DEF Holds
  <2> HIDE DEF sum, n
  <2> QED
    BY <1>1, <1>3, <1>4, <2>2, <2>3
<1>10. CASE op = "<"
  <2>1. \A j \in 1 .. n : q[j].v >= c
    BY <1>1, <1>6, <1>7, <1>10 DEF Holds
  <2>2. sum >= c * n
    BY <1>1, <2>1, SumFloor
  <2>3. sum < c * n
    BY <1>2, <1>10 DEF Holds
  <2> HIDE DEF sum, n
  <2> QED
    BY <1>3, <1>4, <2>2, <2>3
<1>11. CASE op = "<="
  <2>1. \A j \in 1 .. n : q[j].v >= c + 1
    BY <1>1, <1>6, <1>7, <1>11 DEF Holds
  <2>2. sum >= (c + 1) * n
    BY <1>4, <2>1, SumFloor
  <2>3. sum <= c * n
    BY <1>2, <1>11 DEF Holds
  <2> HIDE DEF sum, n
  <2> QED
    BY <1>1, <1>3, <1>4, <2>2, <2>3
<1> QED
  BY <1>5, <1>8, <1>9, <1>10, <1>11

\* A signal blames a name only for what its window holds.
LEMMA BlamedSignalStep ==
    ASSUME WindowInv, WindowInv', BlamedInv, NEW r \in Replicas, NEW p \in Pods,
           NEW m \in Metrics, NEW v \in Values, NEW t \in 0 .. now, ProcessSignal(r, p, m, v, t)
    PROVE  BlamedInv'
<1> DEFINE n == NameOf[p]
           key == <<n, m>>
           s == [pod |-> p, v |-> v, t |-> t]
           w == WindowAfter(r, key, s)
           hits == Hits(w, m)
           alerting == Alerting(r, n, hits)
           Alert(i) == [replica |-> r, pod |-> p, name |-> n, rule |-> i,
                        action |-> RuleList[i].action, at |-> now,
                        decision |-> Decide(Confidence(i, hits))]
<1>1. /\ alerts' = alerts \cup {Alert(i) : i \in alerting}
      /\ windows' = [windows EXCEPT ![r][key] = w]
  BY DEF ProcessSignal
<1>2. key \in WindowKeys
  BY DEF WindowKeys, Names
<1>3. alerting \subseteq hits
  BY DEF Alerting
<1>4. ASSUME NEW i \in hits
      PROVE  w # NoWindow /\ i \in RuleIndices /\ RuleList[i].metric = m /\ Breaches(w, i)
  BY <1>4 DEF Hits, Matching
<1>5. windows'[r][key] = w
  <2>1. windows \in [Replicas -> [WindowKeys -> Windows]]
    BY DEF WindowInv
  <2> HIDE DEF w, key
  <2> QED
    BY <1>1, <1>2, <2>1
<1> HIDE DEF w, hits, alerting
<1>6. ASSUME NEW i \in hits, RuleList[i].op # "=="
      PROVE  \E h \in Handled(r, key)' :
                Holds(RuleList[i].op, received'[r][h].sample.v, RuleList[i].value)
  <2>1. w # NoWindow /\ i \in RuleIndices /\ Breaches(w, i)
    BY <1>4, <1>6
  <2>2. w \in Windows
    <3> HIDE DEF key
    <3> QED
      BY <1>2, <1>5 DEF WindowInv
  <2>3. PICK d \in Nat, q \in Seq(Samples) : w = [duration |-> d, samples |-> q]
    BY <2>1, <2>2 DEF Windows
  <2>5. WindowOK(r, key)'
    <3> HIDE DEF key
    <3> QED
      BY <1>2 DEF WindowInv
  <2>6. \A l \in 1 .. Len(windows'[r][key].samples) :
           \E h \in Handled(r, key)' : windows'[r][key].samples[l] = received'[r][h].sample
    BY <2>5 DEF WindowOK
  <2>7. windows'[r][key].samples = q
    BY <1>5, <2>3
  <2>a. Len(q) # 0
    BY <1>5, <2>1, <2>5, <2>7 DEF WindowOK
  <2>4. PICK j \in 1 .. Len(q) : Holds(RuleList[i].op, q[j].v, RuleList[i].value)
    BY <1>6, <2>1, <2>3, <2>a, SomeSampleHolds
  <2>8. PICK h \in Handled(r, key)' : q[j] = received'[r][h].sample
    BY <2>6, <2>7
  <2> QED
    BY <2>4, <2>8
<1> SUFFICES ASSUME NEW a \in alerts'
             PROVE  /\ a.replica \in Replicas
                    /\ RuleList[a.rule].op # "==" =>
                         \E i \in Handled(a.replica, <<a.name, RuleList[a.rule].metric>>)' :
                            Holds(RuleList[a.rule].op, received'[a.replica][i].sample.v,
                                  RuleList[a.rule].value)
  BY DEF BlamedInv, BlamedNameBreached
<1>7. CASE a \in alerts
  <2>1. a.replica \in Replicas
    BY <1>7 DEF BlamedInv
  <2> SUFFICES ASSUME RuleList[a.rule].op # "=="
               PROVE  \E i \in Handled(a.replica, <<a.name, RuleList[a.rule].metric>>)' :
                         Holds(RuleList[a.rule].op, received'[a.replica][i].sample.v,
                               RuleList[a.rule].value)
    BY <2>1
  <2>2. PICK i \in Handled(a.replica, <<a.name, RuleList[a.rule].metric>>) :
           Holds(RuleList[a.rule].op, received[a.replica][i].sample.v, RuleList[a.rule].value)
    BY <1>7 DEF BlamedInv, BlamedNameBreached
  <2>3. /\ i \in Handled(a.replica, <<a.name, RuleList[a.rule].metric>>)'
        /\ received'[a.replica][i] = received[a.replica][i]
    BY <2>1, ReceiptsStay
  <2> QED
    BY <2>2, <2>3
<1>8. ASSUME NEW i \in alerting, a = Alert(i)
      PROVE  /\ a.replica \in Replicas
             /\ RuleList[a.rule].op # "==" =>
                  \E h \in Handled(a.replica, <<a.name, RuleList[a.rule].metric>>)' :
                     Holds(RuleList[a.rule].op, received'[a.replica][h].sample.v,
                           RuleList[a.rule].value)
  <2>1. a.replica = r /\ a.name = n /\ a.rule = i /\ i \in hits /\ RuleList[i].metric = m
    BY <1>3, <1>4, <1>8
  <2> QED
    BY <1>6, <2>1
<1> QED
  BY <1>1, <1>7, <1>8

LEMMA BlamedStep == WindowInv /\ WindowInv' /\ BlamedInv /\ [Next]_aVars => BlamedInv'
<1> SUFFICES ASSUME WindowInv, WindowInv', BlamedInv, [Next]_aVars PROVE BlamedInv'
  OBVIOUS
<1>1. ASSUME NEW r \in Replicas, NEW p \in Pods, NEW m \in Metrics, NEW v \in Values,
             NEW t \in 0 .. now, ProcessSignal(r, p, m, v, t)
      PROVE  BlamedInv'
  BY <1>1, BlamedSignalStep
<1>2. ASSUME NEW r \in Replicas, Restart(r) PROVE BlamedInv'
  <2>1. /\ alerts' = {a \in alerts : a.replica # r}
        /\ received' = [received EXCEPT ![r] = <<>>]
    BY <1>2 DEF Restart
  <2>2. \A a \in alerts' : a \in alerts /\ a.replica \in Replicas
                           /\ received'[a.replica] = received[a.replica]
    BY <2>1 DEF BlamedInv, WindowInv
  <2> QED
    BY <2>2 DEF BlamedInv, BlamedNameBreached, Handled
<1>3. CASE UNCHANGED <<received, alerts>>
  BY <1>3 DEF BlamedInv, BlamedNameBreached, Handled
<1> QED
  BY <1>1, <1>2, <1>3 DEF Next, IgnoreSignal, TimePasses, aVars

\* An anomaly about a name goes back to a breaching sample of a pod of that name.
THEOREM BlamedBreached == Spec => []BlamedNameBreached
<1>1. Init => BlamedInv
  BY DEF Init, BlamedInv, BlamedNameBreached
<1>2. BlamedInv => BlamedNameBreached
  BY DEF BlamedInv
<1> QED
  BY <1>1, <1>2, WindowInit, WindowStep, BlamedStep, PTL DEF Spec
=============================================================================
