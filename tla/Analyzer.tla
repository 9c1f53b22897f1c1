------------------------------ MODULE Analyzer ------------------------------
(***************************************************************************)
(* The anomaly detector (internal/analyzer): replicas of the engine share  *)
(* the stream of signals.  Each keeps its own windows and cooldowns in     *)
(* memory and handles one signal at a time on its subscriber goroutine.    *)
(* Confidence is counted in half percents, so that every boost and half a  *)
(* boost is an integer.                                                    *)
(***************************************************************************)
EXTENDS Clock, SlidingWindow, FiniteSets

CONSTANTS Replicas,         \* analyzer.replicaCount
          Pods,
          NameOf,           \* a pod's name, without its namespace
          Metrics,
          Values,           \* values a signal may carry
          RuleFile,         \* the rules of rules.yaml, in its order
          Correlations,     \* sequence of [signals, boost]
          Penalty,          \* single_signal_penalty, negative
          Suppress,         \* thresholds.suppress
          TakeAction,       \* thresholds.take_action
          DefaultCooldowns, \* action -> [duration, maxPerHour]
          Minute, Hour,
          MaxLag,           \* how late a signal may arrive
          MaxSignals,       \* bound on the signals one replica handles in a run
          MaxRuns           \* bound on the restarts of a replica

\* LoadRules keeps the enabled rules.
RuleList == SelectSeq(RuleFile, LAMBDA rule : rule.enabled)

Names == {NameOf[p] : p \in Pods}
RuleIndices == DOMAIN RuleList
SuggestedActions == {RuleList[i].action : i \in RuleIndices}
AlertKeys == Names \X SuggestedActions
WindowKeys == Names \X Metrics

\* cooldownPolicyFor(): an action that is not in the table has a default.
CooldownPolicyFor(action) ==
    IF action \in DOMAIN DefaultCooldowns
    THEN DefaultCooldowns[action]
    ELSE [duration |-> Minute, maxPerHour |-> 3]
AlertCooldown == [a \in SuggestedActions |-> CooldownPolicyFor(a).duration]
AlertMaxPerHour == [a \in SuggestedActions |-> CooldownPolicyFor(a).maxPerHour]

\* A window string that ParseWindowDuration rejects.
BadWindow == -1
Full == 200     \* confidence 1.0

ASSUME AnalyzerAssumption ==
    /\ \A a \in DOMAIN DefaultCooldowns :
          DefaultCooldowns[a] \in [duration : Nat \ {0}, maxPerHour : Nat]
    /\ Values \subseteq Int
    /\ \A i \in RuleIndices : RuleList[i].value \in Int
    /\ Minute \in Nat \ {0}
    /\ Hour \in Nat \ {0}
    /\ MaxLag \in Nat /\ MaxSignals \in Nat /\ MaxRuns \in Nat
    /\ RuleIndices \subseteq Nat /\ IsFiniteSet(RuleIndices)
    /\ \A i \in RuleIndices : RuleList[i].window \in Nat \cup {BadWindow}

VARIABLES windows,      \* Engine.windows of each replica; NoWindow if absent
          alerted,      \* cooldownEntry.lastAction
          recent,       \* cooldownEntry.recentTimes
          run,          \* incarnation of each replica
          received,     \* history: samples handled in this run, per metric
          alerts        \* history: the anomalies detected, per replica, in this run

aVars == <<now, windows, alerted, recent, run, received, alerts>>

NoWindow == [duration |-> BadWindow, samples |-> <<>>]
NoWindows == [k \in WindowKeys |-> NoWindow]
NeverAlerted == [k \in AlertKeys |-> NoTime]
NoneRecent == [k \in AlertKeys |-> {}]

Init ==
    /\ ClockInit
    /\ windows = [r \in Replicas |-> NoWindows]
    /\ alerted = [r \in Replicas |-> NeverAlerted]
    /\ recent = [r \in Replicas |-> NoneRecent]
    /\ run = [r \in Replicas |-> 0]
    /\ received = [r \in Replicas |-> <<>>]
    /\ alerts = {}

-----------------------------------------------------------------------------
(* Rules, correlation and confidence.                                      *)

Matching(m) == {i \in RuleIndices : RuleList[i].metric = m}

\* breaches(): an operator that is none of the five never is.
Holds(op, x, c) ==
    CASE op = ">"  -> x > c
      [] op = ">=" -> x >= c
      [] op = "<"  -> x < c
      [] op = "<=" -> x <= c
      [] op = "==" -> x = c
      [] OTHER -> FALSE

\* Mutation: the sum of the window is compared, not its average.
Breaches_Sum(w, i) == Holds(RuleList[i].op, WindowSum(w), RuleList[i].value)

\* breaches(w.Average(), condition), with the division multiplied out.
Breaches(w, i) ==
    Holds(RuleList[i].op, WindowSum(w), RuleList[i].value * WindowCount(w))

Clamp(x) == IF x < 0 THEN 0 ELSE IF x > Full THEN Full ELSE x

ActiveSet(hits) == {RuleList[i].id : i \in hits}

\* EvaluateCorrelations, and the boosts Score() adds: both sum the boosts of
\* the correlations whose signals are all active.
Boost(active) ==
    MapThenSumSet(LAMBDA c : Correlations[c].boost,
                  {c \in DOMAIN Correlations : Correlations[c].signals \subseteq active})

\* Score(), then the engine's extra half boost when several rules fired.
Confidence(i, hits) ==
    LET boost == Boost(ActiveSet(hits))
        score == Clamp(RuleList[i].base + boost
                       + (IF Cardinality(ActiveSet(hits)) = 1 THEN Penalty ELSE 0))
    IN IF boost > 0 /\ Cardinality(hits) > 1 THEN Clamp(score + boost \div 2) ELSE score

Decide(score) ==
    IF score < Suppress THEN "suppress"
    ELSE IF score < TakeAction THEN "log_only" ELSE "action"

-----------------------------------------------------------------------------
(* CooldownStore (cooldown.go of the analyzer): Allow and Record.          *)

\* Mutation: an entry is checked against the cap only.
AlertAllowed_NoInterval(r, k) ==
    alerted[r][k] # NoTime =>
        Cardinality({t \in recent[r][k] : t > now - Hour}) < AlertMaxPerHour[k[2]]

\* Allow(): a key without an entry is always allowed.
AlertAllowed(r, k) ==
    alerted[r][k] # NoTime =>
        /\ now - alerted[r][k] >= AlertCooldown[k[2]]
        /\ Cardinality({t \in recent[r][k] : t > now - Hour}) < AlertMaxPerHour[k[2]]

\* Mutation: only the last alert is remembered.
AlertRecord_Last(r, keys) ==
    /\ alerted' = [alerted EXCEPT ![r] = [k \in AlertKeys |-> IF k \in keys THEN now ELSE @[k]]]
    /\ recent' = [recent EXCEPT ![r] =
          [k \in AlertKeys |-> IF k \in keys THEN {now} ELSE @[k]]]

\* Record() of every key in keys.
AlertRecord(r, keys) ==
    /\ alerted' = [alerted EXCEPT ![r] = [k \in AlertKeys |-> IF k \in keys THEN now ELSE @[k]]]
    /\ recent' = [recent EXCEPT ![r] =
          [k \in AlertKeys |->
              IF k \in keys THEN {t \in @[k] : t > now - Hour} \cup {now} ELSE @[k]]]

-----------------------------------------------------------------------------
(* ProcessSignal.                                                          *)

\* The rules that record a signal: those whose window string is valid.
Recording(m) == {i \in Matching(m) : RuleList[i].window # BadWindow}

\* The window after step 1: one Record for every recording rule.  A window
\* keeps the duration it was created with.
WindowAfter(r, k, s) ==
    LET recording == Recording(k[2])
        w == IF windows[r][k] = NoWindow
             THEN NewWindow(RuleList[Min(recording)].window)
             ELSE windows[r][k]
    IN IF recording = {} THEN windows[r][k] ELSE WindowRecord(w, s, Cardinality(recording))

\* The rules of the metric that the new window breaches.
Hits(w, m) == IF w = NoWindow THEN {} ELSE {i \in Matching(m) : Breaches(w, i)}

\* The hits that become anomalies.  The first unsuppressed hit of an action
\* records its cooldown, which stops the later ones of the same signal.
Alerting(r, n, hits) ==
    LET unsuppressed == {i \in hits : Decide(Confidence(i, hits)) # "suppress"}
    IN {i \in unsuppressed :
           /\ AlertAllowed(r, <<n, RuleList[i].action>>)
           /\ \A j \in unsuppressed : RuleList[j].action = RuleList[i].action => i <= j}

\* A signal of pod p for metric m, taken at time t, is handled by replica r.
ProcessSignal(r, p, m, v, t) ==
    LET n == NameOf[p]
        s == [pod |-> p, v |-> v, t |-> t]
        w == WindowAfter(r, <<n, m>>, s)
        hits == Hits(w, m)
        alerting == Alerting(r, n, hits)
    IN /\ Matching(m) # {}
       /\ Len(received[r]) < MaxSignals
       /\ windows' = [windows EXCEPT ![r][<<n, m>>] = w]
       /\ AlertRecord(r, {<<n, RuleList[i].action>> : i \in alerting})
       /\ received' = [received EXCEPT ![r] = Append(@, [metric |-> m, sample |-> s])]
       /\ alerts' = alerts \cup
             {[replica |-> r, pod |-> p, name |-> n, rule |-> i,
               action |-> RuleList[i].action, at |-> now,
               decision |-> Decide(Confidence(i, hits))] : i \in alerting}
       /\ UNCHANGED <<now, run>>

\* No rule is about the metric.
IgnoreSignal(m) == Matching(m) = {} /\ UNCHANGED aVars

\* A replica is restarted: windows and cooldowns were in memory.
Restart(r) ==
    /\ run[r] < MaxRuns
    /\ run' = [run EXCEPT ![r] = @ + 1]
    /\ windows' = [windows EXCEPT ![r] = NoWindows]
    /\ alerted' = [alerted EXCEPT ![r] = NeverAlerted]
    /\ recent' = [recent EXCEPT ![r] = NoneRecent]
    /\ received' = [received EXCEPT ![r] = <<>>]
    /\ alerts' = {a \in alerts : a.replica # r}
    /\ UNCHANGED now

TimePasses == Tick /\ UNCHANGED <<windows, alerted, recent, run, received, alerts>>

Next ==
    \/ \E r \in Replicas, p \in Pods, m \in Metrics, v \in Values :
          \E t \in {u \in 0 .. now : now - u <= MaxLag} : ProcessSignal(r, p, m, v, t)
    \/ \E m \in Metrics : IgnoreSignal(m)
    \/ \E r \in Replicas : Restart(r)
    \/ TimePasses

Spec == Init /\ [][Next]_aVars

-----------------------------------------------------------------------------
(* Properties.                                                             *)

SameStore(a, b) ==
    a.replica = b.replica /\ a.name = b.name /\ a.action = b.action

\* However many rules of however many metrics suggest the same action for a
\* pod, one replica reports it at most once per cooldown.
AlertSpacing ==
    \A a, b \in alerts :
        SameStore(a, b) /\ a # b =>
            \/ a.at - b.at >= AlertCooldown[a.action]
            \/ b.at - a.at >= AlertCooldown[a.action]

\* ... and at most AlertMaxPerHour times in any rolling hour.
AlertCap ==
    \A a \in alerts :
        Cardinality({b \in alerts : SameStore(a, b) /\ b.at <= a.at /\ b.at > a.at - Hour})
            <= (IF AlertMaxPerHour[a.action] = 0 THEN 1 ELSE AlertMaxPerHour[a.action])

\* Timestamps of the signals a replica has handled for a window.
Handled(r, k) ==
    {i \in DOMAIN received[r] :
        NameOf[received[r][i].sample.pod] = k[1] /\ received[r][i].metric = k[2]}

\* Signals arrive late and out of order, and eviction looks at the front of the
\* window only; still, no sample younger than the window's duration is missing
\* from it unless Capacity records were made after it, and no window holds more
\* than Capacity of them.
FreshSamplesKept ==
    \A r \in Replicas, k \in WindowKeys :
        LET w == windows[r][k]
            newest == Max({received[r][i].sample.t : i \in Handled(r, k)})
            After(i) == {j \in Handled(r, k) : j > i}
        IN /\ WindowCount(w) <= Capacity
           /\ w # NoWindow =>
              \A i \in Handled(r, k) :
                 /\ received[r][i].sample.t >= newest - w.duration
                 /\ Cardinality(After(i)) * Cardinality(Recording(k[2])) < Capacity
                 => \E j \in DOMAIN w.samples : w.samples[j] = received[r][i].sample

\* An anomaly is never reported about a name no pod of which sent a breaching
\* sample for the rule's metric, although windows are shared by rules of
\* different durations, keep several records of one signal and drop others.  (An
\* average may equal a value that no sample does, so "==" is left out.)
BlamedNameBreached ==
    \A a \in alerts :
        RuleList[a.rule].op # "==" =>
            \E i \in Handled(a.replica, <<a.name, RuleList[a.rule].metric>>) :
                Holds(RuleList[a.rule].op, received[a.replica][i].sample.v, RuleList[a.rule].value)
=============================================================================
