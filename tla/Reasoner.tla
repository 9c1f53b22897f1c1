------------------------------ MODULE Reasoner ------------------------------
(***************************************************************************)
(* intelligence.Reasoner (reasoner.go): what an incident is attributed to. *)
(* An anomaly is a record with a set of signals; an incident is a sequence *)
(* of anomalies, one per pod.  Confidence is a number of hundredths, times *)
(* the number of pods where it is a fraction of them.                      *)
(***************************************************************************)
EXTENDS Integers, Sequences, FiniteSets

Pattern(signals, cause, base, action) ==
    [signals |-> signals, cause |-> cause, base |-> base, action |-> action]

\* In order of priority; the last one stands for "no pattern matches".
RootCausePatterns ==
    << Pattern({"io_wait_high", "disk_io_lat"}, "degraded_disk", 80, "cordon_node"),
       Pattern({"tcp_retransmit"}, "network_partition", 75, "investigate_network"),
       Pattern({"cpu_runqueue_delay"}, "cpu_starvation", 75, "cordon_node"),
       Pattern({"oom_kill"}, "memory_pressure", 80, "patch_resource_limits"),
       Pattern({}, "unknown", 50, "investigate_node") >>

SignalCount(incident, s) == Cardinality({i \in DOMAIN incident : s \in incident[i].signals})

\* Mutation: a pattern needs to be on 60% of the pods, rounded down.
PatternMatchesMajority_Down(signals, incident) ==
    \A s \in signals : SignalCount(incident, s) >= (Len(incident) * 6) \div 10

PatternMatchesMajority(signals, incident) ==
    \A s \in signals : SignalCount(incident, s) >= (Len(incident) * 6) \div 10 + 1

MatchedPattern(incident) ==
    LET matching == {i \in DOMAIN RootCausePatterns :
                        PatternMatchesMajority(RootCausePatterns[i].signals, incident)}
    IN RootCausePatterns[CHOOSE i \in matching : \A j \in matching : i <= j]

\* Pods showing at least one signal of the pattern; all, when nothing matched.
PodsMeetingPattern(pattern, incident) ==
    IF pattern.signals = {}
    THEN Len(incident)
    ELSE Cardinality({i \in DOMAIN incident : incident[i].signals \cap pattern.signals # {}})

\* classify(): the confidence is base * fraction, plus 0.10 when the pods share
\* a volume and the disk is blamed; it is counted in 1/(100 * Len(incident)).
Classify(incident, sharedVolumes) ==
    LET pattern == MatchedPattern(incident)
        scaled == pattern.base * PodsMeetingPattern(pattern, incident)
        boosted == IF sharedVolumes # {} /\ pattern.cause = "degraded_disk"
                   THEN scaled + 10 * Len(incident) ELSE scaled
        one == 100 * Len(incident)
    IN [cause |-> pattern.cause, action |-> pattern.action, about |-> incident, node |-> incident[1].name,
        confidence |-> IF boosted > one THEN one ELSE boosted]
=============================================================================
