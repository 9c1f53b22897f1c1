----------------------------- MODULE MCAnalyzer -----------------------------
(* Instances of the analyzer for TLC. *)
EXTENDS Analyzer, TLC

CONSTANTS r1, r2, p1, p2, m1, m2, m3,
          Namesakes     \* do p1 and p2 have the same name, in two namespaces?

Rule(id, m, op, v, w, base, a) ==
    [id |-> id, metric |-> m, op |-> op, value |-> v, window |-> w, base |-> base,
     action |-> a, enabled |-> id # "off"]

\* Two correlated rules on m1 with different windows; on m2 one that is too weak
\* alone, one whose window string is invalid, and one that fires on low values; on
\* m3 a disabled rule only.
MCRules ==
    << Rule("hot", m1, ">", 1, 1, 190, "restart_pod"),
       Rule("warm", m1, ">=", 2, 2, 150, "reschedule_pod"),
       Rule("faults", m2, ">", 1, 1, 130, "restart_pod"),
       Rule("late", m2, ">", 2, BadWindow, 190, "restart_pod"),
       Rule("idle", m2, "<", 2, 2, 170, "reschedule_pod"),
       Rule("off", m3, ">", 1, 1, 190, "cordon_node") >>
MCCorrelations == << [signals |-> {"hot", "warm"}, boost |-> 40] >>
\* reschedule_pod is left to the default of an action without an entry.
MCDefaultCooldowns == [restart_pod |-> [duration |-> 1, maxPerHour |-> 2]]
MCNameOf == [p \in Pods |-> IF p = p1 \/ Namesakes THEN "web" ELSE "db"]
MCPenalty == -20

\* Sound when the two pods have the same name.
NamesakeSymmetry == Permutations({p1, p2})
=============================================================================
