---------------------------- MODULE Intelligence ----------------------------
(***************************************************************************)
(* The services of internal/intelligence.  Its goroutines meet only in the *)
(* locks of the aggregator, of the graph and of the scorer, and nothing    *)
(* the aggregator or the reasoner does depends on a score, while the       *)
(* scorer takes anomalies at any time.  So a behaviour follows one part:   *)
(* the aggregator with its graph, or the scores.                           *)
(***************************************************************************)
EXTENDS Aggregator, NodeHealthScorer

CONSTANT Parts          \* the parts followed

ASSUME PartsAssumption == Parts \subseteq {"aggregator", "scores"}

VARIABLE part           \* the part this behaviour follows

vars == <<aggregatorVars, scorerVars, part>>

Init == part \in Parts /\ AggregatorInit /\ ScorerInit

Analysis == part = "aggregator" /\ AggregatorNext /\ UNCHANGED <<scorerVars, part>>

Scoring == part = "scores" /\ ScorerNext /\ UNCHANGED <<graphVars, aggVars, part>>

Next == Analysis \/ Scoring

Spec == Init /\ [][Next]_vars

\* The types of the whole state.
TypeOK == AggregatorTypeOK /\ ScorerTypeOK
=============================================================================
