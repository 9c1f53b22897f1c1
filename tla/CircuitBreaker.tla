--------------------------- MODULE CircuitBreaker ---------------------------
(***************************************************************************)
(* guardrails.CircuitBreaker (circuit_breaker.go): pauses all healing when *)
(* more than FailurePct percent of the outcomes in the evaluation window   *)
(* are failures.  The history slice is a set of records; the identity of   *)
(* the action an outcome belongs to keeps equal outcomes apart.            *)
(***************************************************************************)
EXTENDS Clock, FiniteSets

CONSTANTS BreakerEnabled,   \* circuit_breaker.enabled
          FailurePct,       \* trigger_on_failure_pct
          EvalWindow,       \* evaluation_window
          PauseDuration     \* pause_duration

ASSUME BreakerAssumption ==
    /\ BreakerEnabled \in BOOLEAN
    /\ FailurePct \in Nat
    /\ EvalWindow \in Nat \ {0}
    /\ PauseDuration \in Nat \ {0}

VARIABLES cbHistory,        \* outcomes recorded
          cbOpen,           \* isOpen
          cbTrippedAt       \* trippedAt

cbVars == <<cbHistory, cbOpen, cbTrippedAt>>

BreakerInit ==
    /\ cbHistory = {}
    /\ cbOpen = FALSE
    /\ cbTrippedAt = NoTime

\* A restarted process: the breaker lives in memory.
BreakerReset ==
    /\ cbHistory' = {}
    /\ cbOpen' = FALSE
    /\ cbTrippedAt' = NoTime

PauseOver == now - cbTrippedAt >= PauseDuration

\* Mutation: an open breaker lets everything through.
BreakerAllow_Open == UNCHANGED cbVars

\* Allow() returning true.  An open breaker whose pause has elapsed is closed
\* on the way, and its history forgotten.
BreakerAllow ==
    /\ BreakerEnabled /\ cbOpen => PauseOver
    /\ cbOpen' = IF BreakerEnabled THEN FALSE ELSE cbOpen
    /\ cbHistory' = IF BreakerEnabled /\ cbOpen THEN {} ELSE cbHistory
    /\ UNCHANGED cbTrippedAt

\* Allow() returning false.
BreakerRefuse ==
    /\ BreakerEnabled
    /\ cbOpen
    /\ ~PauseOver
    /\ UNCHANGED cbVars

\* record(): prune the evaluation window, then append.
Recorded(id, ok) ==
    {r \in cbHistory : r.at > now - EvalWindow}
        \cup {[id |-> id, at |-> now, success |-> ok]}

\* maybeTrip()'s integer percentage, and the two conditions for a trip.
FailureRate(hist) ==
    (Cardinality({r \in hist : ~r.success}) * 100) \div Cardinality(hist)
Trips(hist) == Cardinality(hist) >= 2 /\ FailureRate(hist) > FailurePct

RecordSuccess(id) ==
    /\ cbHistory' = IF BreakerEnabled THEN Recorded(id, TRUE) ELSE cbHistory
    /\ UNCHANGED <<cbOpen, cbTrippedAt>>

\* A failure may trip the breaker, and may trip an open one again, which
\* restarts the pause.
RecordFailure(id) ==
    IF BreakerEnabled
    THEN LET hist == Recorded(id, FALSE) IN
         /\ cbHistory' = hist
         /\ cbOpen' = (cbOpen \/ Trips(hist))
         /\ cbTrippedAt' = IF Trips(hist) THEN now ELSE cbTrippedAt
    ELSE UNCHANGED cbVars
=============================================================================
