----------------------------- MODULE Escalation -----------------------------
(***************************************************************************)
(* controller.EscalationManager (escalation.go): one healing ladder per    *)
(* (pod, anomaly type).  Each sync.Map operation is atomic, but NextAction *)
(* is a Load followed by a Store and Purge a Range visit followed by a     *)
(* Delete, so other goroutines' writes fall in between.                    *)
(***************************************************************************)
EXTENDS Clock, Workload

CONSTANTS MaxRestartAttempts,      \* 3 in NextAction
          MaxRescheduleAttempts,   \* 2 in NextAction
          PurgeAge                 \* Purge(2h) in Reconciler.Run

ASSUME EscalationAssumption ==
    /\ MaxRestartAttempts \in Nat \ {0}
    /\ MaxRescheduleAttempts \in Nat \ {0}
    /\ PurgeAge \in Nat

\* escalationKey.  Its pod field is whatever name the caller passes: the
\* observer passes the action's target, which for a cordon is a node.
Contexts == Pods \X Types
EscalationKeys == (Pods \cup Nodes) \X Types

LadderStates == {"OBSERVING", "ACTION_TAKEN", "ESCALATING", "NODE_SUSPECT",
                 "MANUAL", "RESOLVED"}
LadderActions == {"none", "restart_pod", "reschedule_pod", "cordon_node", "manual"}

EscalationEntry ==
    [state : LadderStates, action : LadderActions, attempt : Nat,
     updatedAt : MaybeInstants]

\* What a Load of an absent key amounts to.  OBSERVING is never stored, so an
\* entry is absent exactly when its state is OBSERVING.
NoEntry == [state |-> "OBSERVING", action |-> "restart_pod", attempt |-> 0,
            updatedAt |-> NoTime]

VARIABLES esc,              \* EscalationManager.entries
          purging           \* the key Purge has found stale and not yet deleted

escVars == <<esc, purging>>

EmptyLadders == [c \in EscalationKeys |-> NoEntry]

EscalationInit == esc = EmptyLadders /\ purging = {}
\* A restarted process: the entries live in memory.
EscalationReset == esc' = EmptyLadders /\ purging' = {}

\* A rung of the ladder.  updatedAt is only ever read of a RESOLVED entry, so
\* only those carry it.
Rung(s, a, n) == [state |-> s, action |-> a, attempt |-> n, updatedAt |-> NoTime]

\* The switch of NextAction: the rung after the loaded entry e.  Its branch
\* for ACTION_TAKEN with a reschedule is dead code: only a restart is stored
\* with that state.
NextRung(e) ==
    CASE e.state \in {"OBSERVING", "RESOLVED"} ->
            Rung("ACTION_TAKEN", "restart_pod", 1)
      [] e.state = "ACTION_TAKEN" /\ e.attempt < MaxRestartAttempts ->
            Rung("ACTION_TAKEN", "restart_pod", e.attempt + 1)
      [] e.state = "ACTION_TAKEN" /\ e.attempt >= MaxRestartAttempts ->
            Rung("ESCALATING", "reschedule_pod", 1)
      [] e.state = "ESCALATING" /\ e.attempt < MaxRescheduleAttempts ->
            Rung("ESCALATING", "reschedule_pod", e.attempt + 1)
      [] e.state = "ESCALATING" /\ e.attempt >= MaxRescheduleAttempts ->
            Rung("NODE_SUSPECT", "cordon_node", 1)
      [] e.state = "NODE_SUSPECT" ->
            Rung("MANUAL", "manual", 0)
      [] OTHER -> e     \* MANUAL: NextAction returns an error and stores nothing

\* Height of an entry on the ladder.
Level(e) ==
    CASE e.state = "ACTION_TAKEN" -> e.attempt
      [] e.state = "ESCALATING" -> MaxRestartAttempts + e.attempt
      [] e.state = "NODE_SUSPECT" -> MaxRestartAttempts + MaxRescheduleAttempts + 1
      [] e.state = "MANUAL" -> MaxRestartAttempts + MaxRescheduleAttempts + 2
      [] OTHER -> 0

IsManual(c) == esc[c].state = "MANUAL"

\* NextAction's Store of the rung computed from the entry it loaded earlier.
StoreNext(c, loaded) ==
    /\ esc' = [esc EXCEPT ![c] = NextRung(loaded)]
    /\ UNCHANGED purging

ResolvedEntry == [state |-> "RESOLVED", action |-> "none", attempt |-> 0,
                  updatedAt |-> now]

MarkResolved(c) ==
    /\ esc' = [esc EXCEPT ![c] = ResolvedEntry]
    /\ UNCHANGED purging

\* Purge's Range visits c and finds a stale resolved entry.
PurgeVisit(c) ==
    /\ esc[c].state = "RESOLVED"
    /\ esc[c].updatedAt < now - PurgeAge
    /\ purging = {}
    /\ purging' = {c}
    /\ UNCHANGED esc

\* Purge deletes the key it visited, whatever it now holds.
PurgeDelete(c) ==
    /\ c \in purging
    /\ purging' = {}
    /\ esc' = [esc EXCEPT ![c] = NoEntry]
=============================================================================
