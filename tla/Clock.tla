-------------------------------- MODULE Clock --------------------------------
(***************************************************************************)
(* Wall-clock time as the guardrails read it through time.Now() and        *)
(* time.Since().  Time is discrete: one unit stands for whatever interval  *)
(* the durations of a configuration are multiples of.                      *)
(***************************************************************************)
EXTENDS Integers

CONSTANT MaxTime    \* horizon of a behaviour; bounds the clock

ASSUME MaxTimeAssumption == MaxTime \in Nat

VARIABLE now

\* Go's zero time.Time: "never".  Every real instant is a natural number.
NoTime == -1

Instants == Nat
MaybeInstants == Nat \cup {NoTime}

ClockInit == now = 0

\* Time passes whatever the program is doing: between any two statements of
\* any goroutine, and while an API call is outstanding.
Tick ==
    /\ now < MaxTime
    /\ now' = now + 1
=============================================================================
