----------------------------- MODULE RateLimiter -----------------------------
(***************************************************************************)
(* guardrails.GlobalRateLimiter (ratelimit.go): one token per MinInterval  *)
(* for the whole cluster.  Allow() consumes the token when it grants it,   *)
(* whatever becomes of the request afterwards.                             *)
(***************************************************************************)
EXTENDS Clock

CONSTANT MinInterval        \* 10s in NewReconciler

ASSUME MinIntervalAssumption == MinInterval \in Nat \ {0}

VARIABLE lastToken          \* GlobalRateLimiter.lastAction

RateLimiterInit == lastToken = NoTime
\* A restarted process: the limiter lives in memory.
RateLimiterReset == lastToken' = NoTime

\* Mutation: the interval is one unit short.
TokenAvailable_Early == lastToken = NoTime \/ now - lastToken >= MinInterval - 1

TokenAvailable == lastToken = NoTime \/ now - lastToken >= MinInterval

\* What TokenAvailable amounts to at instant t, if no token is taken until then.
TokenAvailableAt(t) == lastToken = NoTime \/ t - lastToken >= MinInterval

\* Allow() returning true: the token is consumed.
TakeToken ==
    /\ TokenAvailable
    /\ lastToken' = now

\* Allow() returning false: nothing is recorded.
RefuseToken ==
    /\ ~TokenAvailable
    /\ UNCHANGED lastToken

\* TimeUntilNext(): what the refused caller is told to wait.
TokenWait == IF lastToken = NoTime \/ now - lastToken >= MinInterval
             THEN 0 ELSE MinInterval - (now - lastToken)
=============================================================================
