-------------------------- MODULE NodeHealthScorer --------------------------
(***************************************************************************)
(* intelligence.NodeHealthScorer (scorer.go): counters per node name.      *)
(* Writers hold the lock exclusively; Score and AllScores hold it shared,  *)
(* but computeScore prunes the timestamps in place, so a reader's loop is  *)
(* one step per element here.  `stamps' is the backing array of            *)
(* anomalyTimestamps and `len' the length in the slice header.  The        *)
(* reasoner's handler records anomalies (Aggregator), at any time; nothing *)
(* of the aggregator depends on the scores.                                *)
(***************************************************************************)
EXTENDS Clock, Subsequences

CONSTANTS Names,        \* node names, the empty one included
          MaxAnomalies, \* bound on the anomalies of a node
          Readers,      \* goroutines that ask for scores
          ScoreHour,    \* one hour
          QuietPeriod,  \* 15 minutes
          MaxEscalated  \* bound on the escalations of a node

ASSUME ScorerAssumption ==
    /\ ScoreHour \in Nat \ {0} /\ QuietPeriod \in Nat
    /\ MaxEscalated \in Nat /\ MaxAnomalies \in Nat

VARIABLES stats,        \* Names -> nodeStats
          scan,         \* Readers -> the loop of computeScore
          made          \* history: instants of the anomalies of each name

scorerVars == <<stats, scan, made>>

NoStats == [total |-> 0, unresolved |-> 0, escalated |-> 0,
            stamps |-> <<>>, len |-> 0, updated |-> NoTime]
NotScanning == [on |-> FALSE]

ScorerInit ==
    /\ stats = [n \in Names |-> NoStats]
    /\ scan = [r \in Readers |-> NotScanning]
    /\ made = [n \in Names |-> <<>>]

Stamps(s) == SubSeq(s.stamps, 1, s.len)
Recent(seq) == Picked(seq, {i \in DOMAIN seq : seq[i] > now - ScoreHour})

\* The pruning in computeScore, under the exclusive lock.
Pruned(s) == [s EXCEPT !.stamps = Recent(Stamps(s)), !.len = Len(Recent(Stamps(s)))]

NoReader == \A r \in Readers : ~scan[r].on

OneMore(s) ==
    [s EXCEPT !.total = @ + 1, !.unresolved = @ + 1, !.updated = now,
              !.stamps = Append(Stamps(s), now), !.len = @ + 1]

\* Mutation: the lock is not taken.
RecordAnomaly_Unlocked(n) ==
    /\ Len(made[n]) < MaxAnomalies
    /\ stats' = [stats EXCEPT ![n] = Pruned(OneMore(@))]
    /\ made' = [made EXCEPT ![n] = Append(@, now)]
    /\ UNCHANGED <<now, scan>>

RecordAnomaly(n) ==
    /\ NoReader
    /\ Len(made[n]) < MaxAnomalies
    /\ stats' = [stats EXCEPT ![n] = Pruned(OneMore(@))]
    /\ made' = [made EXCEPT ![n] = Append(@, now)]
    /\ UNCHANGED <<now, scan>>

Less(k) == IF k > 0 THEN k - 1 ELSE 0

Settled(s, outcome) ==
    [s EXCEPT !.unresolved = IF outcome = "failed" THEN @ ELSE Less(@),
              !.escalated = IF outcome = "escalated" THEN @ + 1 ELSE @,
              !.updated = now]

RecordOutcome(n, outcome) ==
    /\ NoReader
    /\ outcome = "escalated" => stats[n].escalated < MaxEscalated
    /\ stats' = [stats EXCEPT ![n] = Pruned(Settled(@, outcome))]
    /\ UNCHANGED <<now, scan, made>>

\* Mutation: the count of unresolved anomalies may go below zero.
Decayed_Unguarded(s) ==
    IF s.updated < now - QuietPeriod THEN [s EXCEPT !.unresolved = @ - 1] ELSE s

Decayed(s) ==
    IF s.updated < now - QuietPeriod THEN [s EXCEPT !.unresolved = Less(@)] ELSE s

DecayAll ==
    /\ NoReader
    /\ stats' = [n \in Names |->
          IF stats[n].updated = NoTime THEN stats[n] ELSE Pruned(Decayed(stats[n]))]
    /\ UNCHANGED <<now, scan, made>>

\* Score(n), or AllScores reaching n: the slice header and the cutoff are read.
ScanStart(r, n) ==
    /\ ~scan[r].on
    /\ stats[n].updated # NoTime
    /\ scan' = [scan EXCEPT ![r] =
          [on |-> TRUE, node |-> n, cutoff |-> now - ScoreHour, len |-> stats[n].len,
           i |-> 1, kept |-> 0]]
    /\ UNCHANGED <<now, stats, made>>

\* One iteration: an element young enough is moved to the end of the kept ones.
ScanElement(r) ==
    /\ scan[r].on
    /\ scan[r].i <= scan[r].len
    /\ LET s == scan[r]
           t == stats[s.node].stamps[s.i]
       IN IF t > s.cutoff
          THEN /\ stats' = [stats EXCEPT ![s.node].stamps[s.kept + 1] = t]
               /\ scan' = [scan EXCEPT ![r].i = @ + 1, ![r].kept = @ + 1]
          ELSE /\ scan' = [scan EXCEPT ![r].i = @ + 1]
               /\ UNCHANGED stats
    /\ UNCHANGED <<now, made>>

\* ns.anomalyTimestamps = fresh; the score follows from its length.
ScanEnd(r) ==
    /\ scan[r].on
    /\ scan[r].i > scan[r].len
    /\ stats' = [stats EXCEPT ![scan[r].node].len = scan[r].kept]
    /\ scan' = [scan EXCEPT ![r] = NotScanning]
    /\ UNCHANGED <<now, made>>

ScorerNext ==
    \/ \E n \in Names : RecordAnomaly(n)
    \/ \E n \in Names, o \in {"resolved", "escalated", "failed"} : RecordOutcome(n, o)
    \/ DecayAll
    \/ \E r \in Readers : (\E n \in Names : ScanStart(r, n)) \/ ScanElement(r) \/ ScanEnd(r)
    \/ Tick /\ UNCHANGED scorerVars

-----------------------------------------------------------------------------
(* Properties.                                                             *)

\* The types of the state: however outcomes and decays are interleaved with
\* anomalies, a node has between none and all of them unresolved, and the slice
\* stays within its array.
ScorerTypeOK ==
    /\ \A n \in Names :
        /\ stats[n].unresolved \in 0 .. stats[n].total
        /\ stats[n].escalated \in Nat
        /\ stats[n].updated \in MaybeInstants
        /\ stats[n].len \in 0 .. Len(stats[n].stamps)
        /\ stats[n].stamps \in Seq(Instants)

\* computeScore is "safe to call under RLock": when no reader is in the middle
\* of its loop, the timestamps kept for a node, leaving out expired ones, are
\* those of its anomalies, each once.
StampsExact ==
    NoReader => \A n \in Names : Recent(Stamps(stats[n])) = Recent(made[n])
\* What readers do to the array of a node while they prune it under a shared lock
\* may drop or repeat timestamps (StampsExact), but each one in it stays the
\* instant of an anomaly of that node.
StampsGenuine ==
    \A n \in Names : \A i \in DOMAIN stats[n].stamps :
        \E j \in DOMAIN made[n] : made[n][j] = stats[n].stamps[i]
=============================================================================
