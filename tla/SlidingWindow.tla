--------------------------- MODULE SlidingWindow ---------------------------
(***************************************************************************)
(* analyzer.Window (window.go): the samples of one (pod, metric) in the    *)
(* order they were recorded.  The ring buffer is a sequence.               *)
(***************************************************************************)
EXTENDS Integers, Sequences, FiniteSetsExt

CONSTANT Capacity           \* defaultWindowCapacity

ASSUME CapacityAssumption == Capacity \in Nat \ {0}

NewWindow(d) == [duration |-> d, samples |-> <<>>]

\* Mutation: eviction stops one sample too late, at the first kept one.
FreshFrom_Late(samples, cutoff) ==
    1 + CHOOSE i \in 1 .. Len(samples) : /\ samples[i].t >= cutoff
                                         /\ \A j \in 1 .. i - 1 : samples[j].t < cutoff

\* Where eviction from the front stops: at the first sample not older than the
\* cutoff.  The sample just recorded is one.
FreshFrom(samples, cutoff) ==
    CHOOSE i \in 1 .. Len(samples) : /\ samples[i].t >= cutoff
                                     /\ \A j \in 1 .. i - 1 : samples[j].t < cutoff

\* The newest Capacity samples.
Capped(samples) ==
    IF Len(samples) > Capacity
    THEN SubSeq(samples, Len(samples) - Capacity + 1, Len(samples))
    ELSE samples

\* Window.Record(v, t): append, evict from the front, cap.
RecordOne(w, s) ==
    LET all == Append(w.samples, s)
    IN [w EXCEPT !.samples =
           Capped(SubSeq(all, FreshFrom(all, s.t - w.duration), Len(all)))]

\* The window after n records of one signal.
WindowRecord(w, s, n) ==
    LET rec[i \in 0 .. n] == IF i = 0 THEN w ELSE RecordOne(rec[i - 1], s)
    IN rec[n]

\* Sum(): the samples are added up in their order.
WindowSum(w) ==
    LET sum[i \in 0 .. Len(w.samples)] == IF i = 0 THEN 0 ELSE sum[i - 1] + w.samples[i].v
    IN sum[Len(w.samples)]
WindowCount(w) == Len(w.samples)
=============================================================================
