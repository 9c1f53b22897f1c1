--------------------------- MODULE CollectorProofs ---------------------------
(***************************************************************************)
(* Proofs about the resolver's history and the collectors' deltas, for any *)
(* number of cgroups, refreshing goroutines and readings, and any limits.  *)
(***************************************************************************)
EXTENDS StatCollectors, FiniteSetTheorems, TLAPS

-----------------------------------------------------------------------------
(* The history.  HistoryDated is inductive with the bound on what it can   *)
(* hold, from which the history is finite.                                 *)

HistoryInv ==
    /\ cache \subseteq Ids /\ history \subseteq Ids
    /\ walk \in [Walkers -> [at : Nat, fresh : SUBSET Ids, old : BOOLEAN]]
    /\ HistoryDated

\* The directories of a walk are finitely many.
LEMMA IdsFinite == IsFiniteSet(Ids)
<1>1. Dirs \in [1 .. Len(Dirs) -> Ids] /\ Len(Dirs) \in Nat
  BY ResolverAssumption
<1>2. IsFiniteSet(1 .. Len(Dirs))
  BY <1>1, FS_Interval
<1>3. Dirs \in Surjection(1 .. Len(Dirs), Ids)
  BY <1>1 DEF Ids, Range, Surjection
<1> QED
  BY <1>2, <1>3, FS_Surjection

\* A history that gave up its victims is within the limit.
LEMMA VictimsFit ==
    ASSUME NEW hist, NEW v \in Victims(hist)
    PROVE  Cardinality(hist \ v) <= MaxHistory
<1>1. CASE Cardinality(hist) <= MaxHistory
  <2>1. v = {} /\ hist \ v = hist
    BY <1>1 DEF Victims
  <2> QED
    BY <1>1, <2>1
<1>2. CASE ~(Cardinality(hist) <= MaxHistory)
  BY <1>2, ResolverAssumption DEF Victims
<1> QED
  BY <1>1, <1>2

\* The locked part of refresh keeps the dates: an entry that moves to the
\* history gets one and an entry that is back in the table loses it.
LEMMA ApplyWalkDates ==
    ASSUME HistoryInv, NEW w \in Walkers, ApplyWalk(w)
    PROVE  HistoryInv'
<1> DEFINE fresh == walk[w].fresh
           gone  == cache \ fresh
<1>1. PICK v \in Victims(history \cup gone) :
          /\ history' = (history \cup gone) \ v
          /\ DOMAIN deletedAt' = ((DOMAIN deletedAt \cup gone) \ fresh) \ v
  BY DEF ApplyWalk
<1>2. cache' = fresh /\ fresh \subseteq Ids
  BY DEF ApplyWalk, HistoryInv
<1>3. Cardinality(history') <= MaxHistory
  BY <1>1, VictimsFit
<1>4. DOMAIN deletedAt' \subseteq history' \ cache'
  BY <1>1, <1>2 DEF HistoryInv, HistoryDated
<1>5. history' \ DOMAIN deletedAt' \subseteq cache'
  BY <1>1, <1>2 DEF HistoryInv, HistoryDated
<1>6. walk' \in [Walkers -> [at : Nat, fresh : SUBSET Ids, old : BOOLEAN]]
  BY DEF ApplyWalk, HistoryInv, NoWalk
<1>7. cache' \subseteq Ids /\ history' \subseteq Ids
  BY <1>1, <1>2 DEF HistoryInv
<1> QED
  BY <1>3, <1>4, <1>5, <1>6, <1>7 DEF HistoryInv, HistoryDated

\* evictStaleEntries takes an entry and its date away together.
LEMMA EvictDates ==
    ASSUME HistoryInv, EvictStaleEntries
    PROVE  HistoryInv'
<1> DEFINE expired == {i \in DOMAIN deletedAt : deletedAt[i] >= TTL}
<1>1. /\ history' = history \ expired
      /\ DOMAIN deletedAt' = DOMAIN deletedAt \ expired
      /\ UNCHANGED <<cache, walk>>
  BY DEF EvictStaleEntries, Restrict
<1>2. IsFiniteSet(history)
  BY IdsFinite, FS_Subset DEF HistoryInv
<1>3. Cardinality(history') <= Cardinality(history)
  BY <1>1, <1>2, FS_Subset
<1>4. /\ Cardinality(history) \in Nat /\ Cardinality(history') \in Nat
      /\ Cardinality(history) <= MaxHistory /\ MaxHistory \in Nat
  BY <1>1, <1>2, FS_Subset, FS_CardinalityType, ResolverAssumption DEF HistoryInv, HistoryDated
<1>5. Cardinality(history') <= MaxHistory
  BY <1>3, <1>4
<1> QED
  BY <1>1, <1>5 DEF HistoryInv, HistoryDated

\* Time only makes dates older.
LEMMA PeriodDates ==
    ASSUME HistoryInv, NextPeriod
    PROVE  HistoryInv'
<1>1. DOMAIN deletedAt' = DOMAIN deletedAt /\ UNCHANGED <<cache, history>>
  BY DEF NextPeriod
<1>2. walk' \in [Walkers -> [at : Nat, fresh : SUBSET Ids, old : BOOLEAN]]
  <2> SUFFICES ASSUME NEW w \in Walkers
               PROVE  [walk[w] EXCEPT !.old = walk[w].at > 0]
                          \in [at : Nat, fresh : SUBSET Ids, old : BOOLEAN]
    BY DEF NextPeriod
  <2> DEFINE old == walk[w].at > 0
  <2>1. old \in BOOLEAN
    OBVIOUS
  <2>2. walk[w] \in [at : Nat, fresh : SUBSET Ids, old : BOOLEAN]
    BY DEF HistoryInv
  <2> HIDE DEF old
  <2>3. [walk[w] EXCEPT !.old = old] \in [at : Nat, fresh : SUBSET Ids, old : BOOLEAN]
    BY <2>1, <2>2
  <2> QED
    BY <2>3 DEF old
<1> QED
  BY <1>1, <1>2 DEF HistoryInv, HistoryDated

\* A step that only walks leaves the table and the history alone.
LEMMA WalkingDates ==
    ASSUME HistoryInv, UNCHANGED <<cache, history, deletedAt>>, NEW w \in Walkers,
           NEW x \in [at : Nat, fresh : SUBSET Ids, old : BOOLEAN],
           walk' = [walk EXCEPT ![w] = x]
    PROVE  HistoryInv'
<1>1. walk' \in [Walkers -> [at : Nat, fresh : SUBSET Ids, old : BOOLEAN]]
  BY DEF HistoryInv
<1> QED
  BY <1>1 DEF HistoryInv, HistoryDated

LEMMA HistoryStep == HistoryInv /\ [Next]_vars => HistoryInv'
<1> SUFFICES ASSUME HistoryInv, [Next]_vars
             PROVE  HistoryInv'
  OBVIOUS
<1>a. Background \in Walkers /\ Poller \in Walkers
  BY ResolverAssumption, CollectorAssumption
<1>b. Begun \in [at : Nat, fresh : SUBSET Ids, old : BOOLEAN]
  BY DEF Begun
<1>1. ASSUME UNCHANGED resolverVars
      PROVE  HistoryInv'
  BY <1>1 DEF HistoryInv, HistoryDated, resolverVars
<1>2. ASSUME NEW i \in Ids, StartCgroup(i) \/ EndCgroup(i)
      PROVE  HistoryInv'
  BY <1>2 DEF StartCgroup, EndCgroup, HistoryInv, HistoryDated
<1>3. CASE BackgroundRefresh
  BY <1>3, <1>a, <1>b, WalkingDates DEF BackgroundRefresh, BeginWalk
<1>4. CASE GoStale
  BY <1>4 DEF GoStale, HistoryInv, HistoryDated
<1>5. ASSUME NEW w \in Walkers, SkipDir(w)
      PROVE  HistoryInv'
  <2>1. [walk[w] EXCEPT !.at = @ + 1] \in [at : Nat, fresh : SUBSET Ids, old : BOOLEAN]
    BY DEF HistoryInv
  <2> QED
    BY <1>5, <2>1, WalkingDates DEF SkipDir
<1>6. ASSUME NEW w \in Walkers, VisitDir(w)
      PROVE  HistoryInv'
  <2>1. Dirs[walk[w].at] \in Ids
    BY <1>6, ResolverAssumption DEF VisitDir
  <2> DEFINE fresh == IF Dirs[walk[w].at] \in live
                      THEN walk[w].fresh \cup {Dirs[walk[w].at]} ELSE walk[w].fresh
             moved == [walk[w] EXCEPT !.at = walk[w].at + 1]
             next == [moved EXCEPT !.fresh = fresh]
  <2>2. walk[w] \in [at : Nat, fresh : SUBSET Ids, old : BOOLEAN]
    BY DEF HistoryInv
  <2>3. fresh \subseteq Ids
    BY <2>1, <2>2
  <2>4. walk' = [walk EXCEPT ![w] = next]
    BY <1>6 DEF VisitDir
  <2> HIDE DEF fresh
  <2>5. moved \in [at : Nat, fresh : SUBSET Ids, old : BOOLEAN]
    BY <2>2
  <2> HIDE DEF moved
  <2>6. next \in [at : Nat, fresh : SUBSET Ids, old : BOOLEAN]
    BY <2>3, <2>5
  <2> QED
    BY <1>6, <2>4, <2>6, WalkingDates DEF VisitDir
<1>7. ASSUME NEW i \in Ids, NextEntry(i)
      PROVE  HistoryInv'
  <2>1. CASE UNCHANGED resolverVars
    BY <1>1, <2>1
  <2>2. CASE BeginWalk(Poller) /\ UNCHANGED <<cache, history, deletedAt>>
    BY <2>2, <1>a, <1>b, WalkingDates DEF BeginWalk
  <2> QED
    BY <1>7, <2>1, <2>2 DEF NextEntry
<1>8. CASE LookupAgain \/ BeginCollect \/ Collected \/ Abort \/ \E i \in Ids : Work(i)
  BY <1>1, <1>8 DEF LookupAgain, BeginCollect, Collected, CpuCollect, MemoryCollect,
        IoCollect, NetworkCollect, SyscallCollect, Finish, Abort, Work
<1>9. CASE UNCHANGED vars
  BY <1>1, <1>9 DEF vars
<1> QED
  BY <1>2, <1>3, <1>4, <1>5, <1>6, <1>7, <1>8, <1>9, ApplyWalkDates, EvictDates, PeriodDates
     DEF Next, ResolverNext, WalkStep, PollStep

LEMMA HistoryStart == Init => HistoryInv
<1> SUFFICES ASSUME Init PROVE HistoryInv
  OBVIOUS
<1>1. Cardinality({}) = 0
  BY FS_EmptySet
<1>2. walk \in [Walkers -> [at : Nat, fresh : SUBSET Ids, old : BOOLEAN]]
  BY DEF Init, NewResolver, NoWalk
<1> QED
  BY <1>1, <1>2, ResolverAssumption DEF Init, NewResolver, HistoryInv, HistoryDated

\* Every entry of the resolver's history can expire, and the history stays
\* within its limit, for any number of cgroups and goroutines that refresh.
THEOREM HistoryExpires == Spec => []HistoryDated
<1>1. HistoryInv => HistoryDated
  BY DEF HistoryInv
<1> QED
  BY HistoryStart, HistoryStep, <1>1, PTL DEF Spec
-----------------------------------------------------------------------------
(* The deltas.  What a reading and the kernel's counter differ by is what  *)
(* the cgroup did in between, for the readings of the last collection, for *)
(* the samples of this one and for the entry that is being looked up.      *)

Reading(i, val, at) ==
    /\ val \in Nat /\ at \in Nat
    /\ val <= kern[i] /\ kern[i] + at = done[i] + val

\* No cgroup is both a sample and to be removed, nor visited twice.
Disjoint ==
    /\ todo \subseteq DOMAIN kern /\ DOMAIN samples \subseteq DOMAIN kern
    /\ todo \cap (DOMAIN samples \cup toDelete) = {}
    /\ toDelete \cap DOMAIN samples = {}
    /\ pc = "idle" => DOMAIN samples = {} /\ toDelete = {}
    /\ pc = "lookup" => /\ entry.id \in DOMAIN kern
                        /\ entry.id \notin todo \cup DOMAIN samples \cup toDelete

PrevInv ==
    /\ DOMAIN prev \subseteq DOMAIN kern \cap DOMAIN reported
    /\ \A i \in DOMAIN prev : Reading(i, prev[i], reported[i])

SamplesInv ==
    /\ \A i \in DOMAIN samples :
          /\ Reading(i, samples[i].val, samples[i].done)
          /\ i \in DOMAIN prev => prev[i] <= samples[i].val
    /\ pc = "lookup" =>
          /\ Reading(entry.id, entry.val, entry.done)
          /\ entry.id \in DOMAIN prev => prev[entry.id] <= entry.val

DeltaInv ==
    /\ DOMAIN kern \subseteq Ids
    /\ kern \in [DOMAIN kern -> Nat] /\ done \in [Ids -> Nat]
    /\ kind \in {"network", "syscall"} => prev = Empty
    /\ Disjoint /\ PrevInv /\ SamplesInv

\* Work counts alike in the kernel's map and in the history.
LEMMA WorkDelta ==
    ASSUME DeltaInv, NEW i \in Ids, Work(i)
    PROVE  DeltaInv'
<1>1. /\ DOMAIN kern' = DOMAIN kern \cup {i}
      /\ \A j \in DOMAIN kern \ {i} : kern'[j] = kern[j] /\ done'[j] = done[j]
      /\ i \in DOMAIN kern => kern'[i] = kern[i] + 1
      /\ i \notin DOMAIN kern => kern'[i] = 1
      /\ done' \in [Ids -> Nat] /\ done'[i] = done[i] + 1
      /\ kern' \in [DOMAIN kern' -> Nat]
  BY DEF Work, DeltaInv
<1>2. UNCHANGED <<kind, pc, todo, entry, samples, toDelete, prev, reported>>
  BY DEF Work
<1>3. ASSUME NEW j \in DOMAIN kern, NEW v, NEW a, Reading(j, v, a)
      PROVE  Reading(j, v, a)'
  <2>1. kern[j] \in Nat /\ done[j] \in Nat
    BY DEF DeltaInv
  <2>2. CASE j = i
    BY <1>1, <1>3, <2>1, <2>2 DEF Reading
  <2>3. CASE j # i
    BY <1>1, <1>3, <2>1, <2>3 DEF Reading
  <2> QED
    BY <2>2, <2>3
<1>4. PrevInv'
  BY <1>1, <1>2, <1>3 DEF DeltaInv, PrevInv
<1>5. SamplesInv'
  BY <1>1, <1>2, <1>3 DEF DeltaInv, SamplesInv, Disjoint
<1>6. Disjoint'
  BY <1>1, <1>2 DEF DeltaInv, Disjoint
<1> QED
  BY <1>1, <1>2, <1>4, <1>5, <1>6 DEF DeltaInv

\* Concluding an entry makes it a sample with its reading, or gives it up.
LEMMA ConcludeDelta ==
    ASSUME DeltaInv, NEW e, e.id \in DOMAIN kern, e.id \notin todo' \cup DOMAIN samples \cup toDelete,
           todo' \subseteq todo, Reading(e.id, e.val, e.done),
           e.id \in DOMAIN prev => prev[e.id] <= e.val,
           Conclude(e), UNCHANGED <<kind, kern, done, prev, reported>>
    PROVE  DeltaInv'
<1>1. pc' = "iterate"
  BY DEF Conclude
<1>2. CASE Sample(e) /\ UNCHANGED toDelete
  <2>1. /\ DOMAIN samples' = DOMAIN samples \cup {e.id}
        /\ samples'[e.id] = [val |-> e.val, done |-> e.done]
        /\ \A j \in DOMAIN samples : samples'[j] = samples[j]
    BY <1>2 DEF Sample
  <2>2. Disjoint'
    BY <1>1, <1>2, <2>1 DEF DeltaInv, Disjoint
  <2>3. SamplesInv'
    BY <1>1, <2>1 DEF DeltaInv, SamplesInv, Reading
  <2> QED
    BY <2>2, <2>3 DEF DeltaInv, PrevInv, Reading
<1>3. CASE toDelete' = toDelete \cup {e.id} /\ UNCHANGED samples
  <2>1. Disjoint'
    BY <1>1, <1>3 DEF DeltaInv, Disjoint
  <2>2. SamplesInv'
    BY <1>1, <1>3 DEF DeltaInv, SamplesInv, Reading
  <2> QED
    BY <2>1, <2>2 DEF DeltaInv, PrevInv, Reading
<1> QED
  BY <1>2, <1>3 DEF Conclude

LEMMA NextEntryDelta ==
    ASSUME DeltaInv, NEW i \in Ids, NextEntry(i)
    PROVE  DeltaInv'
<1>1. /\ i \in todo /\ todo' = todo \ {i} /\ i \in DOMAIN kern
      /\ entry' = [id |-> i, val |-> kern[i], done |-> done[i]]
      /\ i \notin todo' \cup DOMAIN samples \cup toDelete
      /\ UNCHANGED <<kind, kern, done, prev, reported>>
  BY DEF NextEntry, DeltaInv, Disjoint
<1>2. kern[i] \in Nat /\ done[i] \in Nat
  BY <1>1 DEF DeltaInv
<1>3. Reading(i, kern[i], done[i])
  BY <1>2 DEF Reading
<1>4. i \in DOMAIN prev => prev[i] <= kern[i]
  BY DEF DeltaInv, PrevInv, Reading
<1>5. CASE Conclude(entry')
  BY <1>1, <1>3, <1>4, <1>5, ConcludeDelta
<1>6. CASE pc' = "lookup" /\ UNCHANGED <<samples, toDelete>>
  <2>1. Disjoint'
    BY <1>1, <1>6 DEF DeltaInv, Disjoint
  <2>2. SamplesInv'
    BY <1>1, <1>3, <1>4, <1>6 DEF DeltaInv, SamplesInv, Reading
  <2> QED
    BY <1>1, <2>1, <2>2 DEF DeltaInv, PrevInv, Reading
<1> QED
  BY <1>5, <1>6 DEF NextEntry

\* A collection that ends removes no entry it has a sample of.
LEMMA FinishDelta ==
    ASSUME DeltaInv, Collected
    PROVE  DeltaInv'
<1>1. /\ Finish /\ UNCHANGED <<kind, done>>
      /\ \/ prev' = Vals(samples) /\ kind \notin {"network", "syscall"}
         \/ UNCHANGED prev /\ kind \in {"network", "syscall"}
  BY DEF Collected, CpuCollect, MemoryCollect, IoCollect, NetworkCollect, SyscallCollect, Finish
<1>2. /\ DOMAIN kern' = DOMAIN kern \ toDelete
      /\ \A i \in DOMAIN kern' : kern'[i] = kern[i]
      /\ kern' \in [DOMAIN kern' -> Nat]
  BY <1>1 DEF Finish, Restrict, DeltaInv
<1>3. /\ pc' = "idle" /\ todo' = {} /\ DOMAIN samples' = {} /\ toDelete' = {}
      /\ DOMAIN reported' = DOMAIN samples
      /\ \A i \in DOMAIN samples : reported'[i] = samples[i].done
  BY <1>1 DEF Finish, Empty
<1>4. Disjoint' /\ SamplesInv'
  BY <1>3 DEF Disjoint, SamplesInv
<1>5. PrevInv'
  <2>1. CASE prev' = Vals(samples)
    <3>1. DOMAIN prev' = DOMAIN samples /\ \A i \in DOMAIN samples : prev'[i] = samples[i].val
      BY <2>1 DEF Vals
    <3>2. DOMAIN samples \subseteq DOMAIN kern'
      BY <1>2 DEF DeltaInv, Disjoint
    <3> QED
      BY <1>1, <1>2, <1>3, <3>1, <3>2 DEF PrevInv, DeltaInv, SamplesInv, Reading
  <2>2. CASE UNCHANGED prev /\ kind \in {"network", "syscall"}
    <3>1. DOMAIN prev' = {}
      BY <2>2 DEF DeltaInv, Empty
    <3> QED
      BY <3>1 DEF PrevInv
  <2> QED
    BY <1>1, <2>1, <2>2
<1> QED
  BY <1>1, <1>2, <1>4, <1>5 DEF DeltaInv

LEMMA DeltaStep == DeltaInv /\ [Next]_vars => DeltaInv'
<1> SUFFICES ASSUME DeltaInv, [Next]_vars
             PROVE  DeltaInv'
  OBVIOUS
<1>1. ASSUME UNCHANGED collectorVars
      PROVE  DeltaInv'
  BY <1>1 DEF collectorVars, DeltaInv, Disjoint, PrevInv, SamplesInv, Reading
<1>2. CASE BeginCollect
  <2>1. /\ pc = "idle" /\ pc' = "iterate" /\ todo' = DOMAIN kern
        /\ UNCHANGED <<kind, kern, done, entry, samples, toDelete, prev, reported>>
    BY <1>2 DEF BeginCollect
  <2> QED
    BY <2>1 DEF DeltaInv, Disjoint, PrevInv, SamplesInv, Reading
<1>3. CASE LookupAgain
  BY <1>3, ConcludeDelta DEF LookupAgain, DeltaInv, SamplesInv, Disjoint
<1>4. CASE Abort
  <2>1. /\ pc' = "idle" /\ todo' = {} /\ DOMAIN samples' = {} /\ toDelete' = {}
        /\ UNCHANGED <<kind, kern, done, prev, reported>>
    BY <1>4 DEF Abort, Empty
  <2> QED
    BY <2>1 DEF DeltaInv, Disjoint, PrevInv, SamplesInv, Reading
<1>5. CASE UNCHANGED vars
  BY <1>1, <1>5 DEF vars
<1> QED
  BY <1>1, <1>2, <1>3, <1>4, <1>5, WorkDelta, NextEntryDelta, FinishDelta DEF Next, PollStep

LEMMA DeltaStart == Init => DeltaInv
BY DEF Init, DeltaInv, Disjoint, PrevInv, SamplesInv, Empty

\* Every delta that a collection reports, apart from I/O latencies, is what its cgroup
\* did since it was last reported, for any number of cgroups, failures and walks in between.
THEOREM DeltasExact == Spec => DeltaExact
<1>1. DeltaInv /\ [Next]_vars =>
        [Collected => \A i \in DOMAIN samples \cap DOMAIN prev :
            /\ i \in DOMAIN reported
            /\ Delta(samples[i].val, prev[i]) = samples[i].done - reported[i]]_vars
  <2> SUFFICES ASSUME DeltaInv, NEW i \in DOMAIN samples \cap DOMAIN prev
               PROVE  /\ i \in DOMAIN reported
                      /\ Delta(samples[i].val, prev[i]) = samples[i].done - reported[i]
    OBVIOUS
  <2>1. kern[i] \in Nat /\ done[i] \in Nat
    BY DEF DeltaInv, PrevInv
  <2>2. Reading(i, prev[i], reported[i]) /\ Reading(i, samples[i].val, samples[i].done)
    BY DEF DeltaInv, PrevInv, SamplesInv
  <2>3. prev[i] <= samples[i].val
    BY DEF DeltaInv, SamplesInv
  <2> QED
    BY <2>1, <2>2, <2>3 DEF Delta, Reading, DeltaInv, PrevInv
<1> QED
  BY DeltaStart, DeltaStep, <1>1, PTL DEF Spec, DeltaExact

-----------------------------------------------------------------------------
(* Running cgroups stay resolvable.                                        *)

\* A walk that has passed the directory of i found it.
Lists(b, i) == \A j \in DOMAIN Dirs : j < b.at /\ Dirs[j] = i => i \in b.fresh

\* A known cgroup that is out of the table was moved to the history in this period,
\* or in the one before and then the background's refresh of this period is to
\* come and finds it.
Bridged(i) ==
    /\ i \in DOMAIN deletedAt /\ deletedAt[i] \in {0, 1}
    /\ deletedAt[i] = 1 => refreshed = FALSE /\ Lists(walk[Background], i)

\* The background's refresh does not outlast its period, and no walk finds a
\* cgroup before it starts.
KnownInv ==
    /\ known \subseteq (live \cup ended) \cap Ids
    /\ \A w \in Walkers : walk[w].fresh \subseteq live \cup ended
    /\ refreshed = TRUE => walk[Background].at = 0
    /\ \A i \in (live \cap known) \ cache : Bridged(i)

LEMMA ApplyWalkKnown ==
    ASSUME HistoryInv, KnownInv, NEW w \in Walkers, ApplyWalk(w)
    PROVE  KnownInv'
<1> DEFINE fresh == walk[w].fresh
           gone  == cache \ fresh
<1>0. Background \in Walkers /\ walk[w] \in [at : Nat, fresh : SUBSET Ids, old : BOOLEAN]
  BY ResolverAssumption DEF HistoryInv
<1>1. PICK v \in Victims(history \cup gone) :
          /\ deletedAt' = [i \in ((DOMAIN deletedAt \cup gone) \ fresh) \ v |->
                                IF i \in gone THEN 0 ELSE deletedAt[i]]
          /\ known' = (known \ v) \cup fresh
  BY DEF ApplyWalk
<1>2. /\ cache' = fresh /\ fresh \subseteq Ids /\ fresh \subseteq live \cup ended
      /\ UNCHANGED <<live, ended>> /\ walk[w].at = Len(Dirs) + 1
      /\ walk' = [walk EXCEPT ![w] = NoWalk] /\ refreshed' = (refreshed \/ w = Background)
  BY <1>0 DEF ApplyWalk, Walked, KnownInv
<1>3. known' \subseteq (live' \cup ended') \cap Ids
  BY <1>1, <1>2 DEF KnownInv
<1>4. \A u \in Walkers : walk'[u].fresh \subseteq live' \cup ended'
  BY <1>2 DEF KnownInv, HistoryInv, NoWalk
<1>5. refreshed' = TRUE => walk'[Background].at = 0
  <2>1. CASE w = Background
    BY <1>0, <1>2, <2>1 DEF HistoryInv, NoWalk
  <2>2. CASE w # Background
    <3>1. walk'[Background] = walk[Background]
      BY <1>0, <1>2, <2>2 DEF HistoryInv
    <3>2. refreshed' = TRUE => refreshed = TRUE
      BY <1>2, <2>2, Zenon DEF KnownInv
    <3> QED
      BY <3>1, <3>2 DEF KnownInv
  <2> QED
    BY <2>1, <2>2
<1>6. ASSUME NEW i \in (live' \cap known') \ cache' PROVE Bridged(i)'
  <2>1. i \in live /\ i \in known /\ i \notin fresh /\ i \notin v
    BY <1>1, <1>2, <1>6
  <2>2. CASE i \in cache
    <3>1. i \in DOMAIN deletedAt' /\ deletedAt'[i] = 0
      BY <1>1, <2>1, <2>2
    <3> QED
      BY <3>1 DEF Bridged
  <2>3. CASE i \notin cache
    <3>1. Bridged(i)
      BY <2>1, <2>3 DEF KnownInv
    <3>2. i \in DOMAIN deletedAt' /\ deletedAt'[i] = deletedAt[i]
      BY <1>1, <2>1, <2>3, <3>1 DEF Bridged
    <3>3. CASE w = Background
      <4>1. PICK j \in DOMAIN Dirs : Dirs[j] = i
        BY <2>1 DEF KnownInv, Ids, Range
      <4>2. j < Len(Dirs) + 1
        BY <4>1, ResolverAssumption
      <4>3. ~Lists(walk[Background], i)
        BY <1>2, <2>1, <3>3, <4>1, <4>2 DEF Lists
      <4> QED
        BY <3>1, <3>2, <4>3 DEF Bridged
    <3>4. CASE w # Background
      <4>1. walk'[Background] = walk[Background]
        BY <1>0, <1>2, <3>4 DEF HistoryInv
      <4>2. refreshed = FALSE => refreshed' = FALSE
        BY <1>2, <3>4
      <4> QED
        BY <3>1, <3>2, <4>1, <4>2 DEF Bridged, Lists
    <3> QED
      BY <3>3, <3>4
  <2> QED
    BY <2>2, <2>3
<1> QED
  BY <1>3, <1>4, <1>5, <1>6 DEF KnownInv

\* evictStaleEntries comes for no known cgroup: those are dated one period back at most.
LEMMA EvictKnown ==
    ASSUME TTL >= 2, HistoryInv, KnownInv, EvictStaleEntries
    PROVE  KnownInv'
<1> DEFINE expired == {i \in DOMAIN deletedAt : deletedAt[i] >= TTL}
<1>1. /\ DOMAIN deletedAt' = DOMAIN deletedAt \ expired
      /\ \A i \in DOMAIN deletedAt' : deletedAt'[i] = deletedAt[i]
      /\ UNCHANGED <<live, ended, cache, walk, refreshed, known>>
  BY DEF EvictStaleEntries, Restrict
<1>2. ASSUME NEW i \in (live \cap known) \ cache PROVE Bridged(i)'
  <2>1. Bridged(i)
    BY DEF KnownInv
  <2>2. i \notin expired
    BY <2>1, ResolverAssumption DEF Bridged
  <2> QED
    BY <1>1, <2>1, <2>2 DEF Bridged, Lists
<1> QED
  BY <1>1, <1>2 DEF KnownInv

\* A period ends after the background's refresh, so that what is in the history by
\* then has only just come.
LEMMA PeriodKnown ==
    ASSUME TTL >= 2, HistoryInv, KnownInv, NextPeriod
    PROVE  KnownInv'
<1>1. /\ DOMAIN deletedAt' = DOMAIN deletedAt /\ UNCHANGED <<live, ended, cache, known>>
      /\ \A i \in DOMAIN deletedAt :
            deletedAt'[i] = IF deletedAt[i] < TTL THEN deletedAt[i] + 1 ELSE TTL
      /\ refreshed' = FALSE
  BY DEF NextPeriod
<1>2. refreshed # FALSE
  BY DEF NextPeriod
<1>3. \A w \in Walkers : walk'[w].at = walk[w].at /\ walk'[w].fresh = walk[w].fresh
  BY DEF NextPeriod, HistoryInv
<1>4. walk[Background].at = 0 \/ refreshed # TRUE
  BY DEF KnownInv
<1>5. ASSUME NEW i \in (live \cap known) \ cache PROVE Bridged(i)'
  <2>1. i \in DOMAIN deletedAt /\ deletedAt[i] = 0
    BY <1>2 DEF KnownInv, Bridged
  <2>2. deletedAt'[i] = 1
    BY <1>1, <2>1, ResolverAssumption
  <2>3. walk'[Background].at = 0
    BY <1>3, <1>4, ResolverAssumption DEF NextPeriod, KnownInv
  <2>4. \A j \in DOMAIN Dirs : ~(j < 0)
    BY ResolverAssumption
  <2> QED
    BY <1>1, <2>1, <2>2, <2>3, <2>4 DEF Bridged, Lists
<1> QED
  BY <1>1, <1>3, <1>5 DEF KnownInv

\* A walk goes on: it lists the running cgroup it comes to, or leaves it out and then
\* the cgroup is not taken for known any more.
LEMMA WalkOn ==
    ASSUME HistoryInv, KnownInv, NEW w \in Walkers, NEW S, S \subseteq live,
           walk[w].at \in 1 .. Len(Dirs),
           walk'[w].at = walk[w].at + 1, walk'[w].fresh = walk[w].fresh \cup S,
           \A u \in Walkers : u # w => walk'[u] = walk[u],
           known' \subseteq known,
           Dirs[walk[w].at] \in live \cap known' => Dirs[walk[w].at] \in S,
           UNCHANGED <<live, ended, cache, deletedAt, refreshed>>
    PROVE  KnownInv'
<1>0. Background \in Walkers
  BY ResolverAssumption
<1>1. \A u \in Walkers : walk'[u].fresh \subseteq live \cup ended
  BY DEF KnownInv
<1>2. refreshed = TRUE => walk'[Background].at = 0
  BY <1>0 DEF KnownInv
<1>3. ASSUME NEW i \in (live \cap known') \ cache PROVE Bridged(i)'
  <2>1. Bridged(i)
    BY <1>3 DEF KnownInv
  <2>2. CASE w # Background
    BY <1>0, <2>1, <2>2 DEF Bridged, Lists
  <2>3. CASE w = Background
    <3>1. ASSUME Lists(walk[w], i), NEW j \in DOMAIN Dirs, j < walk'[w].at, Dirs[j] = i
          PROVE  i \in walk'[w].fresh
      <4>1. j < walk[w].at \/ j = walk[w].at
        BY <3>1, ResolverAssumption
      <4>2. CASE j < walk[w].at
        BY <3>1, <4>2 DEF Lists
      <4>3. CASE j = walk[w].at
        BY <1>3, <3>1, <4>3
      <4> QED
        BY <4>1, <4>2, <4>3
    <3>2. Lists(walk[w], i) => Lists(walk'[w], i)
      BY <3>1 DEF Lists
    <3> QED
      BY <2>1, <2>3, <3>2 DEF Bridged, Lists
  <2> QED
    BY <2>2, <2>3
<1> QED
  BY <1>1, <1>2, <1>3 DEF KnownInv

\* A walk begins: the background's only before the refresh of its period.
LEMMA BeginKnown ==
    ASSUME HistoryInv, KnownInv, NEW w \in Walkers, BeginWalk(w),
           w = Background => refreshed # TRUE,
           UNCHANGED <<live, ended, cache, deletedAt, refreshed, known>>
    PROVE  KnownInv'
<1>0. Background \in Walkers
  BY ResolverAssumption
<1>1. /\ walk'[w].at = 1 /\ walk'[w].fresh = {}
      /\ \A u \in Walkers : u # w => walk'[u] = walk[u]
  BY DEF BeginWalk, Begun, HistoryInv
<1>2. \A u \in Walkers : walk'[u].fresh \subseteq live \cup ended
  BY <1>1 DEF KnownInv
<1>3. refreshed = TRUE => walk'[Background].at = 0
  BY <1>0, <1>1 DEF KnownInv
<1>4. ASSUME NEW i \in (live \cap known) \ cache PROVE Bridged(i)'
  <2>1. Bridged(i)
    BY DEF KnownInv
  <2>2. \A j \in DOMAIN Dirs : ~(j < 1)
    BY ResolverAssumption
  <2> QED
    BY <1>0, <1>1, <2>1, <2>2 DEF Bridged, Lists
<1> QED
  BY <1>2, <1>3, <1>4 DEF KnownInv

LEMMA KnownStep == TTL >= 2 /\ HistoryInv /\ KnownInv /\ [Next]_vars => KnownInv'
<1> SUFFICES ASSUME TTL >= 2, HistoryInv, KnownInv, [Next]_vars
             PROVE  KnownInv'
  OBVIOUS
<1>a. Background \in Walkers /\ Poller \in Walkers /\ Poller # Background
  BY ResolverAssumption, CollectorAssumption
<1>1. ASSUME UNCHANGED resolverVars
      PROVE  KnownInv'
  BY <1>1 DEF KnownInv, Bridged, Lists, resolverVars
<1>2. ASSUME NEW i \in Ids, StartCgroup(i)
      PROVE  KnownInv'
  <2>1. /\ i \notin live \cup ended /\ live' = live \cup {i}
        /\ UNCHANGED <<ended, cache, deletedAt, walk, refreshed, known>>
    BY <1>2 DEF StartCgroup
  <2>2. (live' \cap known') \ cache' = (live \cap known) \ cache
    BY <2>1 DEF KnownInv
  <2> QED
    BY <2>1, <2>2 DEF KnownInv, Bridged, Lists
<1>3. ASSUME NEW i \in Ids, EndCgroup(i)
      PROVE  KnownInv'
  <2>1. /\ live' = live \ {i} /\ ended' = ended \cup {i}
        /\ UNCHANGED <<cache, deletedAt, walk, refreshed, known>>
    BY <1>3 DEF EndCgroup
  <2>2. (live' \cap known') \ cache' \subseteq (live \cap known) \ cache
    BY <2>1
  <2>3. live' \cup ended' = live \cup ended \cup {i}
    BY <2>1
  <2> QED
    BY <2>1, <2>2, <2>3 DEF KnownInv, Bridged, Lists
<1>4. CASE BackgroundRefresh
  BY <1>4, <1>a, BeginKnown DEF BackgroundRefresh
<1>5. CASE GoStale
  BY <1>5 DEF GoStale, KnownInv, Bridged, Lists
<1>6. ASSUME NEW w \in Walkers, SkipDir(w)
      PROVE  KnownInv'
  <2> DEFINE S == {}
  <2>1. walk[w] \in [at : Nat, fresh : SUBSET Ids, old : BOOLEAN]
    BY DEF HistoryInv
  <2>2. /\ walk'[w].at = walk[w].at + 1 /\ walk'[w].fresh = walk[w].fresh \cup S
        /\ \A u \in Walkers : u # w => walk'[u] = walk[u]
    BY <1>6, <2>1 DEF SkipDir, HistoryInv
  <2>3. /\ walk[w].at \in 1 .. Len(Dirs) /\ known' = known \ {Dirs[walk[w].at]}
        /\ UNCHANGED <<live, ended, cache, deletedAt, refreshed>>
    BY <1>6 DEF SkipDir
  <2>4. S \subseteq live /\ known' \subseteq known /\ Dirs[walk[w].at] \notin known'
    BY <2>3
  <2> HIDE DEF S
  <2> QED
    BY <2>2, <2>3, <2>4, WalkOn
<1>7. ASSUME NEW w \in Walkers, VisitDir(w)
      PROVE  KnownInv'
  <2> DEFINE i == Dirs[walk[w].at]
             S == IF i \in live THEN {i} ELSE {}
             fresh == IF i \in live THEN walk[w].fresh \cup {i} ELSE walk[w].fresh
             next == [[walk[w] EXCEPT !.at = walk[w].at + 1] EXCEPT !.fresh = fresh]
  <2>1. walk[w] \in [at : Nat, fresh : SUBSET Ids, old : BOOLEAN]
    BY DEF HistoryInv
  <2>2. walk' = [walk EXCEPT ![w] = next]
    BY <1>7 DEF VisitDir
  <2>3. S \subseteq live /\ fresh = walk[w].fresh \cup S /\ (i \in live => i \in S)
    OBVIOUS
  <2> HIDE DEF fresh, S
  <2>4. next.at = walk[w].at + 1 /\ next.fresh = fresh
    BY <2>1
  <2> HIDE DEF next
  <2>5. /\ walk'[w].at = walk[w].at + 1 /\ walk'[w].fresh = walk[w].fresh \cup S
        /\ \A u \in Walkers : u # w => walk'[u] = walk[u]
    BY <2>2, <2>3, <2>4 DEF HistoryInv
  <2>6. /\ walk[w].at \in 1 .. Len(Dirs)
        /\ UNCHANGED <<live, ended, cache, deletedAt, refreshed, known>>
    BY <1>7 DEF VisitDir
  <2> QED
    BY <2>3, <2>5, <2>6, WalkOn
<1>8. ASSUME NEW i \in Ids, NextEntry(i)
      PROVE  KnownInv'
  <2>1. CASE UNCHANGED resolverVars
    BY <1>1, <2>1
  <2>2. CASE BeginWalk(Poller) /\ UNCHANGED <<live, ended, cache, deletedAt, refreshed, known>>
    BY <2>2, <1>a, BeginKnown
  <2> QED
    BY <1>8, <2>1, <2>2 DEF NextEntry
<1>9. CASE LookupAgain \/ BeginCollect \/ Collected \/ Abort \/ \E i \in Ids : Work(i)
  BY <1>1, <1>9 DEF LookupAgain, BeginCollect, Collected, CpuCollect, MemoryCollect,
        IoCollect, NetworkCollect, SyscallCollect, Finish, Abort, Work
<1>10. CASE UNCHANGED vars
  BY <1>1, <1>10 DEF vars
<1> QED
  BY <1>2, <1>3, <1>4, <1>5, <1>6, <1>7, <1>8, <1>9, <1>10, ApplyWalkKnown, EvictKnown, PeriodKnown
     DEF Next, ResolverNext, WalkStep, PollStep

LEMMA KnownStart == Init => KnownInv
BY ResolverAssumption DEF Init, NewResolver, KnownInv, NoWalk

\* A running cgroup that a walk listed is resolvable until a walk cannot read it or
\* the history overflows, for any number of cgroups and of goroutines that refresh,
\* if the history keeps an entry for two periods, as the code does: walks may
\* still be applied in the order opposite to the one they were made in.
THEOREM KnownStay == TTL >= 2 => (Spec => []KnownStaysKnown)
<1> SUFFICES ASSUME TTL >= 2 PROVE Spec => []KnownStaysKnown
  OBVIOUS
<1>1. Init => HistoryInv /\ KnownInv
  BY HistoryStart, KnownStart
<1>2. HistoryInv /\ KnownInv /\ [Next]_vars => HistoryInv' /\ KnownInv'
  BY HistoryStep, KnownStep
<1>3. HistoryInv /\ KnownInv => KnownStaysKnown
  BY DEF HistoryInv, HistoryDated, KnownInv, Bridged, KnownStaysKnown, Resolvable
<1> QED
  BY <1>1, <1>2, <1>3, PTL DEF Spec

-----------------------------------------------------------------------------
(* Types.  DeltaInv says which entries an iteration refers to; the kernel  *)
(* never counts more for a cgroup than it did.                             *)

WithinDirs == \A w \in Walkers : walk[w].at <= Len(Dirs) + 1

\* What HistoryInv says of walks, and that they end with the last directory.
LEMMA WalkTyped ==
    ASSUME HistoryInv, WithinDirs
    PROVE  walk \in [Walkers -> [at : 0 .. Len(Dirs) + 1, fresh : SUBSET Ids, old : BOOLEAN]]
<1>1. Len(Dirs) \in Nat
  BY ResolverAssumption
<1>2. ASSUME NEW w \in Walkers
      PROVE  walk[w] \in [at : 0 .. Len(Dirs) + 1, fresh : SUBSET Ids, old : BOOLEAN]
  <2>1. walk[w] \in [at : Nat, fresh : SUBSET Ids, old : BOOLEAN] /\ walk[w].at <= Len(Dirs) + 1
    BY DEF HistoryInv, WithinDirs
  <2> QED
    BY <1>1, <2>1
<1> QED
  BY <1>2 DEF HistoryInv

LEMMA WithinStep ==
    ASSUME HistoryInv, WithinDirs, [Next]_vars
    PROVE  WithinDirs'
<1>1. Len(Dirs) \in Nat /\ Poller \in Walkers /\ Background \in Walkers
  BY ResolverAssumption, CollectorAssumption
<1>2. walk \in [Walkers -> [at : Nat, fresh : SUBSET Ids, old : BOOLEAN]]
  BY DEF HistoryInv
<1>3. ASSUME NEW w \in Walkers, BeginWalk(w)
      PROVE  WithinDirs'
  BY <1>1, <1>2, <1>3 DEF WithinDirs, BeginWalk, Begun
<1>4. ASSUME NEW w \in Walkers, VisitDir(w) \/ SkipDir(w)
      PROVE  WithinDirs'
  <2>1. /\ walk[w].at \in 1 .. Len(Dirs) /\ walk'[w].at = walk[w].at + 1
        /\ \A v \in Walkers \ {w} : walk'[v] = walk[v]
    BY <1>2, <1>4 DEF VisitDir, SkipDir
  <2> QED
    BY <1>1, <2>1 DEF WithinDirs
<1>5. ASSUME NEW w \in Walkers, ApplyWalk(w)
      PROVE  WithinDirs'
  BY <1>1, <1>2, <1>5 DEF WithinDirs, ApplyWalk, NoWalk
<1>6. CASE NextPeriod
  <2>1. \A w \in Walkers : walk'[w].at = walk[w].at
    BY <1>2, <1>6 DEF NextPeriod
  <2> QED
    BY <2>1 DEF WithinDirs
<1>7. CASE UNCHANGED walk
  BY <1>7 DEF WithinDirs
<1>8. CASE LookupAgain \/ BeginCollect \/ Collected \/ Abort \/ \E i \in Ids : Work(i)
  BY <1>7, <1>8 DEF LookupAgain, BeginCollect, Collected, CpuCollect, MemoryCollect,
        IoCollect, NetworkCollect, SyscallCollect, Finish, Abort, Work, resolverVars
<1>9. CASE \E i \in Ids : NextEntry(i)
  BY <1>1, <1>3, <1>7, <1>9 DEF NextEntry, resolverVars
<1>10. CASE \/ \E i \in Ids : StartCgroup(i) \/ EndCgroup(i)
            \/ EvictStaleEntries \/ GoStale \/ UNCHANGED vars
  BY <1>7, <1>10 DEF StartCgroup, EndCgroup, EvictStaleEntries, GoStale, vars, resolverVars
<1> QED
  BY <1>1, <1>3, <1>4, <1>5, <1>6, <1>8, <1>9, <1>10
     DEF Next, ResolverNext, BackgroundRefresh, WalkStep, PollStep

\* The rest of the resolver's types.
TablesTyped ==
    /\ live \subseteq Ids /\ ended \subseteq Ids \ live
    /\ deletedAt \in [DOMAIN deletedAt -> 0 .. TTL]
    /\ stale \in BOOLEAN /\ refreshed \in BOOLEAN
    /\ skips \in 0 .. MaxSkips /\ known \subseteq Ids

LEMMA TablesStep ==
    ASSUME TablesTyped, HistoryInv, [Next]_vars
    PROVE  TablesTyped'
<1> USE ResolverAssumption DEF TablesTyped
<1>1. CASE \E i \in Ids : StartCgroup(i) \/ EndCgroup(i)
  BY <1>1 DEF StartCgroup, EndCgroup
<1>2. CASE UNCHANGED <<live, ended, deletedAt, stale, refreshed, skips, known>>
  BY <1>2
<1>3. CASE \E w \in Walkers : VisitDir(w)
  BY <1>2, <1>3 DEF VisitDir
<1>4. CASE \E w \in Walkers : SkipDir(w)
  BY <1>4 DEF SkipDir
<1>5. ASSUME NEW w \in Walkers, ApplyWalk(w)
      PROVE  TablesTyped'
  <2> DEFINE fresh == walk[w].fresh
             gone  == cache \ fresh
  <2>1. fresh \subseteq Ids
    BY DEF HistoryInv
  <2>2. PICK v \in Victims(history \cup gone) :
            /\ deletedAt' = [i \in ((DOMAIN deletedAt \cup gone) \ fresh) \ v |->
                                IF i \in gone THEN 0 ELSE deletedAt[i]]
            /\ known' = (known \ v) \cup fresh
    BY <1>5 DEF ApplyWalk
  <2>3. deletedAt' \in [DOMAIN deletedAt' -> 0 .. TTL]
    BY <2>2
  <2>4. stale' = FALSE /\ refreshed' \in BOOLEAN /\ UNCHANGED <<live, ended, skips>>
    BY <1>5 DEF ApplyWalk
  <2> QED
    BY <2>1, <2>2, <2>3, <2>4
<1>6. CASE EvictStaleEntries
  <2>1. deletedAt' \in [DOMAIN deletedAt' -> 0 .. TTL]
    BY <1>6 DEF EvictStaleEntries, Restrict
  <2> QED
    BY <1>6, <2>1 DEF EvictStaleEntries
<1>7. CASE GoStale
  BY <1>7 DEF GoStale
<1>8. CASE NextPeriod
  <2>1. deletedAt' \in [DOMAIN deletedAt' -> 0 .. TTL]
    BY <1>8 DEF NextPeriod
  <2> QED
    BY <1>8, <2>1 DEF NextPeriod
<1>9. CASE \E i \in Ids : NextEntry(i)
  BY <1>2, <1>9 DEF NextEntry, resolverVars
<1>10. CASE LookupAgain \/ BeginCollect \/ Collected \/ Abort \/ \E i \in Ids : Work(i)
  BY <1>2, <1>10 DEF LookupAgain, BeginCollect, Collected, CpuCollect, MemoryCollect,
        IoCollect, NetworkCollect, SyscallCollect, Finish, Abort, Work, resolverVars
<1>11. CASE BackgroundRefresh \/ UNCHANGED vars
  BY <1>2, <1>11 DEF BackgroundRefresh, vars, resolverVars
<1> QED
  BY <1>1, <1>3, <1>4, <1>5, <1>6, <1>7, <1>8, <1>9, <1>10, <1>11
     DEF Next, ResolverNext, WalkStep, PollStep

\* The collector's own part.
CountersTyped ==
    /\ kind \in Kinds
    /\ DOMAIN kern \subseteq Ids /\ \A i \in DOMAIN kern : kern[i] \in Nat /\ kern[i] <= done[i]
    /\ done \in [Ids -> Counters]
    /\ pc \in {"idle", "iterate", "lookup"}
    /\ todo \subseteq Ids /\ toDelete \subseteq Ids
    /\ pc = "idle" => todo = {} /\ toDelete = {} /\ samples = Empty
    /\ entry.val \in Counters /\ entry.done \in Counters
    /\ \A i \in DOMAIN samples : samples[i].val \in Counters /\ samples[i].done \in Counters
    /\ \A i \in DOMAIN prev : prev[i] \in Counters
    /\ \A i \in DOMAIN latencies : latencies[i] \in Counters
    /\ \A i \in DOMAIN reported : reported[i] \in Counters
    /\ aborts \in 0 .. MaxAborts

\* What is read of an entry is a counter.
LEMMA ReadTyped ==
    ASSUME CountersTyped, NEW i \in DOMAIN kern
    PROVE  kern[i] \in Counters /\ done[i] \in Counters
BY CollectorAssumption DEF CountersTyped, Counters

LEMMA ConcludeTyped ==
    ASSUME CountersTyped, NEW e, e.id \in Ids, e.val \in Counters, e.done \in Counters,
           entry'.val \in Counters, entry'.done \in Counters, todo' \subseteq todo, Conclude(e),
           UNCHANGED <<kind, kern, done, prev, latencies, reported, aborts>>
    PROVE  CountersTyped'
<1>1. pc' = "iterate"
  BY DEF Conclude
<1>2. CASE Sample(e) /\ UNCHANGED toDelete
  <2>1. \A i \in DOMAIN samples' : samples'[i].val \in Counters /\ samples'[i].done \in Counters
    BY <1>2 DEF Sample, CountersTyped
  <2> QED
    BY <1>1, <1>2, <2>1 DEF CountersTyped
<1>3. CASE toDelete' = toDelete \cup {e.id} /\ UNCHANGED samples
  BY <1>1, <1>3 DEF CountersTyped
<1> QED
  BY <1>2, <1>3 DEF Conclude

LEMMA CountersStep ==
    ASSUME CountersTyped, DeltaInv, [Next]_vars
    PROVE  CountersTyped'
<1> USE CollectorAssumption
<1>1. CASE UNCHANGED collectorVars
  BY <1>1 DEF collectorVars, CountersTyped
<1>2. ASSUME NEW i \in Ids, Work(i)
      PROVE  CountersTyped'
  <2>1. /\ done[i] \in Nat /\ done[i] < MaxWork /\ done' = [done EXCEPT ![i] = done[i] + 1]
        /\ done \in [Ids -> Counters]
    BY <1>2 DEF Work, CountersTyped, Counters
  <2>2. done' \in [Ids -> Counters] /\ done'[i] = done[i] + 1 /\ \A j \in Ids \ {i} : done'[j] = done[j]
    BY <2>1 DEF Counters
  <2>3. DOMAIN kern' \subseteq Ids /\ \A j \in DOMAIN kern' : kern'[j] \in Nat /\ kern'[j] <= done'[j]
    <3>1. /\ DOMAIN kern' = DOMAIN kern \cup {i}
          /\ \A j \in DOMAIN kern \ {i} : kern'[j] = kern[j]
          /\ i \in DOMAIN kern => kern'[i] = kern[i] + 1
          /\ i \notin DOMAIN kern => kern'[i] = 1
      BY <1>2 DEF Work
    <3> QED
      BY <2>1, <2>2, <3>1 DEF CountersTyped
  <2> QED
    BY <1>2, <2>2, <2>3 DEF Work, CountersTyped
<1>3. CASE BeginCollect
  BY <1>3 DEF BeginCollect, CountersTyped
<1>4. ASSUME NEW i \in Ids, NextEntry(i)
      PROVE  CountersTyped'
  <2>1. i \in DOMAIN kern /\ todo' \subseteq todo
        /\ entry' = [id |-> i, val |-> kern[i], done |-> done[i]]
        /\ UNCHANGED <<kind, kern, done, prev, latencies, reported, aborts>>
    BY <1>4 DEF NextEntry, DeltaInv, Disjoint
  <2>2. kern[i] \in Counters /\ done[i] \in Counters
    BY <2>1, ReadTyped
  <2>3. CASE Conclude(entry')
    <3>1. /\ entry'.id \in Ids /\ entry'.val \in Counters /\ entry'.done \in Counters
      BY <2>1, <2>2
    <3> QED
      BY <2>1, <2>3, <3>1, ConcludeTyped
  <2>4. CASE pc' = "lookup" /\ UNCHANGED <<samples, toDelete>>
    BY <2>1, <2>2, <2>4 DEF CountersTyped
  <2> QED
    BY <1>4, <2>3, <2>4 DEF NextEntry
<1>5. CASE LookupAgain
  <2>1. entry.id \in Ids
    BY <1>5 DEF LookupAgain, DeltaInv, Disjoint
  <2> QED
    <3>1. /\ entry.val \in Counters /\ entry.done \in Counters
          /\ UNCHANGED <<kind, kern, done, todo, entry, prev, latencies, reported, aborts>>
          /\ Conclude(entry)
      BY <1>5 DEF LookupAgain, CountersTyped
    <3> QED
      BY <2>1, <3>1, ConcludeTyped
<1>6. CASE Abort
  BY <1>6 DEF Abort, CountersTyped, NoEntry, Empty, Counters
<1>7. CASE Collected
  <2>1. /\ Finish /\ UNCHANGED <<kind, done, aborts>> /\ (prev' = Vals(samples) \/ UNCHANGED prev)
        /\ latencies' = [i \in DOMAIN samples |-> entry.val] \/ UNCHANGED latencies
    BY <1>7 DEF Collected, CpuCollect, MemoryCollect, IoCollect, NetworkCollect, SyscallCollect, Finish
  <2>2. DOMAIN kern' \subseteq DOMAIN kern /\ \A i \in DOMAIN kern' : kern'[i] = kern[i]
    BY <2>1 DEF Finish, Restrict
  <2>3. /\ \A i \in DOMAIN prev' : prev'[i] \in Counters
        /\ \A i \in DOMAIN latencies' : latencies'[i] \in Counters
    BY <2>1 DEF Vals, CountersTyped
  <2>4. \A i \in DOMAIN reported' : reported'[i] \in Counters
    BY <2>1 DEF Finish, CountersTyped
  <2> QED
    <3>1. /\ pc' = "idle" /\ todo' = {} /\ toDelete' = {} /\ samples' = Empty /\ entry' = NoEntry
          /\ UNCHANGED <<kind, done, aborts>>
      BY <2>1 DEF Finish, CountersTyped
    <3>2. entry'.val \in Counters /\ entry'.done \in Counters /\ DOMAIN samples' = {}
      BY <3>1 DEF NoEntry, Empty, Counters
    <3>3. DOMAIN kern' \subseteq Ids
          /\ \A i \in DOMAIN kern' : kern'[i] \in Nat /\ kern'[i] <= done'[i]
      BY <2>2, <3>1 DEF CountersTyped
    <3> QED
      BY <2>3, <2>4, <3>1, <3>2, <3>3 DEF CountersTyped
<1> QED
  BY <1>1, <1>2, <1>3, <1>4, <1>5, <1>6, <1>7 DEF Next, PollStep, vars

TypesInv == HistoryInv /\ WithinDirs /\ TablesTyped /\ DeltaInv /\ CountersTyped

\* The resolver and the collector keep their types, and nothing of an iteration
\* is left when it ends, however it ends: for any directories and goroutines.
THEOREM CollectorsTyped == Spec => []TypeOK
<1>1. Init => TypesInv
  <2> SUFFICES ASSUME Init PROVE WithinDirs /\ TablesTyped /\ CountersTyped
    BY HistoryStart, DeltaStart DEF TypesInv
  <2> USE ResolverAssumption, CollectorAssumption DEF Init, NewResolver
  <2>1. WithinDirs
    BY DEF WithinDirs, NoWalk
  <2>2. TablesTyped
    <3>1. deletedAt \in [DOMAIN deletedAt -> 0 .. TTL] /\ 0 \in 0 .. MaxSkips
      OBVIOUS
    <3>2. stale \in BOOLEAN /\ refreshed \in BOOLEAN
      BY Zenon
    <3> QED
      BY <3>1, <3>2 DEF TablesTyped
  <2>3. CountersTyped
    BY DEF CountersTyped, Empty, NoEntry, Counters
  <2> QED
    BY <2>1, <2>2, <2>3
<1>2. TypesInv /\ [Next]_vars => TypesInv'
  BY HistoryStep, DeltaStep, WithinStep, TablesStep, CountersStep DEF TypesInv
<1>3. TypesInv => TypeOK
  <2> SUFFICES ASSUME TypesInv PROVE TypeOK
    OBVIOUS
  <2>1. ResolverTypeOK
    BY WalkTyped DEF TypesInv, TablesTyped, HistoryInv, ResolverTypeOK
  <2>2. \A i \in DOMAIN kern : kern[i] \in Counters
    BY ReadTyped DEF TypesInv
  <2>3. toDelete \subseteq Ids \ DOMAIN samples
    BY DEF TypesInv, CountersTyped, DeltaInv, Disjoint
  <2>4. \A f \in {prev, latencies, reported} : \A i \in DOMAIN f : f[i] \in Counters
    BY DEF TypesInv, CountersTyped
  <2> QED
    BY <2>1, <2>2, <2>3, <2>4 DEF TypesInv, CountersTyped, TypeOK
<1> QED
  BY <1>1, <1>2, <1>3, PTL DEF Spec
=============================================================================
