--------------------------- MODULE StatCollectors ---------------------------
(***************************************************************************)
(* The statistics collectors (pkg/collector: CpuCollector,                 *)
(* MemoryCollector, IoCollector, NetworkCollector, SyscallCollector) in    *)
(* the observer's poll loop.  Each iterates over a kernel map, looks up    *)
(* the cgroup of every entry, subtracts the previous reading and removes   *)
(* the entries whose cgroup it cannot name.  A behaviour follows one of    *)
(* them, kind: they share nothing but the resolver, and what the others do *)
(* to that the background goroutine does too.  The entries of one cgroup   *)
(* (its flows, its syscalls) are treated alike and are one entry here.     *)
(***************************************************************************)
EXTENDS CgroupResolver

CONSTANTS Poller,       \* the goroutine of the poll loop
          Kinds,        \* collectors considered
          MaxWork,      \* bound: operations of a cgroup
          MaxAborts     \* bound: iterations that fail

AllKinds == {"cpu", "memory", "io", "network", "syscall"}

ASSUME CollectorAssumption ==
    /\ Poller \in Walkers \ {Background}
    /\ Kinds \subseteq AllKinds
    /\ MaxWork \in Nat /\ MaxAborts \in Nat

VARIABLES kind,         \* the collector
          kern,         \* the kernel map: operations counted
          done,         \* history: operations each cgroup ever did
          pc,           \* idle, iterate, lookup (the refresh in Lookup runs)
          todo,         \* entries the iteration has still to visit
          entry,        \* key and val of the iteration
          samples,      \* samples
          toDelete,     \* toDelete
          prev,         \* prev, without the latencies
          latencies,    \* prev of the I/O collector: the latencies
          reported,     \* history: what each cgroup had done when last reported
          aborts        \* iterations that failed so far

collectorVars == <<kind, kern, done, pc, todo, entry, samples, toDelete, prev, latencies,
                   reported, aborts>>
vars == <<resolverVars, collectorVars>>

Empty == [i \in {} |-> 0]
NoEntry == [id |-> 0, val |-> 0, done |-> 0]

Init ==
    /\ NewResolver
    /\ kind \in Kinds
    /\ kern = Empty /\ done = [i \in Ids |-> 0]
    /\ pc = "idle" /\ todo = {} /\ entry = NoEntry
    /\ samples = Empty /\ toDelete = {} /\ prev = Empty /\ latencies = Empty
    /\ reported = Empty /\ aborts = 0

-----------------------------------------------------------------------------
(* The kernel: external.                                                   *)

\* A probe counts an operation of a running cgroup, and its latency: operations all
\* take one unit of time, so that one counter stands for both.
Work(i) ==
    /\ i \in live /\ done[i] < MaxWork
    /\ kern' = [j \in DOMAIN kern \cup {i} |->
                    IF j # i THEN kern[j]
                    ELSE IF i \in DOMAIN kern THEN kern[i] + 1 ELSE 1]
    /\ done' = [done EXCEPT ![i] = @ + 1]
    /\ UNCHANGED <<resolverVars, kind, pc, todo, entry, samples, toDelete, prev, latencies,
                   reported, aborts>>

-----------------------------------------------------------------------------
(* Collect.                                                                *)

\* The ticker fires and the iteration begins.
BeginCollect ==
    /\ pc = "idle" /\ DOMAIN kern # {}
    /\ pc' = "iterate" /\ todo' = DOMAIN kern
    /\ UNCHANGED <<resolverVars, kind, kern, done, entry, samples, toDelete, prev, latencies,
                   reported, aborts>>

Sample(e) ==
    samples' = [j \in DOMAIN samples \cup {e.id} |->
                    IF j = e.id THEN [val |-> e.val, done |-> e.done] ELSE samples[j]]

Vals(f) == [i \in DOMAIN f |-> f[i].val]

\* Lookup is done: the entry becomes a sample, or is to be removed.
Conclude(e) ==
    /\ IF Resolvable(e.id) THEN Sample(e) /\ UNCHANGED toDelete
       ELSE toDelete' = toDelete \cup {e.id} /\ UNCHANGED samples
    /\ pc' = "iterate"

\* iter.Next, and Lookup until it knows whether to refresh.
NextEntry(i) ==
    /\ pc = "iterate" /\ i \in todo
    /\ todo' = todo \ {i}
    /\ entry' = [id |-> i, val |-> kern[i], done |-> done[i]]
    /\ IF Resolvable(i) \/ ~stale
       THEN Conclude(entry') /\ UNCHANGED resolverVars
       ELSE /\ BeginWalk(Poller)
            /\ pc' = "lookup"
            /\ UNCHANGED <<live, ended, cache, history, deletedAt, stale, refreshed,
                           skips, known, samples, toDelete>>
    /\ UNCHANGED <<kind, kern, done, prev, latencies, reported, aborts>>

\* The refresh that Lookup made has been applied: it looks again.
LookupAgain ==
    /\ pc = "lookup" /\ walk[Poller] = NoWalk
    /\ Conclude(entry)
    /\ UNCHANGED <<resolverVars, kind, kern, done, todo, entry, prev, latencies, reported, aborts>>

\* Mutation: the samples of an iteration that failed are kept.
Abort_KeepsSamples ==
    /\ pc = "iterate" /\ aborts < MaxAborts
    /\ aborts' = aborts + 1
    /\ prev' = Vals(samples)
    /\ pc' = "idle" /\ todo' = {} /\ entry' = NoEntry
    /\ samples' = Empty /\ toDelete' = {}
    /\ UNCHANGED <<resolverVars, kind, kern, done, latencies, reported>>

\* Mutation: what was to be removed is remembered for the next iteration.
Abort_KeepsToDelete ==
    /\ pc = "iterate" /\ aborts < MaxAborts
    /\ aborts' = aborts + 1
    /\ pc' = "idle" /\ todo' = {} /\ entry' = NoEntry
    /\ samples' = Empty
    /\ UNCHANGED <<resolverVars, kind, kern, done, toDelete, prev, latencies, reported>>

\* iter.Err: nothing is removed, nothing remembered.
Abort ==
    /\ pc = "iterate" /\ aborts < MaxAborts
    /\ aborts' = aborts + 1
    /\ pc' = "idle" /\ todo' = {} /\ entry' = NoEntry
    /\ samples' = Empty /\ toDelete' = {}
    /\ UNCHANGED <<resolverVars, kind, kern, done, prev, latencies, reported>>

\* Mutation: toDelete is collected and never used.
Finish_KeepsEntries ==
    /\ pc = "iterate" /\ todo = {}
    /\ pc' = "idle" /\ entry' = NoEntry
    /\ samples' = Empty /\ toDelete' = {}
    /\ reported' = [i \in DOMAIN samples |-> samples[i].done]
    /\ UNCHANGED <<resolverVars, kind, kern, done, todo, aborts>>

\* The iteration is over: entries are removed and the samples returned.
Finish ==
    /\ pc = "iterate" /\ todo = {}
    /\ kern' = Restrict(kern, DOMAIN kern \ toDelete)
    /\ pc' = "idle" /\ entry' = NoEntry
    /\ samples' = Empty /\ toDelete' = {}
    /\ reported' = [i \in DOMAIN samples |-> samples[i].done]
    /\ UNCHANGED <<resolverVars, kind, done, todo, aborts>>

CpuCollect == kind = "cpu" /\ Finish /\ prev' = Vals(samples) /\ UNCHANGED latencies

MemoryCollect == kind = "memory" /\ Finish /\ prev' = Vals(samples) /\ UNCHANGED latencies

\* The latencies remembered with every sample are those the iteration read last.
IoCollect ==
    /\ kind = "io" /\ Finish
    /\ prev' = Vals(samples)
    /\ latencies' = [i \in DOMAIN samples |-> entry.val]

\* CollectFlows and CollectSummary.
NetworkCollect == kind = "network" /\ Finish /\ UNCHANGED <<prev, latencies>>

\* Collect and CollectTop5PerContainer.
SyscallCollect == kind = "syscall" /\ Finish /\ UNCHANGED <<prev, latencies>>

Collected == CpuCollect \/ MemoryCollect \/ IoCollect \/ NetworkCollect \/ SyscallCollect

PollStep == BeginCollect \/ (\E i \in Ids : NextEntry(i)) \/ LookupAgain \/ Collected

Next ==
    \/ ResolverNext /\ UNCHANGED collectorVars
    \/ \E w \in Walkers : WalkStep(w) /\ UNCHANGED collectorVars
    \/ \E i \in Ids : Work(i)
    \/ PollStep \/ Abort

Spec == Init /\ [][Next]_vars

\* Every goroutine that can run does, and time passes; containers start, work
\* and end, directories are unreadable and iterations fail as they please.
FairSpec ==
    /\ Spec
    /\ WF_vars(PollStep)
    /\ \A w \in Walkers : WF_vars(WalkStep(w) /\ UNCHANGED collectorVars)
    /\ WF_vars(BackgroundRefresh /\ UNCHANGED collectorVars)
    /\ WF_vars(EvictStaleEntries /\ UNCHANGED collectorVars)
    /\ WF_vars(NextPeriod /\ UNCHANGED collectorVars)

-----------------------------------------------------------------------------
(* Properties.                                                             *)

\* saturatingSub.
Delta(a, b) == IF a < b THEN 0 ELSE a - b

Counters == 0 .. MaxWork

\* The types of the whole state; nothing of an iteration is left when it ends.
TypeOK ==
    /\ ResolverTypeOK
    /\ kind \in Kinds
    /\ DOMAIN kern \subseteq Ids /\ \A i \in DOMAIN kern : kern[i] \in Counters
    /\ done \in [Ids -> Counters]
    /\ pc \in {"idle", "iterate", "lookup"}
    /\ todo \subseteq Ids /\ toDelete \subseteq Ids \ DOMAIN samples
    /\ pc = "idle" => todo = {} /\ toDelete = {} /\ samples = Empty
    /\ entry.val \in Counters /\ entry.done \in Counters
    /\ \A i \in DOMAIN samples : samples[i].val \in Counters /\ samples[i].done \in Counters
    /\ \A f \in {prev, latencies, reported} : \A i \in DOMAIN f : f[i] \in Counters
    /\ aborts \in 0 .. MaxAborts

\* What a collection reports for a cgroup, apart from the latencies, is what the
\* cgroup did since the collection that last reported it: an iteration that fails in
\* between loses nothing and counts nothing twice, and a cgroup whose entry was removed
\* starts from a fresh reading (prev is replaced by the samples, and only on success).
DeltaExact ==
    [][Collected => \A i \in DOMAIN samples \cap DOMAIN prev :
            /\ i \in DOMAIN reported
            /\ Delta(samples[i].val, prev[i]) = samples[i].done - reported[i]]_vars

\* The kernel's entry of a cgroup that has ended is removed in the end: it
\* leaves the table, its history expires and a collection gives it up.
DeadEvicted == \A i \in Ids : i \in ended ~> i \notin DOMAIN kern
=============================================================================
