--------------------------- MODULE CgroupResolver ---------------------------
(***************************************************************************)
(* cgroup.Resolver (pkg/cgroup/resolver.go): the table of cgroups that the *)
(* collectors look names up in.  A refresh fetches the kubelet's pods and  *)
(* walks the hierarchy without the lock, directory by directory, and only  *)
(* then takes the lock and replaces the table, so that two walks can be    *)
(* applied in the order opposite to the one they were made in.  What the   *)
(* walk leaves out moves to a history, which a second goroutine expires.   *)
(*                                                                         *)
(* A name is determined by its cgroup, so that the table is the set of     *)
(* cgroups it has.  Time is counted in refresh periods: deletedAt is the   *)
(* number of periods since, up to the time to live, beyond which nothing   *)
(* distinguishes instants.  A walk takes milliseconds and is held up for   *)
(* one period at most.                                                     *)
(***************************************************************************)
EXTENDS Naturals, Sequences, FiniteSets, Functions

CONSTANTS Dirs,         \* cgroup directories in the order of the walk
          Walkers,      \* goroutines that refresh
          Background,   \* the one among them that backgroundRefresh runs on
          MaxHistory,   \* 1000
          TTL,          \* 2 * refreshPeriod, in periods
          MaxSkips      \* bound: directories that cannot be read

Ids == Range(Dirs)

ASSUME ResolverAssumption ==
    /\ Background \in Walkers
    /\ MaxHistory \in Nat \ {0} /\ TTL \in Nat \ {0} /\ MaxSkips \in Nat
    /\ Dirs \in Seq(Ids)

VARIABLES live,         \* cgroups whose directory exists
          ended,        \* cgroups that existed and do not any more
          cache,        \* cache
          history,      \* history
          deletedAt,    \* deletedAt: periods since, a function on its ids
          stale,        \* time.Since(lastRefresh) > staleness
          walk,         \* Walkers -> the refresh in progress
          refreshed,    \* the background refreshed in this period
          skips,        \* directories skipped so far
          known         \* history: listed by a walk and neither skipped nor dropped since

resolverVars == <<live, ended, cache, history, deletedAt, stale, walk, refreshed,
                  skips, known>>

NoWalk == [at |-> 0, fresh |-> {}, old |-> FALSE]
Begun == [at |-> 1, fresh |-> {}, old |-> FALSE]

\* NewResolver: one refresh of a node on which none of Ids runs yet.
NewResolver ==
    /\ live = {} /\ ended = {}
    /\ cache = {} /\ history = {} /\ deletedAt = [i \in {} |-> 0]
    /\ stale = FALSE
    /\ walk = [w \in Walkers |-> NoWalk]
    /\ refreshed = FALSE /\ skips = 0 /\ known = {}

-----------------------------------------------------------------------------
(* The node: external.                                                     *)

StartCgroup(i) ==
    /\ i \notin live \cup ended
    /\ live' = live \cup {i}
    /\ UNCHANGED <<ended, cache, history, deletedAt, stale, walk, refreshed, skips, known>>

EndCgroup(i) ==
    /\ i \in live
    /\ live' = live \ {i} /\ ended' = ended \cup {i}
    /\ UNCHANGED <<cache, history, deletedAt, stale, walk, refreshed, skips, known>>

-----------------------------------------------------------------------------
(* refresh.                                                                *)

Resolvable(i) == i \in cache \cup history

\* The kubelet has answered, or has not: the walk begins.
BeginWalk(w) ==
    /\ walk[w] = NoWalk
    /\ walk' = [walk EXCEPT ![w] = Begun]

\* The walk comes to a directory, which is there or not.
VisitDir(w) ==
    LET i == Dirs[walk[w].at]
    IN /\ walk[w].at \in 1 .. Len(Dirs)
       /\ walk' = [walk EXCEPT ![w].at = @ + 1,
                               ![w].fresh = IF i \in live THEN @ \cup {i} ELSE @]
       /\ UNCHANGED <<live, ended, cache, history, deletedAt, stale, refreshed, skips, known>>

\* The directory, or a directory above it, cannot be read: it is left out.
SkipDir(w) ==
    LET i == Dirs[walk[w].at]
    IN /\ walk[w].at \in 1 .. Len(Dirs)
       /\ i \in live /\ skips < MaxSkips
       /\ walk' = [walk EXCEPT ![w].at = @ + 1]
       /\ skips' = skips + 1
       /\ known' = known \ {i}
       /\ UNCHANGED <<live, ended, cache, history, deletedAt, stale, refreshed>>

Walked(w) == walk[w].at = Len(Dirs) + 1

\* The ids that a history above its limit gives up: any, down to the limit.
Victims(hist) ==
    IF Cardinality(hist) <= MaxHistory THEN {{}}
    ELSE {v \in SUBSET hist : Cardinality(hist \ v) = MaxHistory}

\* Mutation: the history of a cgroup that is back is dated all the same.
ApplyWalk_KeepsOldDate(w) ==
    LET fresh == walk[w].fresh
        gone  == cache \ fresh
    IN /\ Walked(w)
       /\ \E victims \in Victims(history \cup gone) :
            /\ history' = (history \cup gone) \ victims
            /\ deletedAt' = [i \in (DOMAIN deletedAt \cup gone) \ victims |->
                                IF i \in gone THEN 0 ELSE deletedAt[i]]
            /\ known' = (known \ victims) \cup fresh
       /\ cache' = fresh
       /\ stale' = FALSE
       /\ walk' = [walk EXCEPT ![w] = NoWalk]
       /\ refreshed' = (refreshed \/ w = Background)
       /\ UNCHANGED <<live, ended, skips>>

\* The rest of refresh, under the lock.
ApplyWalk(w) ==
    LET fresh == walk[w].fresh
        gone  == cache \ fresh
    IN /\ Walked(w)
       /\ \E victims \in Victims(history \cup gone) :
            /\ history' = (history \cup gone) \ victims
            /\ deletedAt' = [i \in ((DOMAIN deletedAt \cup gone) \ fresh) \ victims |->
                                IF i \in gone THEN 0 ELSE deletedAt[i]]
            /\ known' = (known \ victims) \cup fresh
       /\ cache' = fresh
       /\ stale' = FALSE
       /\ walk' = [walk EXCEPT ![w] = NoWalk]
       /\ refreshed' = (refreshed \/ w = Background)
       /\ UNCHANGED <<live, ended, skips>>

-----------------------------------------------------------------------------
(* Goroutines and time.                                                    *)

\* backgroundRefresh: the ticker fires.
BackgroundRefresh ==
    /\ ~refreshed
    /\ BeginWalk(Background)
    /\ UNCHANGED <<live, ended, cache, history, deletedAt, stale, refreshed, skips, known>>

\* Mutation: one cycle is enough.
EvictStaleEntries_OneCycle ==
    LET expired == {i \in DOMAIN deletedAt : deletedAt[i] >= TTL - 1}
    IN /\ expired # {}
       /\ history' = history \ expired
       /\ deletedAt' = Restrict(deletedAt, DOMAIN deletedAt \ expired)
       /\ UNCHANGED <<live, ended, cache, stale, walk, refreshed, skips, known>>

\* backgroundEviction, evictStaleEntries.
EvictStaleEntries ==
    LET expired == {i \in DOMAIN deletedAt : deletedAt[i] >= TTL}
    IN /\ expired # {}
       /\ history' = history \ expired
       /\ deletedAt' = Restrict(deletedAt, DOMAIN deletedAt \ expired)
       /\ UNCHANGED <<live, ended, cache, stale, walk, refreshed, skips, known>>

\* More than staleness has passed since the last refresh.
GoStale ==
    /\ ~stale
    /\ stale' = TRUE
    /\ UNCHANGED <<live, ended, cache, history, deletedAt, walk, refreshed, skips, known>>

\* The next period begins.
NextPeriod ==
    /\ refreshed
    /\ \A w \in Walkers : ~walk[w].old
    /\ refreshed' = FALSE
    /\ stale' = TRUE
    /\ walk' = [w \in Walkers |-> [walk[w] EXCEPT !.old = walk[w].at > 0]]
    /\ deletedAt' = [i \in DOMAIN deletedAt |->
                        IF deletedAt[i] < TTL THEN deletedAt[i] + 1 ELSE TTL]
    /\ UNCHANGED <<live, ended, cache, history, skips, known>>

WalkStep(w) == VisitDir(w) \/ ApplyWalk(w)

ResolverNext ==
    \/ \E i \in Ids : StartCgroup(i) \/ EndCgroup(i)
    \/ BackgroundRefresh \/ EvictStaleEntries \/ GoStale \/ NextPeriod
    \/ \E w \in Walkers : SkipDir(w)

-----------------------------------------------------------------------------
(* Properties.                                                             *)

ResolverTypeOK ==
    /\ live \subseteq Ids /\ ended \subseteq Ids \ live
    /\ cache \subseteq Ids /\ history \subseteq Ids
    /\ deletedAt \in [DOMAIN deletedAt -> 0 .. TTL]
    /\ stale \in BOOLEAN /\ refreshed \in BOOLEAN
    /\ walk \in [Walkers -> [at : 0 .. Len(Dirs) + 1, fresh : SUBSET Ids, old : BOOLEAN]]
    /\ skips \in 0 .. MaxSkips /\ known \subseteq Ids

\* Every entry of the history has a date to expire by, or belongs to a cgroup
\* of the table, and nothing else has a date: whatever the order walks are
\* applied in, no entry outlives its cgroup for ever (refresh moves entries in
\* and clears dates in different loops, evictStaleEntries goes by the dates).
HistoryDated ==
    /\ Cardinality(history) <= MaxHistory
    /\ DOMAIN deletedAt \subseteq history \ cache
    /\ history \ DOMAIN deletedAt \subseteq cache

\* A running cgroup that a walk listed stays resolvable, although an older walk
\* may be applied after the one that listed it, and until a walk cannot read it
\* or the history overflows: two cycles are enough for the history to bridge.
KnownStaysKnown == \A i \in live \cap known : Resolvable(i)
=============================================================================
