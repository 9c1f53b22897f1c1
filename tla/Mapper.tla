------------------------------- MODULE Mapper -------------------------------
(***************************************************************************)
(* ebpf.Mapper (mapper.go): resolves a cgroup to the pod that owns it.     *)
(* Informer callbacks, on one goroutine, maintain the index of containers; *)
(* several goroutines resolve.  A cgroup stands for the container in its   *)
(* path, and a container belongs to one pod for ever, so that an answer is *)
(* either that pod or "unknown".  The index then is the set of containers  *)
(* it has, and the hot cache the instant each entry was cached at.         *)
(***************************************************************************)
EXTENDS Clock, Sequences, FiniteSets

CONSTANTS Pods, Containers,
          PodOf,        \* Containers -> Pods
          Resolvers,    \* goroutines that call Resolve
          CacheTTL,
          MaxStall      \* longest a goroutine is held between lookup and caching

ASSUME MapperAssumption ==
    /\ PodOf \in [Containers -> Pods]
    /\ CacheTTL \in Nat \ {0} /\ MaxStall \in Nat

NoContainer == "none"

VARIABLES current,      \* Pods -> container in the pod's status
          gone,         \* pods that were deleted
          started,      \* containers that have existed
          running,      \* containers with a cgroup directory
          events,       \* informer events not handled yet
          evicting,     \* pod whose cache entries onPodDelete is about to evict
          index,        \* containerIndex
          cache,        \* podCache: CachedAt, NoTime if absent
          paths,        \* cgroupPathCache
          call,         \* Resolvers -> where Resolve is
          forgotten,    \* history: when onPodDelete returned, per pod
          answer        \* history: the last pod named, through which container, and when

clusterVars == <<current, gone, started, running>>
mapperVars == <<events, evicting, index, cache, paths, call, forgotten, answer>>

Idle == [at |-> "idle"]
NoPod == "none"
NoAnswer == [container |-> NoContainer]

MapperInit ==
    /\ ClockInit
    /\ current = [p \in Pods |-> NoContainer]
    /\ gone = {} /\ started = {} /\ running = {}
    /\ events = <<>> /\ evicting = NoPod
    /\ index = {}
    /\ cache = [c \in Containers |-> NoTime]
    /\ paths = {}
    /\ call = [r \in Resolvers |-> Idle]
    /\ forgotten = [p \in Pods |-> NoTime]
    /\ answer = NoAnswer

-----------------------------------------------------------------------------
(* The cluster: external.                                                  *)

\* The first container of a pod, or its replacement after a container restart.
StartContainer(c) ==
    LET p == PodOf[c]
    IN /\ c \notin started
       /\ p \notin gone
       /\ started' = started \cup {c}
       /\ running' = (running \ {current[p]}) \cup {c}
       /\ current' = [current EXCEPT ![p] = c]
       /\ events' = Append(events, [kind |-> "add", pod |-> p, container |-> c])
       /\ UNCHANGED <<now, gone, evicting, index, cache, paths, call, forgotten, answer>>

DeletePod(p) ==
    /\ p \notin gone
    /\ current[p] # NoContainer
    /\ gone' = gone \cup {p}
    /\ running' = running \ {current[p]}
    /\ events' = Append(events, [kind |-> "delete", pod |-> p, container |-> current[p]])
    /\ UNCHANGED <<now, current, started, evicting, index, cache, paths, call, forgotten, answer>>

-----------------------------------------------------------------------------
(* Informer callbacks.                                                     *)

\* Mutation: updates of a pod that is in the index are ignored.
OnPodAdd_NewOnly ==
    /\ events # <<>> /\ Head(events).kind = "add"
    /\ index' = IF \E c \in index : PodOf[c] = Head(events).pod
                THEN index ELSE index \cup {Head(events).container}
    /\ events' = Tail(events)
    /\ UNCHANGED <<now, clusterVars, evicting, cache, paths, call, forgotten, answer>>

\* AddFunc and UpdateFunc: the containers of the pod's status are indexed.
OnPodAdd ==
    /\ events # <<>> /\ Head(events).kind = "add"
    /\ index' = index \cup {Head(events).container}
    /\ events' = Tail(events)
    /\ UNCHANGED <<now, clusterVars, evicting, cache, paths, call, forgotten, answer>>

\* Mutation: the index keeps the containers of deleted pods.
OnPodDelete_KeepsIndex ==
    /\ events # <<>> /\ Head(events).kind = "delete" /\ evicting = NoPod
    /\ evicting' = Head(events).pod
    /\ UNCHANGED <<now, clusterVars, events, index, cache, paths, call, forgotten, answer>>

\* First the containers in the last status leave the index ...
OnPodDelete ==
    /\ events # <<>> /\ Head(events).kind = "delete" /\ evicting = NoPod
    /\ index' = index \ {Head(events).container}
    /\ evicting' = Head(events).pod
    /\ UNCHANGED <<now, clusterVars, events, cache, paths, call, forgotten, answer>>

\* ... then the entries that name the pod leave the cache.
EvictPod ==
    /\ evicting # NoPod
    /\ cache' = [c \in Containers |-> IF PodOf[c] = evicting THEN NoTime ELSE cache[c]]
    /\ forgotten' = [forgotten EXCEPT ![evicting] = now]
    /\ events' = Tail(events)
    /\ evicting' = NoPod
    /\ UNCHANGED <<now, clusterVars, index, paths, call, answer>>

-----------------------------------------------------------------------------
(* Resolve.                                                                *)

Fresh(c) == cache[c] # NoTime /\ now - cache[c] < CacheTTL

\* Fast path; an expired entry is removed on the way to the slow path.
ResolveCached(r, c) ==
    /\ call[r] = Idle
    /\ c \in started
    /\ IF Fresh(c)
       THEN /\ answer' = [container |-> c, at |-> now]
            /\ UNCHANGED <<cache, call>>
       ELSE /\ cache' = [cache EXCEPT ![c] = NoTime]
            /\ call' = [call EXCEPT ![r] = [at |-> "path", container |-> c]]
            /\ UNCHANGED answer
    /\ UNCHANGED <<now, clusterVars, events, evicting, index, paths, forgotten>>

\* resolveCgroupPath: a path that was found once is never looked for again.
ResolvePath(r) ==
    /\ call[r].at = "path"
    /\ LET c == call[r].container
       IN IF c \in paths \cup running
          THEN /\ paths' = paths \cup {c}
               /\ call' = [call EXCEPT ![r] = [at |-> "index", container |-> c]]
          ELSE /\ call' = [call EXCEPT ![r] = Idle]
               /\ UNCHANGED paths
    /\ UNCHANGED <<now, clusterVars, events, evicting, index, cache, forgotten, answer>>

ResolveIndex(r) ==
    /\ call[r].at = "index"
    /\ call' = [call EXCEPT ![r] =
          IF call[r].container \in index
          THEN [at |-> "store", container |-> call[r].container, since |-> now]
          ELSE Idle]
    /\ UNCHANGED <<now, clusterVars, events, evicting, index, cache, paths, forgotten, answer>>

ResolveStore(r) ==
    /\ call[r].at = "store"
    /\ cache' = [cache EXCEPT ![call[r].container] = now]
    /\ answer' = [container |-> call[r].container, at |-> now]
    /\ call' = [call EXCEPT ![r] = Idle]
    /\ UNCHANGED <<now, clusterVars, events, evicting, index, paths, forgotten>>

Resolve(r) == ResolvePath(r) \/ ResolveIndex(r) \/ ResolveStore(r)

MapperTick ==
    /\ \A r \in Resolvers : call[r].at = "store" => now - call[r].since < MaxStall
    /\ Tick
    /\ UNCHANGED <<clusterVars, mapperVars>>

InformerNext ==
    \/ \E c \in Containers : StartContainer(c)
    \/ \E p \in Pods : DeletePod(p)
    \/ OnPodAdd \/ OnPodDelete \/ EvictPod

-----------------------------------------------------------------------------
(* Properties.                                                             *)

\* "On pod DELETE: invalidate cache entry": a Resolve that overlaps onPodDelete
\* may put the pod back into the cache, but a deleted pod is named through its
\* last container for less than the time to live (and the stall) longer.
DeletedPodFades ==
    answer # NoAnswer =>
        LET p == PodOf[answer.container]
        IN \/ forgotten[p] = NoTime
           \/ answer.container # current[p]
           \/ answer.at < forgotten[p] + CacheTTL + MaxStall

\* A container that runs and whose event was handled is in the index, whatever
\* restarts and deletions were handled before.
IndexComplete ==
    \A c \in running :
        c \notin index => \E i \in DOMAIN events : events[i].container = c
=============================================================================
