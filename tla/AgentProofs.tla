----------------------------- MODULE AgentProofs -----------------------------
(***************************************************************************)
(* The agent gives back everything the kernel gave it, for every list of   *)
(* probes, every number of tracepoints and every failure; and its mapper   *)
(* knows the containers that run and forgets the pods that are deleted,    *)
(* for all pods, containers and goroutines.  The standalone tools detach   *)
(* the probes of the modules they ran.                                     *)
(***************************************************************************)
EXTENDS NodePrograms, TLAPS

\* LoadedProbes knows of everything the kernel holds, also between the steps of
\* a probe: NothingLeaks alone says nothing before Close runs.
LeakInv ==
    /\ held \subseteq tracked
    /\ NothingLeaks

\* Nothing is held before the first probe is loaded.
LEMMA LeakInit == AgentInit => LeakInv
BY DEF AgentInit, LeakInv, NothingLeaks

\* One step per action of the loader; every other action leaves the loader alone.
LEMMA LeakStep == LeakInv /\ [AgentNext]_agentVars => LeakInv'
<1> SUFFICES ASSUME LeakInv, [AgentNext]_agentVars PROVE LeakInv'
  OBVIOUS
<1> USE DEF LeakInv, NothingLeaks
<1>1. CASE LoadCollection
  BY <1>1 DEF LoadCollection
<1>2. CASE AttachLink
  BY <1>2 DEF AttachLink
<1>3. CASE OpenRing
  BY <1>3 DEF OpenRing
<1>4. CASE EnterPoll
  BY <1>4 DEF EnterPoll
<1>5. CASE LoadFails
  BY <1>5 DEF LoadFails, Close
<1>6. CASE Shutdown
  BY <1>6 DEF Shutdown, Close
<1>7. CASE \E ring \in Rings : ReadClosed(ring)
  BY <1>7 DEF ReadClosed
<1>8. CASE UNCHANGED loaderVars
  BY <1>8 DEF loaderVars
<1>9. CASE UNCHANGED agentVars
  BY <1>8, <1>9 DEF agentVars
<1> QED
  BY <1>1, <1>2, <1>3, <1>4, <1>5, <1>6, <1>7, <1>8, <1>9
     DEF AgentNext, LoadStep, DrainRead, PollEntry, ResolveStep

\* Wherever loading fails, and on every shutdown, LoadedProbes.Close leaves no
\* collection, tracepoint or ring buffer behind (NothingLeaks).
THEOREM ProbesGivenBack == AgentSpec => []NothingLeaks
<1>1. LeakInv => NothingLeaks
  BY DEF LeakInv
<1> QED
  BY LeakInit, LeakStep, <1>1, PTL DEF AgentSpec

-----------------------------------------------------------------------------
(* The mapper's index.                                                     *)

Events == [kind : {"add", "delete"}, pod : Pods, container : Containers]

\* What waits in the informer's queue: a deletion is about a container that will
\* never run again, and the pod being evicted is that of the first event.
QueueInv ==
    /\ events \in Seq(Events)
    /\ running \subseteq started
    /\ current \in [Pods -> Containers \cup {NoContainer}]
    /\ \A p \in Pods : current[p] # NoContainer => current[p] \in started
    /\ \A i \in DOMAIN events :
          events[i].kind = "delete" => events[i].container \in started \ running
    /\ evicting # NoPod => events # <<>> /\ Head(events).kind = "delete"

IndexInv == QueueInv /\ IndexComplete

\* No container has started and no event is queued at first.
LEMMA IndexInit == AgentInit => IndexInv
BY DEF AgentInit, MapperInit, IndexInv, QueueInv, IndexComplete, Events

\* The first event leaves the queue: the others move up by one.
LEMMA Dequeued ==
    ASSUME events \in Seq(Events), events # <<>>, events' = Tail(events)
    PROVE  /\ events' \in Seq(Events)
           /\ \A i \in DOMAIN events' : i + 1 \in DOMAIN events /\ events'[i] = events[i + 1]
           /\ \A i \in DOMAIN events : i # 1 => i - 1 \in DOMAIN events'
                                                 /\ events'[i - 1] = events[i]
OBVIOUS

\* The last event joins the queue.
LEMMA Enqueued ==
    ASSUME events \in Seq(Events), NEW e \in Events, events' = Append(events, e)
    PROVE  /\ events' \in Seq(Events) /\ events' # <<>>
           /\ Len(events') \in DOMAIN events' /\ events'[Len(events')] = e
           /\ \A i \in DOMAIN events : i \in DOMAIN events' /\ events'[i] = events[i]
           /\ \A i \in DOMAIN events' : i \in DOMAIN events \/ i = Len(events')
           /\ events # <<>> => Head(events') = Head(events)
OBVIOUS

\* One step per action that touches the cluster, the queue or the index.
LEMMA IndexStep == IndexInv /\ [AgentNext]_agentVars => IndexInv'
<1> SUFFICES ASSUME IndexInv, [AgentNext]_agentVars PROVE IndexInv'
  OBVIOUS
<1> USE DEF IndexInv
<1>1. ASSUME NEW c \in Containers, StartContainer(c) PROVE IndexInv'
  <2> DEFINE p == PodOf[c]
             e == [kind |-> "add", pod |-> p, container |-> c]
  <2>1. p \in Pods /\ e \in Events
    BY MapperAssumption DEF Events
  <2>2. /\ events' = Append(events, e)
        /\ c \notin started /\ started' = started \cup {c}
        /\ running' = (running \ {current[p]}) \cup {c}
        /\ current' = [current EXCEPT ![p] = c]
        /\ UNCHANGED <<index, evicting>>
    BY <1>1 DEF StartContainer
  <2>3. e.kind = "add" /\ e.container = c
    OBVIOUS
  <2> HIDE DEF p, e
  <2>4. QueueInv'
    <3>1. (/\ running \subseteq started
           /\ current \in [Pods -> Containers \cup {NoContainer}]
           /\ \A q \in Pods : current[q] # NoContainer => current[q] \in started)'
      BY <2>1, <2>2 DEF QueueInv
    <3>2. (/\ events \in Seq(Events)
           /\ \A i \in DOMAIN events :
                 events[i].kind = "delete" => events[i].container \in started \ running
           /\ evicting # NoPod => events # <<>> /\ Head(events).kind = "delete")'
      BY <2>1, <2>2, <2>3, Enqueued DEF QueueInv
    <3> QED
      BY <3>1, <3>2 DEF QueueInv
  <2>5. IndexComplete'
    BY <2>1, <2>2, <2>3, Enqueued DEF QueueInv, IndexComplete
  <2> QED
    BY <2>4, <2>5
<1>2. ASSUME NEW p \in Pods, DeletePod(p) PROVE IndexInv'
  <2> DEFINE e == [kind |-> "delete", pod |-> p, container |-> current[p]]
  <2>1. current[p] \in started /\ e \in Events
    BY <1>2 DEF DeletePod, QueueInv, Events
  <2>2. /\ events' = Append(events, e)
        /\ running' = running \ {current[p]}
        /\ UNCHANGED <<index, evicting, current, started>>
    BY <1>2 DEF DeletePod
  <2>3. e.kind = "delete" /\ e.container = current[p]
    OBVIOUS
  <2> HIDE DEF e
  <2>4. QueueInv'
    BY <2>1, <2>2, <2>3, Enqueued DEF QueueInv
  <2>5. IndexComplete'
    BY <2>1, <2>2, <2>3, Enqueued DEF QueueInv, IndexComplete
  <2> QED
    BY <2>4, <2>5
<1>3. CASE OnPodAdd
  <2>1. /\ events # <<>> /\ Head(events).kind = "add" /\ events' = Tail(events)
        /\ index' = index \cup {Head(events).container}
        /\ UNCHANGED <<running, started, current, evicting>>
    BY <1>3 DEF OnPodAdd, clusterVars
  <2>2. evicting = NoPod
    BY <2>1 DEF QueueInv
  <2>3. QueueInv'
    BY <2>1, <2>2, Dequeued DEF QueueInv
  <2>4. IndexComplete'
    BY <2>1, Dequeued DEF QueueInv, IndexComplete
  <2> QED
    BY <2>3, <2>4
<1>4. CASE OnPodDelete
  <2>1. /\ events # <<>> /\ Head(events).kind = "delete"
        /\ index' = index \ {Head(events).container}
        /\ UNCHANGED <<running, started, current, events>>
    BY <1>4 DEF OnPodDelete, clusterVars
  <2>2. Head(events).container \notin running
    BY <2>1 DEF QueueInv
  <2>3. QueueInv'
    BY <2>1 DEF QueueInv
  <2>4. IndexComplete'
    BY <2>1, <2>2 DEF IndexComplete
  <2> QED
    BY <2>3, <2>4
<1>5. CASE EvictPod
  <2>1. /\ events # <<>> /\ Head(events).kind = "delete" /\ events' = Tail(events)
        /\ evicting' = NoPod
        /\ UNCHANGED <<running, started, current, index>>
    BY <1>5 DEF EvictPod, clusterVars, QueueInv
  <2>2. QueueInv'
    BY <2>1, Dequeued DEF QueueInv
  <2>3. Head(events).container \notin running
    BY <2>1 DEF QueueInv
  <2>4. IndexComplete'
    <3> SUFFICES ASSUME NEW c \in running, c \notin index
                 PROVE  \E i \in DOMAIN events' : events'[i].container = c
      BY <2>1 DEF IndexComplete
    <3>1. PICK i \in DOMAIN events : events[i].container = c
      BY DEF IndexComplete
    <3>2. i # 1
      BY <2>1, <2>3, <3>1 DEF QueueInv
    <3>3. i - 1 \in DOMAIN events' /\ events'[i - 1] = events[i]
      BY <2>1, <3>2, Dequeued DEF QueueInv
    <3> QED
      BY <3>1, <3>3
  <2> QED
    BY <2>2, <2>4
<1>6. CASE UNCHANGED <<clusterVars, events, evicting, index>>
  BY <1>6 DEF clusterVars, QueueInv, IndexComplete
<1>7. CASE InformerNext
  BY <1>1, <1>2, <1>3, <1>4, <1>5, <1>7 DEF InformerNext
<1>8. CASE \E r \in Resolvers : ResolveStep(r)
  BY <1>6, <1>8 DEF ResolveStep, Resolve, ResolvePath, ResolveIndex, ResolveStore
<1>9. CASE \E r, c : ResolveCached(r, c)
  BY <1>6, <1>9 DEF ResolveCached
<1>10. CASE UNCHANGED <<clusterVars, mapperVars>>
  BY <1>6, <1>10 DEF mapperVars
<1> QED
  BY <1>7, <1>8, <1>9, <1>10
     DEF AgentNext, LoadStep, LoadCollection, AttachLink, OpenRing, EnterPoll, LoadFails,
         Shutdown, ReadClosed, DrainRead, PollEntry, MapperTick, agentVars

\* A container that runs and whose event was handled is in the mapper's index,
\* whatever restarts, deletions and lookups came before.
THEOREM RunningIsIndexed == AgentSpec => []IndexComplete
<1>1. IndexInv => IndexComplete
  BY DEF IndexInv
<1> QED
  BY IndexInit, IndexStep, <1>1, PTL DEF AgentSpec

-----------------------------------------------------------------------------
(* Deleted pods.                                                           *)

\* The queue and the index of pods that are deleted: nothing is queued for a
\* pod behind its deletion, and once that was handled its last container is
\* neither queued nor indexed.
GoneInv ==
    /\ forgotten \in [Pods -> MaybeInstants]
    /\ \A p \in Pods : current[p] # NoContainer => PodOf[current[p]] = p
    /\ \A i \in DOMAIN events :
          /\ events[i].container \in started
          /\ events[i].kind = "delete" =>
                /\ events[i].pod \in gone /\ events[i].container = current[events[i].pod]
                /\ events[i].container # NoContainer
                /\ \A j \in DOMAIN events :
                      j > i => events[j].container # events[i].container
    /\ evicting # NoPod => evicting = Head(events).pod /\ Head(events).container \notin index
    /\ \A p \in Pods : forgotten[p] # NoTime =>
          /\ p \in gone /\ current[p] # NoContainer /\ current[p] \notin index
          /\ \A i \in DOMAIN events : events[i].container # current[p]

Calls ==
    [at : {"idle"}] \cup [at : {"path", "index"}, container : Containers]
        \cup [at : {"store"}, container : Containers, since : Nat]

\* The clock readings: a lookup in the index is at most MaxStall old when it is
\* used, and for a pod that is gone it was made before the pod was forgotten.
TimesInv ==
    /\ now \in Nat
    /\ cache \in [Containers -> MaybeInstants]
    /\ call \in [Resolvers -> Calls]
    /\ answer \in {NoAnswer} \cup [container : Containers, at : Nat]
    /\ answer # NoAnswer => answer.at <= now
    /\ \A r \in Resolvers : call[r].at = "store" =>
          call[r].since <= now /\ now <= call[r].since + MaxStall
    /\ \A p \in Pods : forgotten[p] # NoTime =>
          /\ cache[current[p]] <= forgotten[p] + MaxStall
          /\ \A r \in Resolvers : call[r].at = "store" /\ call[r].container = current[p] =>
                call[r].since <= forgotten[p]

FadeInv == QueueInv /\ GoneInv /\ TimesInv /\ DeletedPodFades

\* No pod is deleted and nothing is resolved at first.
LEMMA FadeInit == AgentInit => FadeInv
<1> SUFFICES ASSUME AgentInit PROVE FadeInv
  OBVIOUS
<1>1. QueueInv
  BY IndexInit DEF IndexInv
<1>2. GoneInv
  BY DEF AgentInit, MapperInit, GoneInv, MaybeInstants
<1>3. TimesInv
  BY DEF AgentInit, MapperInit, ClockInit, TimesInv, Calls, Idle, MaybeInstants
<1>4. DeletedPodFades
  BY DEF AgentInit, MapperInit, DeletedPodFades
<1> QED
  BY <1>1, <1>2, <1>3, <1>4 DEF FadeInv

\* What a queued event says.
LEMMA Queued ==
    ASSUME events \in Seq(Events), NEW i \in DOMAIN events
    PROVE  events[i] \in Events /\ events[i].pod \in Pods /\ events[i].container \in Containers
<1>1. events[i] \in Events
  OBVIOUS
<1> QED
  BY <1>1 DEF Events

\* A new container is not the last one of a deleted pod, and its event is not
\* about any container queued before.
LEMMA FadeStart ==
    ASSUME FadeInv, QueueInv', NEW c \in Containers, StartContainer(c)
    PROVE  FadeInv'
<1> DEFINE p == PodOf[c]
           e == [kind |-> "add", pod |-> p, container |-> c]
<1>1. p \in Pods /\ e \in Events
  BY MapperAssumption DEF Events
<1>2. /\ events' = Append(events, e)
      /\ c \notin started /\ started' = started \cup {c}
      /\ p \notin gone
      /\ current' = [current EXCEPT ![p] = c]
      /\ UNCHANGED <<now, gone, evicting, index, cache, call, forgotten, answer>>
  BY DEF StartContainer
<1>3. e.kind = "add" /\ e.container = c
  OBVIOUS
<1> USE DEF FadeInv
<1>4. \A q \in Pods : forgotten[q] # NoTime => q # p /\ current'[q] = current[q]
  BY <1>1, <1>2 DEF GoneInv, QueueInv
<1>5. GoneInv'
  <2>1. (/\ forgotten \in [Pods -> MaybeInstants]
         /\ \A q \in Pods : current[q] # NoContainer => PodOf[current[q]] = q)'
    BY <1>1, <1>2 DEF GoneInv, QueueInv
  <2>2. \A i \in DOMAIN events' : events'[i].container \in started'
    BY <1>1, <1>2, <1>3, Enqueued DEF GoneInv, QueueInv
  <2>3. ASSUME NEW i \in DOMAIN events', events'[i].kind = "delete"
        PROVE  /\ events'[i].pod \in gone'
               /\ events'[i].container = current'[events'[i].pod]
               /\ events'[i].container # NoContainer
               /\ \A j \in DOMAIN events' : j > i => events'[j].container # events'[i].container
    <3>1. i \in DOMAIN events /\ events'[i] = events[i]
      BY <1>1, <1>2, <1>3, <2>3, Enqueued DEF QueueInv
    <3>2. events[i] \in Events /\ events[i].pod \in Pods
      BY <3>1, Queued DEF QueueInv
    <3>3. /\ events[i].pod \in gone /\ events[i].container = current[events[i].pod]
          /\ events[i].container # NoContainer /\ events[i].container \in started
      BY <2>3, <3>1 DEF GoneInv
    <3>4. current'[events[i].pod] = current[events[i].pod]
      BY <1>1, <1>2, <3>2, <3>3 DEF QueueInv
    <3>5. ASSUME NEW j \in DOMAIN events', j > i
          PROVE  events'[j].container # events'[i].container
      <4>1. CASE j \in DOMAIN events
        BY <1>1, <1>2, <2>3, <3>1, <3>5, <4>1, Enqueued DEF GoneInv, QueueInv
      <4>2. CASE j = Len(events')
        BY <1>1, <1>2, <1>3, <3>1, <3>3, <4>2, Enqueued DEF QueueInv
      <4> QED
        BY <1>1, <1>2, <4>1, <4>2, Enqueued DEF QueueInv
    <3> QED
      BY <1>2, <3>1, <3>3, <3>4, <3>5
  <2>4. (evicting # NoPod => evicting = Head(events).pod /\ Head(events).container \notin index)'
    BY <1>1, <1>2, Enqueued DEF GoneInv, QueueInv
  <2>5. ASSUME NEW q \in Pods, forgotten'[q] # NoTime
        PROVE  /\ q \in gone' /\ current'[q] # NoContainer /\ current'[q] \notin index'
               /\ \A i \in DOMAIN events' : events'[i].container # current'[q]
    <3>1. current'[q] = current[q] /\ current[q] \in started
      BY <1>2, <1>4, <2>5 DEF GoneInv, QueueInv
    <3>2. \A i \in DOMAIN events' : events'[i].container # current[q]
      BY <1>1, <1>2, <1>3, <2>5, <3>1, Enqueued DEF GoneInv, QueueInv
    <3> QED
      BY <1>2, <2>5, <3>1, <3>2 DEF GoneInv
  <2> QED
    BY <2>1, <2>2, <2>3, <2>4, <2>5 DEF GoneInv
<1>6. TimesInv'
  BY <1>2, <1>4 DEF TimesInv
<1>7. DeletedPodFades'
  BY <1>2, <1>4, MapperAssumption DEF DeletedPodFades, TimesInv
<1> QED
  BY <1>5, <1>6, <1>7

\* A deletion joins the queue: nothing queued for the container is behind it.
LEMMA FadeDelete ==
    ASSUME FadeInv, QueueInv', NEW p \in Pods, DeletePod(p)
    PROVE  FadeInv'
<1> DEFINE e == [kind |-> "delete", pod |-> p, container |-> current[p]]
<1>1. /\ current[p] # NoContainer /\ current[p] \in started /\ e \in Events
      /\ PodOf[current[p]] = p
  BY DEF FadeInv, DeletePod, QueueInv, GoneInv, Events
<1>2. /\ events' = Append(events, e)
      /\ p \notin gone /\ gone' = gone \cup {p}
      /\ UNCHANGED <<now, started, current, evicting, index, cache, call, forgotten, answer>>
  BY DEF DeletePod
<1>3. e.pod = p /\ e.container = current[p]
  OBVIOUS
<1> HIDE DEF e
<1> USE DEF FadeInv
<1>4. GoneInv'
  <2>1. (/\ forgotten \in [Pods -> MaybeInstants]
         /\ \A q \in Pods : current[q] # NoContainer => PodOf[current[q]] = q)'
    BY <1>2 DEF GoneInv
  <2>2. \A i \in DOMAIN events' : events'[i].container \in started'
    BY <1>1, <1>2, <1>3, Enqueued DEF GoneInv, QueueInv
  <2>3. ASSUME NEW i \in DOMAIN events', events'[i].kind = "delete"
        PROVE  /\ events'[i].pod \in gone'
               /\ events'[i].container = current'[events'[i].pod]
               /\ events'[i].container # NoContainer
               /\ \A j \in DOMAIN events' : j > i => events'[j].container # events'[i].container
    <3>1. CASE i \in DOMAIN events
      <4>1. events'[i] = events[i] /\ events[i].kind = "delete"
        BY <1>1, <1>2, <2>3, <3>1, Enqueued DEF QueueInv
      <4>2. /\ events[i].pod \in gone /\ events[i].container = current[events[i].pod]
            /\ events[i].container # NoContainer
        BY <3>1, <4>1 DEF GoneInv
      <4>3. events[i].pod \in Pods /\ PodOf[events[i].container] = events[i].pod
        BY <3>1, <4>2, Queued DEF GoneInv, QueueInv
      <4>4. events[i].container # current[p]
        BY <1>1, <1>2, <4>2, <4>3
      <4>5. ASSUME NEW j \in DOMAIN events', j > i
            PROVE  events'[j].container # events'[i].container
        <5>1. CASE j \in DOMAIN events
          BY <1>1, <1>2, <3>1, <4>1, <4>5, <5>1, Enqueued DEF GoneInv, QueueInv
        <5>2. CASE j = Len(events')
          BY <1>1, <1>2, <1>3, <4>1, <4>4, <5>2, Enqueued DEF QueueInv
        <5> QED
          BY <1>1, <1>2, <5>1, <5>2, Enqueued DEF QueueInv
      <4> QED
        BY <1>2, <4>1, <4>2, <4>5
    <3>2. CASE i = Len(events')
      <4>1. events'[i] = e
        BY <1>1, <1>2, <3>2, Enqueued DEF QueueInv
      <4>2. \A j \in DOMAIN events' : ~(j > i)
        BY <3>2 DEF QueueInv
      <4> QED
        BY <1>1, <1>2, <1>3, <4>1, <4>2
    <3> QED
      BY <1>1, <1>2, <3>1, <3>2, Enqueued DEF QueueInv
  <2>4. (evicting # NoPod => evicting = Head(events).pod /\ Head(events).container \notin index)'
    BY <1>1, <1>2, Enqueued DEF GoneInv, QueueInv
  <2>5. ASSUME NEW q \in Pods, forgotten'[q] # NoTime
        PROVE  /\ q \in gone' /\ current'[q] # NoContainer /\ current'[q] \notin index'
               /\ \A i \in DOMAIN events' : events'[i].container # current'[q]
    <3>1. q \in gone /\ current[q] # NoContainer /\ current[q] \notin index
      BY <1>2, <2>5 DEF GoneInv
    <3>2. current[q] # current[p]
      BY <1>1, <1>2, <3>1 DEF GoneInv
    <3>3. \A i \in DOMAIN events' : events'[i].container # current[q]
      BY <1>1, <1>2, <1>3, <2>5, <3>2, Enqueued DEF GoneInv, QueueInv
    <3> QED
      BY <1>2, <3>1, <3>3
  <2> QED
    BY <2>1, <2>2, <2>3, <2>4, <2>5 DEF GoneInv
<1>5. TimesInv' /\ DeletedPodFades'
  BY <1>2 DEF TimesInv, DeletedPodFades
<1> QED
  BY <1>4, <1>5

\* The first event is handled and leaves the queue, as far as the queue goes.
LEMMA GoneDequeued ==
    ASSUME QueueInv, GoneInv, events # <<>>, events' = Tail(events),
           UNCHANGED <<started, current, gone>>
    PROVE  \A i \in DOMAIN events' :
              /\ events'[i].container \in started'
              /\ events'[i].kind = "delete" =>
                    /\ events'[i].pod \in gone' /\ events'[i].container = current'[events'[i].pod]
                    /\ events'[i].container # NoContainer
                    /\ \A j \in DOMAIN events' :
                          j > i => events'[j].container # events'[i].container
<1> SUFFICES ASSUME NEW i \in DOMAIN events'
             PROVE  /\ events'[i].container \in started'
                    /\ events'[i].kind = "delete" =>
                        /\ events'[i].pod \in gone'
                        /\ events'[i].container = current'[events'[i].pod]
                        /\ events'[i].container # NoContainer
                        /\ \A j \in DOMAIN events' :
                              j > i => events'[j].container # events'[i].container
  OBVIOUS
<1>1. i + 1 \in DOMAIN events /\ events'[i] = events[i + 1]
  BY Dequeued DEF QueueInv
<1>2. ASSUME NEW j \in DOMAIN events', j > i, events'[i].kind = "delete"
      PROVE  events'[j].container # events'[i].container
  <2>1. j + 1 \in DOMAIN events /\ events'[j] = events[j + 1]
    BY Dequeued DEF QueueInv
  <2>2. j + 1 > i + 1
    BY <1>2 DEF QueueInv
  <2> QED
    BY <1>1, <1>2, <2>1, <2>2 DEF GoneInv
<1> QED
  BY <1>1, <1>2 DEF GoneInv

\* An update is handled: its container is not the last one of a forgotten pod.
LEMMA FadeAdd ==
    ASSUME FadeInv, QueueInv', OnPodAdd
    PROVE  FadeInv'
<1> USE DEF FadeInv
<1>1. /\ events # <<>> /\ Head(events).kind = "add" /\ events' = Tail(events)
      /\ index' = index \cup {Head(events).container}
      /\ UNCHANGED <<now, current, gone, started, evicting, cache, call, forgotten, answer>>
  BY DEF OnPodAdd, clusterVars
<1>2. evicting = NoPod
  BY <1>1 DEF QueueInv
<1>3. 1 \in DOMAIN events /\ Head(events) = events[1]
  BY <1>1 DEF QueueInv
<1>4. ASSUME NEW p \in Pods, forgotten'[p] # NoTime
      PROVE  /\ p \in gone' /\ current'[p] # NoContainer /\ current'[p] \notin index'
             /\ \A i \in DOMAIN events' : events'[i].container # current'[p]
  <2>1. current[p] # Head(events).container
    BY <1>1, <1>3, <1>4 DEF GoneInv
  <2>2. \A i \in DOMAIN events' : events'[i].container # current'[p]
    BY <1>1, <1>4, Dequeued DEF GoneInv, QueueInv
  <2> QED
    BY <1>1, <1>4, <2>1, <2>2 DEF GoneInv
<1>5. GoneInv'
  BY <1>1, <1>2, <1>4, GoneDequeued DEF GoneInv
<1>6. TimesInv' /\ DeletedPodFades'
  BY <1>1 DEF TimesInv, DeletedPodFades
<1> QED
  BY <1>5, <1>6

\* A deletion takes the container out of the index.
LEMMA FadeIndex ==
    ASSUME FadeInv, QueueInv', OnPodDelete
    PROVE  FadeInv'
<1> USE DEF FadeInv
<1>1. /\ index' = index \ {Head(events).container}
      /\ evicting' = Head(events).pod
      /\ UNCHANGED <<now, current, gone, started, events, cache, call, forgotten, answer>>
  BY DEF OnPodDelete, clusterVars
<1>2. GoneInv'
  BY <1>1 DEF GoneInv
<1>3. TimesInv' /\ DeletedPodFades'
  BY <1>1 DEF TimesInv, DeletedPodFades
<1> QED
  BY <1>2, <1>3

\* The pod is forgotten: from here on the clock runs against what a goroutine
\* still carries.
LEMMA FadeEvict ==
    ASSUME FadeInv, QueueInv', EvictPod
    PROVE  FadeInv'
<1> USE DEF FadeInv
<1> DEFINE e == events[1]
<1>1. /\ events # <<>> /\ events' = Tail(events)
      /\ evicting' = NoPod
      /\ cache' = [c \in Containers |-> IF PodOf[c] = evicting THEN NoTime ELSE cache[c]]
      /\ forgotten' = [forgotten EXCEPT ![evicting] = now]
      /\ UNCHANGED <<now, current, gone, started, index, call, answer>>
  BY DEF EvictPod, clusterVars, QueueInv
<1>2. 1 \in DOMAIN events /\ Head(events) = e
  BY <1>1 DEF QueueInv
<1>3. evicting = e.pod /\ e.kind = "delete" /\ e.container \notin index
  BY <1>2 DEF EvictPod, QueueInv, GoneInv
<1>4. evicting \in Pods
  BY <1>2, <1>3, Queued DEF QueueInv
<1>5. /\ evicting \in gone /\ current[evicting] = e.container
      /\ current[evicting] # NoContainer /\ current[evicting] \notin index
      /\ \A j \in DOMAIN events : j > 1 => events[j].container # current[evicting]
  BY <1>2, <1>3 DEF GoneInv
<1> HIDE DEF e
<1>6. \A i \in DOMAIN events' : events'[i].container # current[evicting]
  <2> SUFFICES ASSUME NEW i \in DOMAIN events' PROVE events'[i].container # current[evicting]
    OBVIOUS
  <2>1. i + 1 \in DOMAIN events /\ events'[i] = events[i + 1] /\ i + 1 > 1
    BY <1>1, Dequeued DEF QueueInv
  <2> QED
    BY <1>5, <2>1
<1>7. ASSUME NEW p \in Pods, forgotten'[p] # NoTime
      PROVE  /\ p \in gone' /\ current'[p] # NoContainer /\ current'[p] \notin index'
             /\ \A i \in DOMAIN events' : events'[i].container # current'[p]
  <2>1. CASE p = evicting
    BY <1>1, <1>5, <1>6, <2>1
  <2>2. CASE p # evicting
    <3>1. forgotten[p] # NoTime
      BY <1>1, <1>4, <1>7, <2>2 DEF GoneInv
    <3>2. \A i \in DOMAIN events' : events'[i].container # current[p]
      BY <1>1, <3>1, Dequeued DEF GoneInv, QueueInv
    <3> QED
      BY <1>1, <3>1, <3>2 DEF GoneInv
  <2> QED
    BY <2>1, <2>2
<1>8. GoneInv'
  <2>1. forgotten' \in [Pods -> MaybeInstants]
    BY <1>1, <1>4 DEF GoneInv, TimesInv, MaybeInstants
  <2>2. (\A p \in Pods : current[p] # NoContainer => PodOf[current[p]] = p)'
    BY <1>1 DEF GoneInv
  <2> QED
    BY <1>1, <1>7, <2>1, <2>2, GoneDequeued DEF GoneInv
<1>9. TimesInv'
  <2>1. ASSUME NEW p \in Pods, forgotten'[p] # NoTime
        PROVE  /\ cache'[current'[p]] <= forgotten'[p] + MaxStall
               /\ \A r \in Resolvers : call'[r].at = "store" /\ call'[r].container = current'[p] =>
                     call'[r].since <= forgotten'[p]
    <3>1. current[p] \in Containers /\ PodOf[current[p]] = p
      BY <1>1, <1>7, <2>1 DEF QueueInv, GoneInv
    <3>2. CASE p = evicting
      <4>1. cache'[current[p]] = NoTime /\ forgotten'[p] = now
        BY <1>1, <1>4, <3>1, <3>2 DEF GoneInv
      <4> QED
        BY <1>1, <4>1, MapperAssumption DEF TimesInv, NoTime
    <3>3. CASE p # evicting
      <4>1. cache'[current[p]] = cache[current[p]] /\ forgotten'[p] = forgotten[p]
        BY <1>1, <1>4, <3>1, <3>3 DEF GoneInv
      <4> QED
        BY <1>1, <2>1, <4>1 DEF TimesInv
    <3> QED
      BY <3>2, <3>3
  <2>2. cache' \in [Containers -> MaybeInstants]
    BY <1>1 DEF TimesInv, MaybeInstants
  <2> QED
    BY <1>1, <2>1, <2>2 DEF TimesInv
<1>10. DeletedPodFades'
  <2> SUFFICES ASSUME answer # NoAnswer
               PROVE  LET p == PodOf[answer.container]
                      IN \/ forgotten'[p] = NoTime
                         \/ answer.container # current[p]
                         \/ answer.at < forgotten'[p] + CacheTTL + MaxStall
    BY <1>1 DEF DeletedPodFades
  <2> DEFINE p == PodOf[answer.container]
  <2>1. answer.container \in Containers /\ answer.at \in Nat /\ answer.at <= now /\ now \in Nat
    BY DEF TimesInv
  <2>2. p \in Pods
    BY <2>1, MapperAssumption
  <2>3. CASE p = evicting
    <3>1. forgotten'[p] = now
      BY <1>1, <2>2, <2>3 DEF GoneInv
    <3> QED
      BY <2>1, <3>1, MapperAssumption
  <2>4. CASE p # evicting
    <3>1. forgotten'[p] = forgotten[p]
      BY <1>1, <2>2, <2>4 DEF GoneInv
    <3> QED
      BY <3>1 DEF DeletedPodFades
  <2> QED
    BY <2>3, <2>4
<1> QED
  BY <1>8, <1>9, <1>10

\* What a goroutine carries, by the point of Resolve it is at.
LEMMA CallShape ==
    ASSUME TimesInv, NEW r \in Resolvers
    PROVE  /\ call[r].at \in {"path", "index", "store"} => call[r].container \in Containers
           /\ call[r].at = "store" => call[r].since \in Nat
BY DEF TimesInv, Calls

\* The steps of Resolve: an entry that is stored, and an answer from the cache,
\* are young enough if they name a pod that was forgotten.
LEMMA FadeResolve ==
    ASSUME FadeInv, QueueInv', NEW r \in Resolvers,
           Resolve(r) \/ \E c \in Containers : ResolveCached(r, c)
    PROVE  FadeInv'
<1> USE DEF FadeInv
<1>1. ASSUME UNCHANGED <<clusterVars, events, evicting, index, forgotten>> PROVE GoneInv'
  BY <1>1 DEF clusterVars, GoneInv
<1>2. ASSUME NEW c \in Containers, ResolveCached(r, c) PROVE FadeInv'
  <2>1. UNCHANGED <<now, current, gone, started, events, evicting, index, forgotten>> /\ GoneInv'
    BY <1>1, <1>2 DEF ResolveCached, clusterVars
  <2>2. CASE Fresh(c)
    <3>1. answer' = [container |-> c, at |-> now] /\ UNCHANGED <<cache, call>>
      BY <1>2, <2>2 DEF ResolveCached
    <3>2. TimesInv'
      BY <2>1, <3>1 DEF TimesInv
    <3>3. DeletedPodFades'
      <4> DEFINE p == PodOf[c]
      <4>1. p \in Pods /\ cache[c] \in Nat /\ now - cache[c] < CacheTTL
        BY <2>2, MapperAssumption DEF Fresh, TimesInv, MaybeInstants
      <4>2. ASSUME forgotten[p] # NoTime, c = current[p]
            PROVE  now < forgotten[p] + CacheTTL + MaxStall
        <5>1. cache[c] <= forgotten[p] + MaxStall /\ forgotten[p] \in Nat
          BY <4>1, <4>2 DEF TimesInv, GoneInv, MaybeInstants
        <5> QED
          BY <4>1, <5>1, MapperAssumption DEF TimesInv
      <4>3. answer'.container = c /\ answer'.at = now
        BY <3>1
      <4> QED
        BY <2>1, <4>2, <4>3 DEF DeletedPodFades
    <3> QED
      BY <2>1, <3>2, <3>3
  <2>3. CASE ~Fresh(c)
    <3>1. /\ cache' = [cache EXCEPT ![c] = NoTime]
          /\ call' = [call EXCEPT ![r] = [at |-> "path", container |-> c]]
          /\ answer' = answer
      BY <1>2, <2>3 DEF ResolveCached
    <3>2. [at |-> "path", container |-> c] \in Calls
      BY DEF Calls
    <3>3. (/\ now \in Nat /\ cache \in [Containers -> MaybeInstants]
           /\ call \in [Resolvers -> Calls])'
      BY <2>1, <3>1, <3>2 DEF TimesInv, MaybeInstants
    <3>4. \A q \in Resolvers : call'[q].at = "store" => call'[q] = call[q]
      BY <3>1 DEF TimesInv
    <3>5. \A p \in Pods : forgotten[p] # NoTime =>
             cache'[current[p]] <= forgotten[p] + MaxStall
      <4> SUFFICES ASSUME NEW p \in Pods, forgotten[p] # NoTime
                   PROVE  cache'[current[p]] <= forgotten[p] + MaxStall
        OBVIOUS
      <4>1. current[p] \in Containers /\ forgotten[p] \in Nat
        BY DEF GoneInv, QueueInv, MaybeInstants
      <4> QED
        BY <3>1, <4>1, MapperAssumption DEF TimesInv, NoTime
    <3>6. TimesInv'
      BY <2>1, <3>1, <3>3, <3>4, <3>5 DEF TimesInv
    <3> QED
      BY <2>1, <3>1, <3>6 DEF DeletedPodFades
  <2> QED
    BY <2>2, <2>3
<1>3. ASSUME NEW x \in Calls, call' = [call EXCEPT ![r] = x],
             x.at = "store" => x.since = now /\ x.container \in index,
             UNCHANGED <<now, clusterVars, events, evicting, index, cache, forgotten, answer>>
      PROVE  FadeInv'
  <2>1. UNCHANGED <<now, current, gone, started, index, cache, forgotten, answer>> /\ GoneInv'
    BY <1>1, <1>3 DEF clusterVars
  <2>2. call' \in [Resolvers -> Calls]
    BY <1>3 DEF TimesInv
  <2>3. \A q \in Resolvers : call'[q].at = "store" =>
           \/ call'[q] = call[q]
           \/ call'[q].since = now /\ call'[q].container \in index
    BY <1>3 DEF TimesInv
  <2>4. \A p \in Pods : forgotten[p] # NoTime => current[p] \notin index
    BY DEF GoneInv
  <2>5. TimesInv'
    BY <2>1, <2>2, <2>3, <2>4, MapperAssumption DEF TimesInv
  <2> QED
    BY <2>1, <2>5 DEF DeletedPodFades
<1>4. Idle \in Calls /\ Idle.at # "store"
  BY DEF Calls, Idle
<1>5. CASE ResolvePath(r)
  <2> DEFINE c == call[r].container
             x == [at |-> "index", container |-> c]
  <2>1. c \in Containers
    BY <1>5, CallShape DEF ResolvePath
  <2>2. x \in Calls /\ x.at # "store"
    BY <2>1 DEF Calls
  <2>3. \/ call' = [call EXCEPT ![r] = x]
        \/ call' = [call EXCEPT ![r] = Idle]
    BY <1>5 DEF ResolvePath
  <2> HIDE DEF x
  <2> QED
    BY <1>3, <1>4, <1>5, <2>2, <2>3 DEF ResolvePath
<1>6. CASE ResolveIndex(r)
  <2> DEFINE c == call[r].container
             x == [at |-> "store", container |-> c, since |-> now]
  <2>1. c \in Containers /\ now \in Nat
    BY <1>6, CallShape DEF ResolveIndex, TimesInv
  <2>2. x \in Calls /\ x.since = now /\ x.container = c
    BY <2>1 DEF Calls
  <2>3. \/ c \in index /\ call' = [call EXCEPT ![r] = x]
        \/ call' = [call EXCEPT ![r] = Idle]
    BY <1>6 DEF ResolveIndex
  <2> HIDE DEF x
  <2> QED
    BY <1>3, <1>4, <1>6, <2>2, <2>3 DEF ResolveIndex
<1>7. CASE ResolveStore(r)
  <2> DEFINE c == call[r].container
             a == [container |-> c, at |-> now]
  <2>1. /\ call[r].at = "store" /\ cache' = [cache EXCEPT ![c] = now]
        /\ answer' = a /\ call' = [call EXCEPT ![r] = Idle]
        /\ UNCHANGED <<now, current, gone, started, index, forgotten>> /\ GoneInv'
    BY <1>1, <1>7 DEF ResolveStore, clusterVars
  <2>2. c \in Containers /\ call[r].since \in Nat /\ now \in Nat
        /\ call[r].since <= now /\ now <= call[r].since + MaxStall
    BY <2>1, CallShape DEF TimesInv
  <2>3. \A p \in Pods : forgotten[p] # NoTime /\ c = current[p] =>
           now <= forgotten[p] + MaxStall /\ forgotten[p] \in Nat
    <3> SUFFICES ASSUME NEW p \in Pods, forgotten[p] # NoTime, c = current[p]
                 PROVE  now <= forgotten[p] + MaxStall /\ forgotten[p] \in Nat
      OBVIOUS
    <3>1. forgotten[p] \in Nat /\ call[r].since <= forgotten[p]
      BY <2>1 DEF TimesInv, GoneInv, MaybeInstants
    <3> QED
      BY <2>2, <3>1, MapperAssumption
  <2>4. a.container = c /\ a.at = now /\ a \in [container : Containers, at : Nat]
    BY <2>2
  <2> HIDE DEF c, a
  <2>5. \A q \in Resolvers : call'[q].at = "store" => call'[q] = call[q]
    BY <1>4, <2>1 DEF TimesInv
  <2>6. (/\ cache \in [Containers -> MaybeInstants] /\ call \in [Resolvers -> Calls])'
    BY <1>4, <2>1, <2>2 DEF TimesInv, MaybeInstants
  <2>7. \A p \in Pods : forgotten[p] # NoTime => cache'[current[p]] <= forgotten[p] + MaxStall
    <3> SUFFICES ASSUME NEW p \in Pods, forgotten[p] # NoTime
                 PROVE  cache'[current[p]] <= forgotten[p] + MaxStall
      OBVIOUS
    <3>1. current[p] \in Containers
      BY DEF GoneInv, QueueInv
    <3> QED
      BY <2>1, <2>3, <3>1 DEF TimesInv
  <2>8. TimesInv'
    BY <2>1, <2>2, <2>4, <2>5, <2>6, <2>7 DEF TimesInv
  <2>9. DeletedPodFades'
    <3> DEFINE p == PodOf[c]
    <3>1. p \in Pods
      BY <2>2, MapperAssumption
    <3>2. ASSUME forgotten[p] # NoTime, c = current[p]
          PROVE  now < forgotten[p] + CacheTTL + MaxStall
      BY <2>2, <2>3, <3>1, <3>2, MapperAssumption
    <3> QED
      BY <2>1, <2>4, <3>2 DEF DeletedPodFades
  <2> QED
    BY <2>1, <2>8, <2>9
<1> QED
  BY <1>2, <1>5, <1>6, <1>7 DEF Resolve

\* Time passes only while no lookup in hand is as old as MaxStall.
LEMMA FadeTick ==
    ASSUME FadeInv, QueueInv', MapperTick
    PROVE  FadeInv'
<1> USE DEF FadeInv
<1>1. now' = now + 1 /\ UNCHANGED <<clusterVars, mapperVars>>
  BY DEF MapperTick, Tick
<1>2. GoneInv' /\ DeletedPodFades'
  BY <1>1 DEF clusterVars, mapperVars, GoneInv, DeletedPodFades
<1>3. \A r \in Resolvers : call[r].at = "store" =>
         /\ call[r].since \in Nat
         /\ call[r].since <= now + 1 /\ now + 1 <= call[r].since + MaxStall
  <2> SUFFICES ASSUME NEW r \in Resolvers, call[r].at = "store"
               PROVE  /\ call[r].since \in Nat
                      /\ call[r].since <= now + 1 /\ now + 1 <= call[r].since + MaxStall
    OBVIOUS
  <2>1. call[r].since \in Nat /\ call[r].since <= now /\ now - call[r].since < MaxStall
    BY CallShape DEF MapperTick, TimesInv
  <2> QED
    BY <2>1, MapperAssumption DEF TimesInv
<1>4. answer # NoAnswer => answer.at <= now + 1
  BY DEF TimesInv
<1>5. TimesInv'
  BY <1>1, <1>3, <1>4 DEF clusterVars, mapperVars, TimesInv
<1> QED
  BY <1>2, <1>5

\* One step per action of the cluster, the informer and the resolving goroutines.
LEMMA FadeStep == FadeInv /\ IndexInv /\ IndexInv' /\ [AgentNext]_agentVars => FadeInv'
<1> SUFFICES ASSUME FadeInv, QueueInv', [AgentNext]_agentVars PROVE FadeInv'
  BY DEF IndexInv
<1>1. CASE InformerNext
  BY <1>1, FadeStart, FadeDelete, FadeAdd, FadeIndex, FadeEvict DEF InformerNext
<1>2. CASE \E r \in Resolvers : Resolve(r) \/ \E c \in Containers : ResolveCached(r, c)
  BY <1>2, FadeResolve
<1>3. CASE MapperTick
  BY <1>3, FadeTick
<1>4. CASE UNCHANGED <<now, clusterVars, mapperVars>>
  BY <1>4 DEF clusterVars, mapperVars, FadeInv, GoneInv, TimesInv, DeletedPodFades
<1>5. Rings \subseteq Resolvers /\ Poller \in Resolvers
  BY AgentAssumption
<1> QED
  BY <1>1, <1>2, <1>3, <1>4, <1>5
     DEF AgentNext, LoadStep, LoadCollection, AttachLink, OpenRing, EnterPoll, LoadFails,
         Shutdown, ReadClosed, DrainRead, PollEntry, ResolveStep, agentVars

\* A lookup that overlaps the deletion of a pod may put it back into the cache, but
\* the pod is named through its last container for less than the time to live and
\* the longest stall after onPodDelete has returned.
THEOREM DeletedPodsFade == AgentSpec => []DeletedPodFades
<1>1. FadeInv => DeletedPodFades
  BY DEF FadeInv
<1> QED
  BY IndexInit, IndexStep, FadeInit, FadeStep, <1>1, PTL DEF AgentSpec
-----------------------------------------------------------------------------
(* The standalone tools.                                                   *)

Modules == {Order[j] : j \in 1 .. Len(Order)}

Handles == {Pin} \cup {Coll(m) : m \in Modules} \cup {Reader(m) : m \in Modules}
               \cup ({"probe"} \X Modules \X Nat)

\* The modules that have had their turn.
Turned == {Order[j] : j \in 1 .. turn - 1}

\* What the loader of the present module has opened so far.
InHand(h) ==
    /\ turn <= Len(Order) /\ h[2] = Module /\ h[1] \in {"collection", "probe"}
    /\ Module # "lineage" /\ Coll(Module) \in open

InCalls(h, calls) == \E i \in DOMAIN calls : h \in calls[i]
IsDeferred(h) == InCalls(h, deferred)

\* The collection of a module that main was not given.
Unreturned(h) == h[1] = "collection" /\ h[2] \in loaded \ Returned

\* An open handle that some variable refers to is going to be closed: it is in a
\* deferred call, or will be once its module is loaded, or all modules are.  The
\* collections main was not given are the exception, as are the readers and the pin
\* of the TUI.
Owed(h) ==
    \/ IsDeferred(h)
    \/ Unreturned(h)
    \/ program = "tui" /\ h[1] \in {"reader", "pin"}
    \/ /\ stage = "load"
       /\ \/ h[1] = "pin" \/ InHand(h)
          \/ program = "tui" /\ h[1] = "probe" /\ h[2] \in loaded

ToolTyped ==
    /\ program \in {"observer", "tui"}
    /\ stage \in {"load", "run", "closing", "returned", "exited"}
    /\ turn \in 1 .. Len(Order) + 1 /\ tried \in Nat
    /\ open \subseteq Handles /\ deferred \in Seq(SUBSET Handles)
    /\ Coll("lineage") \notin open
    /\ loaded \subseteq Turned
    /\ stage = "exited" => open = {} /\ lost = {} /\ deferred = <<>>
    /\ stage = "returned" => deferred = <<>>

LostInv ==
    /\ lost \subseteq open
    /\ \A h \in lost : h[1] = "probe" /\ h[2] \in Turned \ loaded

DeferInv ==
    /\ \A h \in open \ lost : Owed(h)
    /\ \A i \in DOMAIN deferred : \A h \in deferred[i] : h[1] = "pin" \/ h[2] \in loaded

ToolInv == ToolTyped /\ LostInv /\ DeferInv

LEMMA OrderIs ==
    /\ Len(Order) = 10
    /\ \A i, j \in 1 .. 10 : Order[i] = Order[j] => i = j
<1>1. \A i \in 1 .. 10 : i \in {1, 2, 3, 4, 5, 6, 7, 8, 9, 10}
  OBVIOUS
<1>2. Len(Order) = 10
  BY DEF Order
<1>3. /\ Order[1] = "cpu" /\ Order[2] = "memory" /\ Order[3] = "io" /\ Order[4] = "network"
      /\ Order[5] = "syscall" /\ Order[6] = "exec" /\ Order[7] = "lineage" /\ Order[8] = "dns"
      /\ Order[9] = "privesc" /\ Order[10] = "escape"
  BY DEF Order
<1>4. \A i, j \in 1 .. 10 : Order[i] = Order[j] => i = j
  BY <1>1, <1>3
<1> QED
  BY <1>2, <1>4

\* The module whose turn it is has not had it before.
LEMMA TurnIs ==
    ASSUME turn \in 1 .. Len(Order)
    PROVE  /\ Module \notin Turned
           /\ turn + 1 \in 1 .. Len(Order) + 1
           /\ {Order[j] : j \in 1 .. (turn + 1) - 1} = Turned \cup {Module}
           /\ \A n \in Nat : /\ Coll(Module) \in Handles /\ Reader(Module) \in Handles
                             /\ Probe(Module, n) \in Handles
<1>1. turn \in Nat /\ turn >= 1 /\ turn <= 10
  BY OrderIs
<1>2. Module \notin Turned
  BY <1>1, OrderIs DEF Turned, Module
<1>3. {Order[j] : j \in 1 .. (turn + 1) - 1} = Turned \cup {Module}
  <2>1. 1 .. (turn + 1) - 1 = (1 .. turn - 1) \cup {turn}
    BY <1>1
  <2> QED
    BY <2>1 DEF Turned, Module
<1>5. Module \in Modules
  BY DEF Module, Modules
<1>6. \A n \in Nat : /\ Coll(Module) \in Handles /\ Reader(Module) \in Handles
                     /\ Probe(Module, n) \in Handles
  BY <1>5 DEF Handles, Coll, Reader, Probe
<1>7. turn + 1 \in 1 .. Len(Order) + 1
  BY <1>1, OrderIs
<1> QED
  BY <1>2, <1>3, <1>6, <1>7

LEMMA HandleKinds ==
    /\ \A m : Coll(m)[1] = "collection" /\ Coll(m)[2] = m
    /\ \A m : Reader(m)[1] = "reader" /\ Reader(m)[2] = m
    /\ \A m, i : Probe(m, i)[1] = "probe" /\ Probe(m, i)[2] = m
    /\ Pin[1] = "pin" /\ \A h \in Handles : h[1] = "pin" => h = Pin
    /\ \A m, k : Coll(m) = Coll(k) => m = k
    /\ \A h \in Handles : h[1] = "collection" => h = Coll(h[2])
BY DEF Coll, Reader, Probe, Pin, Handles
LEMMA ToolStart == ToolInit => ToolInv
<1> SUFFICES ASSUME ToolInit PROVE ToolInv
  OBVIOUS
<1> USE DEF ToolInit
<1>1. \A h \in open : h = Pin /\ h[1] = "pin"
  BY HandleKinds
<1>2. ToolTyped
  <2>1. 1 \in 1 .. Len(Order) + 1
    BY OrderIs
  <2>2. open \subseteq Handles
    BY <1>1 DEF Handles
  <2>3. program \in {"observer", "tui"}
    BY ProgramsAssumption
  <2>4. Coll("lineage") \notin open
    BY <1>1, HandleKinds
  <2> QED
    BY <2>1, <2>2, <2>3, <2>4 DEF ToolTyped
<1>3. DeferInv
  BY <1>1 DEF DeferInv, Owed
<1> QED
  BY <1>2, <1>3 DEF ToolInv, LostInv

\* A loaded module that is passed over, or that fails with nothing open.
LEMMA PassedOver ==
    ASSUME ToolInv, Loading, Coll(Module) \notin open, NextModule,
           UNCHANGED <<program, stage, open, lost, loaded, deferred>>
    PROVE  ToolInv'
<1>1. turn \in 1 .. Len(Order)
  BY OrderIs DEF ToolInv, ToolTyped, Loading
<1>2. turn' = turn + 1 /\ tried' = 0
  BY DEF NextModule
<1>3. Turned' = Turned \cup {Module} /\ turn' \in 1 .. Len(Order) + 1
  BY <1>1, <1>2, TurnIs DEF Turned
<1>4. ToolTyped'
  BY <1>2, <1>3 DEF ToolInv, ToolTyped
<1>5. LostInv'
  BY <1>3 DEF ToolInv, LostInv
<1>6. ASSUME NEW h \in open \ lost PROVE Owed(h)'
  <2>1. Owed(h) /\ ~InHand(h)
    BY DEF ToolInv, DeferInv, InHand
  <2> QED
    BY <2>1 DEF Owed, IsDeferred, InCalls, Unreturned, Returned
<1>7. DeferInv'
  BY <1>6 DEF ToolInv, DeferInv
<1> QED
  BY <1>4, <1>5, <1>7 DEF ToolInv

\* Without CPU statistics, or without a terminal, the process exits.
LEMMA Exits ==
    ASSUME ToolInv, stage \in {"load", "run"}, stage' = "exited", open' = {}, lost' = {},
           deferred' = <<>>, UNCHANGED <<program, turn, tried, loaded>>
    PROVE  ToolInv'
<1>1. ToolTyped'
  BY DEF ToolInv, ToolTyped, Turned
<1>2. LostInv' /\ DeferInv'
  BY DEF LostInv, DeferInv, InCalls
<1> QED
  BY <1>1, <1>2 DEF ToolInv

LEMMA CollectionKeeps == ToolInv /\ NewCollection => ToolInv'
<1> SUFFICES ASSUME ToolInv, NewCollection PROVE ToolInv'
  OBVIOUS
<1>1. turn \in 1 .. Len(Order) /\ Loading /\ stage = "load"
  BY OrderIs DEF ToolInv, ToolTyped, Loading, NewCollection
<1>2. /\ open' = open \cup {Coll(Module)} /\ Module # "lineage" /\ Ready(Module)
      /\ UNCHANGED <<program, stage, turn, tried, lost, loaded, deferred>>
  BY DEF NewCollection
<1>3. ToolTyped'
  BY <1>1, <1>2, TurnIs, HandleKinds DEF ToolInv, ToolTyped, Turned
<1>4. LostInv'
  BY <1>2 DEF ToolInv, LostInv, Turned
<1>6. ASSUME NEW h \in open' \ lost' PROVE Owed(h)'
  <2>1. CASE h = Coll(Module)
    BY <1>1, <1>2, <2>1, HandleKinds DEF Owed, InHand, Loading, Module
  <2>2. CASE h # Coll(Module)
    <3>1. Owed(h)
      BY <1>2, <1>6, <2>2 DEF ToolInv, DeferInv
    <3> QED
      BY <1>2, <3>1 DEF Owed, IsDeferred, InCalls, InHand, Module, Unreturned, Returned
  <2> QED
    BY <2>1, <2>2
<1>7. DeferInv'
  BY <1>2, <1>6 DEF ToolInv, DeferInv
<1> QED
  BY <1>3, <1>4, <1>7 DEF ToolInv

LEMMA AttachKeeps == ToolInv /\ Attach => ToolInv'
<1> SUFFICES ASSUME ToolInv, Attach PROVE ToolInv'
  OBVIOUS
<1> DEFINE new == Probe(Module, tried + 1)
<1>1. turn \in 1 .. Len(Order) /\ Loading /\ stage = "load"
  BY OrderIs DEF ToolInv, ToolTyped, Loading, Attach
<1>2. /\ open' = open \cup {new} \/ open' = open
      /\ Coll(Module) \in open /\ tried' = tried + 1
      /\ UNCHANGED <<program, stage, turn, lost, loaded, deferred>>
  BY DEF Attach
<1>3. tried \in Nat /\ tried + 1 \in Nat
  BY DEF ToolInv, ToolTyped
<1>4. new[1] = "probe" /\ new[2] = Module /\ new \in Handles
  BY <1>1, <1>3, HandleKinds, TurnIs
<1> HIDE DEF new
<1>5. \A m : Coll(m) \in open' <=> Coll(m) \in open
  BY <1>2, <1>4, HandleKinds
<1>6. ToolTyped'
  BY <1>1, <1>2, <1>3, <1>4, <1>5 DEF ToolInv, ToolTyped, Turned
<1>7. LostInv'
  BY <1>2 DEF ToolInv, LostInv, Turned
<1>8. ASSUME NEW h \in open' \ lost' PROVE Owed(h)'
  <2>1. CASE h = new
    <3>1. Module # "lineage"
      BY <1>2 DEF ToolInv, ToolTyped
    <3> QED
      BY <1>1, <1>2, <1>4, <1>5, <2>1, <3>1 DEF Owed, InHand, Loading, Module
  <2>2. CASE h # new
    <3>1. Owed(h)
      BY <1>2, <1>8, <2>2 DEF ToolInv, DeferInv
    <3> QED
      BY <1>2, <1>5, <3>1 DEF Owed, IsDeferred, InCalls, InHand, Module, Unreturned, Returned
  <2> QED
    BY <2>1, <2>2
<1>9. DeferInv'
  BY <1>2, <1>8 DEF ToolInv, DeferInv
<1> QED
  BY <1>6, <1>7, <1>9 DEF ToolInv
\* After a failure the tool goes on without the module: what the loader opened is
\* closed, or lost with attachProbes' result.
LEMMA GoesOn ==
    ASSUME ToolInv, Loading, NextModule, UNCHANGED <<program, stage, loaded, deferred>>,
           NEW S, S \subseteq ProbesOf(Module) \cup {Coll(Module)}, Coll(Module) \in S,
           open' = open \ S, lost' = lost \cup (ProbesOf(Module) \ S)
    PROVE  ToolInv'
<1>1. turn \in 1 .. Len(Order) /\ stage = "load"
  BY OrderIs DEF ToolInv, ToolTyped, Loading
<1>2. turn' = turn + 1 /\ tried' = 0
  BY DEF NextModule
<1>3. /\ Turned' = Turned \cup {Module} /\ turn' \in 1 .. Len(Order) + 1 /\ Module \notin Turned
      /\ Module \notin loaded
  BY <1>1, <1>2, TurnIs DEF Turned, ToolInv, ToolTyped
<1>4. ToolTyped'
  BY <1>1, <1>2, <1>3 DEF ToolInv, ToolTyped
<1>5. \A h \in S : h \notin lost
  <2>1. \A h \in S : h[2] = Module
    BY HandleKinds DEF ProbesOf
  <2> QED
    BY <1>3, <2>1 DEF ToolInv, LostInv
<1>6. LostInv'
  <2>1. lost' \subseteq open'
    BY <1>5 DEF ToolInv, LostInv, ProbesOf
  <2>2. \A h \in lost' : h[1] = "probe" /\ h[2] \in Turned' \ loaded
    BY <1>3 DEF ToolInv, LostInv, ProbesOf
  <2> QED
    BY <2>1, <2>2 DEF LostInv
<1>7. open' \ lost' \subseteq open \ lost
  OBVIOUS
<1>9. ASSUME NEW h \in open' \ lost' PROVE Owed(h)'
  <2>1. Owed(h)
    BY <1>7, <1>9 DEF ToolInv, DeferInv
  <2>2. ~InHand(h)
    <3> SUFFICES ASSUME InHand(h) PROVE FALSE
      OBVIOUS
    <3>1. CASE h[1] = "probe"
      <4>1. h \in ProbesOf(Module)
        BY <1>9, <3>1 DEF InHand, ProbesOf
      <4> QED
        BY <1>9, <4>1
    <3>2. CASE h[1] = "collection"
      <4>1. h = Coll(Module)
        BY <1>7, <1>9, <3>2, HandleKinds DEF ToolInv, ToolTyped, InHand
      <4> QED
        BY <1>9, <4>1
    <3> QED
      BY <3>1, <3>2 DEF InHand
  <2> QED
    BY <2>1, <2>2 DEF Owed, IsDeferred, InCalls, Unreturned, Returned
<1>10. DeferInv'
  BY <1>9 DEF ToolInv, DeferInv
<1> QED
  BY <1>4, <1>6, <1>10 DEF ToolInv

LEMMA ErrorsKeep == ToolInv /\ (LoadError \/ AttachError \/ CollectorError) => ToolInv'
<1> SUFFICES ASSUME ToolInv, LoadError \/ AttachError \/ CollectorError PROVE ToolInv'
  OBVIOUS
<1>1. ASSUME NEW rest, Loading, GiveUp(rest), Module = "cpu", UNCHANGED <<program, loaded>>
      PROVE  ToolInv'
  BY <1>1, Exits DEF GiveUp, Loading
<1>2. CASE LoadError
  <2>1. CASE Module = "cpu"
    BY <1>1, <1>2, <2>1 DEF LoadError
  <2>2. CASE Module # "cpu"
    BY <1>2, <2>2, PassedOver DEF LoadError, GiveUp
  <2> QED
    BY <2>1, <2>2
<1>3. CASE AttachError
  <2>1. CASE Module = "cpu"
    BY <1>1, <1>3, <2>1 DEF AttachError
  <2>2. CASE Module # "cpu"
    <3>1. ProbesOf(Module) \ {Coll(Module)} = ProbesOf(Module)
      BY HandleKinds DEF ProbesOf
    <3>2. /\ Loading /\ NextModule /\ UNCHANGED <<program, stage, loaded, deferred>>
          /\ open' = open \ {Coll(Module)}
          /\ lost' = lost \cup (ProbesOf(Module) \ {Coll(Module)})
      BY <1>3, <2>2, <3>1 DEF AttachError, GiveUp
    <3> QED
      BY <3>2, GoesOn
  <2> QED
    BY <2>1, <2>2
<1>4. CASE CollectorError
  <2>1. CASE Module = "cpu"
    BY <1>1, <1>4, <2>1 DEF CollectorError
  <2>2. CASE Module # "cpu"
    <3> DEFINE S == ProbesOf(Module) \cup {Coll(Module)}
    <3>1. /\ Loading /\ NextModule /\ UNCHANGED <<program, stage, loaded, deferred>>
          /\ open' = open \ S /\ lost' = lost \cup (ProbesOf(Module) \ S)
      BY <1>4, <2>2 DEF CollectorError, GiveUp
    <3> QED
      BY <3>1, GoesOn
  <2> QED
    BY <2>1, <2>2
<1> QED
  BY <1>2, <1>3, <1>4
\* Calls added after others.
LEMMA CallsJoined ==
    ASSUME NEW p \in Seq(SUBSET Handles), NEW q \in Seq(SUBSET Handles)
    PROVE  /\ p \o q \in Seq(SUBSET Handles)
           /\ \A i \in DOMAIN (p \o q) : \/ i \in DOMAIN p /\ (p \o q)[i] = p[i]
                                         \/ i - Len(p) \in DOMAIN q /\ (p \o q)[i] = q[i - Len(p)]
           /\ \A h : InCalls(h, p) \/ InCalls(h, q) => InCalls(h, p \o q)
<1> DEFINE s == p \o q
           m == Len(p)
           n == Len(q)
<1>1. /\ m \in Nat /\ n \in Nat /\ DOMAIN p = 1 .. m /\ DOMAIN q = 1 .. n
      /\ s \in Seq(SUBSET Handles) /\ DOMAIN s = 1 .. m + n
      /\ \A i \in 1 .. m + n : s[i] = IF i <= m THEN p[i] ELSE q[i - m]
  OBVIOUS
<1> HIDE DEF s, m, n
<1>2. \A i \in 1 .. m : i \in 1 .. m + n /\ i <= m
  BY <1>1
<1>3. \A i \in 1 .. n : m + i \in 1 .. m + n /\ ~(m + i <= m) /\ (m + i) - m = i
  BY <1>1
<1>4. \A i \in 1 .. m + n : (i \in 1 .. m /\ i <= m) \/ (i - m \in 1 .. n /\ ~(i <= m))
  <2>1. m \in Nat /\ n \in Nat
    BY <1>1
  <2> SUFFICES ASSUME NEW i \in 1 .. m + n
               PROVE  (i \in 1 .. m /\ i <= m) \/ (i - m \in 1 .. n /\ ~(i <= m))
    OBVIOUS
  <2> QED
    BY <2>1
<1>5. \A i \in DOMAIN s : \/ i \in DOMAIN p /\ i <= m /\ s[i] = p[i]
                          \/ i - m \in DOMAIN q /\ ~(i <= m) /\ s[i] = q[i - m]
  BY <1>1, <1>4
<1>6. \A h : InCalls(h, p) \/ InCalls(h, q) => InCalls(h, s)
  BY <1>1, <1>2, <1>3 DEF InCalls
<1> QED
  BY <1>1, <1>5, <1>6 DEF s, m

LEMMA CallsOfOne ==
    ASSUME NEW X \in SUBSET Handles
    PROVE  /\ <<X>> \in Seq(SUBSET Handles) /\ \A h : InCalls(h, <<X>>) <=> h \in X
           /\ <<>> \in Seq(SUBSET Handles) /\ \A h : ~InCalls(h, <<>>)
BY DEF InCalls

LEMMA CallsOfTwo ==
    ASSUME NEW X \in SUBSET Handles, NEW Y \in SUBSET Handles
    PROVE  <<X, Y>> \in Seq(SUBSET Handles) /\ \A h : InCalls(h, <<X, Y>>) <=> h \in X \cup Y
<1>1. 1 .. 2 = {1, 2}
  OBVIOUS
<1> QED
  BY <1>1 DEF InCalls

LEMMA CallsOfThree ==
    ASSUME NEW X \in SUBSET Handles, NEW Y \in SUBSET Handles, NEW Z \in SUBSET Handles
    PROVE  /\ <<X, Y, Z>> \in Seq(SUBSET Handles)
           /\ \A h : InCalls(h, <<X, Y, Z>>) <=> h \in X \cup Y \cup Z
<1>1. 1 .. 3 = {1, 2, 3}
  OBVIOUS
<1> QED
  BY <1>1 DEF InCalls

\* What main defers for the module just loaded.
LEMMA DefersIs ==
    ASSUME ToolTyped, turn \in 1 .. Len(Order), Module # "lineage"
    PROVE  /\ Defers(Module) \in Seq(SUBSET Handles)
           /\ \A h : InCalls(h, Defers(Module)) => h \in Handles /\ h[2] = Module
           /\ Module \in Returned => InCalls(Coll(Module), Defers(Module))
           /\ program = "observer" =>
                 /\ \A h \in ProbesOf(Module) : InCalls(h, Defers(Module))
                 /\ Module # "cpu" => InCalls(Reader(Module), Defers(Module))
<1> DEFINE m == Module
           P == ProbesOf(m)
           C == {Coll(m)}
           R == {Reader(m)}
<1>1. /\ P \in SUBSET Handles /\ C \in SUBSET Handles /\ R \in SUBSET Handles
      /\ \A h \in P \cup C \cup R : h[2] = m
  <2>1. P \subseteq open /\ open \subseteq Handles
    BY DEF ProbesOf, ToolTyped
  <2>2. \A h \in P \cup C \cup R : h[2] = m
    BY HandleKinds DEF ProbesOf
  <2>3. Coll(m) \in Handles /\ Reader(m) \in Handles
    BY TurnIs
  <2> QED
    BY <2>1, <2>2, <2>3
<1>2. \/ program = "observer" /\ m = "cpu" /\ Defers(m) = <<P, C>>
      \/ program = "observer" /\ m = "exec" /\ Defers(m) = <<R, P, C>>
      \/ program = "observer" /\ m # "cpu" /\ m # "exec" /\ Defers(m) = <<R, P>>
      \/ program # "observer" /\ m = "exec" /\ Defers(m) = <<C>>
      \/ program # "observer" /\ m # "exec" /\ Defers(m) = <<>>
  BY DEF Defers, ObserverDefers, TuiDefers
<1> HIDE DEF m, P, C, R
<1>3. /\ <<P, C>> \in Seq(SUBSET Handles) /\ \A h : InCalls(h, <<P, C>>) <=> h \in P \cup C
      /\ <<R, P>> \in Seq(SUBSET Handles) /\ \A h : InCalls(h, <<R, P>>) <=> h \in R \cup P
  BY <1>1, CallsOfTwo
<1>4. /\ <<R, P, C>> \in Seq(SUBSET Handles)
      /\ \A h : InCalls(h, <<R, P, C>>) <=> h \in R \cup P \cup C
  BY <1>1, CallsOfThree
<1>5. /\ <<C>> \in Seq(SUBSET Handles) /\ \A h : InCalls(h, <<C>>) <=> h \in C
      /\ <<>> \in Seq(SUBSET Handles) /\ \A h : ~InCalls(h, <<>>)
  BY <1>1, CallsOfOne
<1>6. /\ Defers(m) \in Seq(SUBSET Handles)
      /\ \A h : InCalls(h, Defers(m)) => h \in P \cup C \cup R
  <2>1. CASE Defers(m) = <<P, C>>
    BY <1>3, <2>1, Zenon
  <2>2. CASE Defers(m) = <<R, P, C>>
    BY <1>4, <2>2, Zenon
  <2>3. CASE Defers(m) = <<R, P>>
    BY <1>3, <2>3, Zenon
  <2>4. CASE Defers(m) = <<C>>
    BY <1>5, <2>4, Zenon
  <2>5. CASE Defers(m) = <<>>
    BY <1>5, <2>5, Zenon
  <2> QED
    BY <1>2, <2>1, <2>2, <2>3, <2>4, <2>5, Zenon
<1>7. m \in Returned => InCalls(Coll(m), Defers(m))
  <2>1. Coll(m) \in C
    BY DEF C
  <2> QED
    BY <1>2, <1>3, <1>4, <1>5, <2>1 DEF Returned
<1>8. program = "observer" => \A h \in P : InCalls(h, Defers(m))
  BY <1>2, <1>3, <1>4
<1>9. program = "observer" /\ m # "cpu" => InCalls(Reader(m), Defers(m))
  <2>1. Reader(m) \in R
    BY DEF R
  <2> QED
    BY <1>2, <1>3, <1>4, <2>1
<1>10. \A h : InCalls(h, Defers(m)) => h \in Handles /\ h[2] = m
  BY <1>1, <1>6
<1> QED
  BY <1>6, <1>7, <1>8, <1>9, <1>10 DEF m, P
LEMMA CollectorKeeps == ToolInv /\ NewCollector => ToolInv'
<1> SUFFICES ASSUME ToolInv, NewCollector PROVE ToolInv'
  OBVIOUS
<1> DEFINE m == Module
           D == Defers(m)
<1>1. turn \in 1 .. Len(Order) /\ Loading /\ stage = "load" /\ Coll(m) \in open /\ m # "lineage"
  BY OrderIs DEF ToolInv, ToolTyped, Loading, NewCollector
<1>2. /\ loaded' = loaded \cup {m} /\ deferred' = deferred \o D
      /\ open' = (IF m = "cpu" THEN open ELSE open \cup {Reader(m)})
      /\ turn' = turn + 1 /\ tried' = 0
      /\ UNCHANGED <<program, stage, lost>>
  BY DEF NewCollector, NextModule
<1>3. /\ Turned' = Turned \cup {m} /\ turn' \in 1 .. Len(Order) + 1 /\ m \notin Turned
      /\ m \notin loaded /\ Reader(m) \in Handles
  <2>1. Reader(m) \in Handles
    <3>1. 0 \in Nat
      OBVIOUS
    <3> QED
      BY <1>1, <3>1, TurnIs
  <2> QED
    BY <1>1, <1>2, <2>1, TurnIs DEF Turned, ToolInv, ToolTyped
<1>4. /\ D \in Seq(SUBSET Handles)
      /\ \A h : InCalls(h, D) => h \in Handles /\ h[2] = m
      /\ m \in Returned => InCalls(Coll(m), D)
      /\ program = "observer" =>
            /\ \A h \in ProbesOf(m) : InCalls(h, D)
            /\ m # "cpu" => InCalls(Reader(m), D)
  BY <1>1, DefersIs DEF ToolInv
<1>5. deferred \in Seq(SUBSET Handles)
  BY DEF ToolInv, ToolTyped
<1> HIDE DEF D
<1>6. /\ deferred \o D \in Seq(SUBSET Handles)
      /\ \A i \in DOMAIN (deferred \o D) :
            \/ i \in DOMAIN deferred /\ (deferred \o D)[i] = deferred[i]
            \/ i - Len(deferred) \in DOMAIN D /\ (deferred \o D)[i] = D[i - Len(deferred)]
      /\ \A h : InCalls(h, deferred) \/ InCalls(h, D) => InCalls(h, deferred \o D)
  BY <1>4, <1>5, CallsJoined
<1>7. ToolTyped'
  <2>1. Coll("lineage") \notin open'
    BY <1>2, HandleKinds DEF ToolInv, ToolTyped
  <2> QED
    BY <1>1, <1>2, <1>3, <1>6, <2>1 DEF ToolInv, ToolTyped
<1>8. LostInv'
  BY <1>2, <1>3 DEF ToolInv, LostInv
<1>9. ASSUME NEW h \in open' \ lost' PROVE Owed(h)'
  <2>1. h \in open \ lost \/ (m # "cpu" /\ h = Reader(m))
    BY <1>2, <1>9
  <2>2. InCalls(h, deferred) \/ InCalls(h, D) => Owed(h)'
    BY <1>2, <1>6 DEF Owed, IsDeferred
  <2>3. program \in {"observer", "tui"}
    BY DEF ToolInv, ToolTyped
  <2>4. CASE m # "cpu" /\ h = Reader(m)
    <3>1. CASE program = "observer"
      BY <1>4, <2>2, <2>4, <3>1
    <3>2. CASE program = "tui"
      BY <1>2, <2>4, <3>2, HandleKinds DEF Owed
    <3> QED
      BY <2>3, <3>1, <3>2
  <2>5. CASE h \in open \ lost
    <3>1. Owed(h)
      BY <2>5 DEF ToolInv, DeferInv
    <3>2. CASE InHand(h)
      <4>1. CASE h[1] = "probe"
        <5>1. h \in ProbesOf(m)
          BY <2>5, <3>2, <4>1 DEF InHand, ProbesOf
        <5>2. CASE program = "observer"
          BY <1>4, <2>2, <5>1, <5>2
        <5>3. CASE program = "tui"
          BY <1>1, <1>2, <3>2, <4>1, <5>3 DEF Owed, InHand
        <5> QED
          BY <2>3, <5>2, <5>3
      <4>2. CASE h[1] = "collection"
        <5>1. h = Coll(m) /\ h[2] = m
          BY <2>5, <3>2, <4>2, HandleKinds DEF ToolInv, ToolTyped, InHand
        <5>2. CASE m \in Returned
          BY <1>4, <2>2, <5>1, <5>2
        <5>3. CASE m \notin Returned
          BY <1>2, <4>2, <5>1, <5>3 DEF Owed, Unreturned, Returned
        <5> QED
          BY <5>2, <5>3
      <4> QED
        BY <3>2, <4>1, <4>2 DEF InHand
    <3>3. CASE ~InHand(h)
      BY <1>2, <2>2, <3>1, <3>3 DEF Owed, IsDeferred, Unreturned, Returned
    <3> QED
      BY <3>2, <3>3
  <2> QED
    BY <2>1, <2>4, <2>5
<1>10. \A i \in DOMAIN deferred' : \A h \in deferred'[i] : h[1] = "pin" \/ h[2] \in loaded'
  BY <1>2, <1>4, <1>6 DEF ToolInv, DeferInv, InCalls
<1>11. DeferInv'
  BY <1>9, <1>10 DEF DeferInv
<1> QED
  BY <1>7, <1>8, <1>11 DEF ToolInv

LEMMA LineageKeeps == ToolInv /\ LoadLineage => ToolInv'
<1> SUFFICES ASSUME ToolInv, LoadLineage PROVE ToolInv'
  OBVIOUS
<1>1. turn \in 1 .. Len(Order) /\ Loading /\ stage = "load" /\ Module = "lineage"
  BY OrderIs DEF ToolInv, ToolTyped, Loading, LoadLineage
<1>2. /\ loaded' = loaded \cup {"lineage"} /\ "exec" \in loaded /\ turn' = turn + 1 /\ tried' = 0
      /\ open' = open \cup {Pin} \/ open' = open \ {Pin}
      /\ UNCHANGED <<program, stage, lost, deferred>>
  BY <1>1 DEF LoadLineage, NextModule, Ready, TreeUsers
<1>3. /\ Turned' = Turned \cup {"lineage"} /\ turn' \in 1 .. Len(Order) + 1
      /\ "lineage" \notin Turned
  BY <1>1, <1>2, TurnIs DEF Turned
<1>4. \A h : h[1] # "pin" => (h \in open' <=> h \in open)
  BY <1>2, HandleKinds
<1>5. ToolTyped'
  <2>1. Pin \in Handles
    BY DEF Handles
  <2>2. Coll("lineage") \notin open'
    BY <1>4, HandleKinds DEF ToolInv, ToolTyped
  <2> QED
    BY <1>1, <1>2, <1>3, <2>1, <2>2 DEF ToolInv, ToolTyped
<1>6. LostInv'
  BY <1>2, <1>3, <1>4 DEF ToolInv, LostInv
<1>8. ASSUME NEW h \in open' \ lost' PROVE Owed(h)'
  <2>1. CASE h[1] = "pin"
    BY <1>1, <1>2, <2>1 DEF Owed
  <2>2. CASE h[1] # "pin"
    <3>1. Owed(h) /\ ~InHand(h)
      BY <1>1, <1>2, <1>4, <1>8, <2>2 DEF ToolInv, DeferInv, InHand
    <3> QED
      BY <1>2, <3>1 DEF Owed, IsDeferred, Unreturned, Returned
  <2> QED
    BY <2>1, <2>2
<1>9. DeferInv'
  BY <1>2, <1>8 DEF ToolInv, DeferInv
<1> QED
  BY <1>5, <1>6, <1>9 DEF ToolInv
\* Passed over: neither of these has opened anything.
LEMMA SkipKeeps == ToolInv /\ Skip => ToolInv'
BY PassedOver DEF Skip

\* The last deferred call closes what no other closes.
LEMMA RunKeeps == ToolInv /\ Run => ToolInv'
<1> SUFFICES ASSUME ToolInv, Run PROVE ToolInv'
  OBVIOUS
<1> DEFINE X == IF program = "observer" THEN {Pin} ELSE Kept
<1>1. /\ stage = "load" /\ turn > Len(Order) /\ stage' = "run"
      /\ deferred' = Append(deferred, X)
      /\ UNCHANGED <<program, turn, tried, open, lost, loaded>>
  BY DEF Run
<1>2. X \in SUBSET Handles /\ deferred \in Seq(SUBSET Handles)
  <2>1. Pin \in Handles
    BY DEF Handles
  <2> QED
    BY <2>1 DEF Kept, ToolInv, ToolTyped
<1>3. \A h \in X : h[1] = "pin" \/ (h[1] = "probe" /\ h[2] \in loaded)
  BY HandleKinds DEF Kept
<1>4. program \in {"observer", "tui"} /\ turn \in Nat /\ Len(Order) \in Nat
  BY OrderIs DEF ToolInv, ToolTyped
<1>5. ASSUME NEW h \in open \ lost, ~IsDeferred(h) PROVE h \in X \/ Owed(h)'
  <2>1. Owed(h) /\ ~InHand(h)
    <3>1. ~(turn <= Len(Order))
      BY <1>1, <1>4
    <3> QED
      BY <3>1 DEF ToolInv, DeferInv, InHand
  <2>2. CASE program = "observer"
    <3>1. CASE Unreturned(h)
      BY <1>1, <3>1 DEF Owed, Unreturned, Returned
    <3>2. CASE ~Unreturned(h)
      <4>1. h = Pin
        BY <1>5, <2>1, <2>2, <3>2, HandleKinds DEF Owed, ToolInv, ToolTyped
      <4> QED
        BY <2>2, <4>1
    <3> QED
      BY <3>1, <3>2
  <2>3. CASE program = "tui"
    BY <1>1, <1>5, <2>1, <2>3 DEF Owed, Kept, Unreturned, Returned
  <2> QED
    BY <1>4, <2>2, <2>3
<1> HIDE DEF X
<1>6. /\ <<X>> \in Seq(SUBSET Handles) /\ \A h : InCalls(h, <<X>>) <=> h \in X
      /\ Append(deferred, X) = deferred \o <<X>>
  BY <1>2, CallsOfOne
<1>8. /\ deferred' \in Seq(SUBSET Handles)
      /\ \A i \in DOMAIN deferred' : \A h \in deferred'[i] : InCalls(h, deferred) \/ h \in X
      /\ \A h : InCalls(h, deferred) \/ h \in X => InCalls(h, deferred')
  <2> DEFINE q == <<X>>
             s == deferred \o q
  <2>1. q \in Seq(SUBSET Handles) /\ deferred' = s /\ \A h : InCalls(h, q) <=> h \in X
    BY <1>1, <1>6
  <2> HIDE DEF q
  <2>2. /\ s \in Seq(SUBSET Handles)
        /\ \A i \in DOMAIN s : \/ i \in DOMAIN deferred /\ s[i] = deferred[i]
                               \/ i - Len(deferred) \in DOMAIN q /\ s[i] = q[i - Len(deferred)]
        /\ \A h : InCalls(h, deferred) \/ InCalls(h, q) => InCalls(h, s)
    BY <1>2, <2>1, CallsJoined
  <2> HIDE DEF s
  <2>3. \A i \in DOMAIN s : \A h \in s[i] : InCalls(h, deferred) \/ h \in X
    BY <2>1, <2>2 DEF InCalls
  <2> QED
    BY <2>1, <2>2, <2>3
<1>9. ToolTyped'
  BY <1>1, <1>8 DEF ToolInv, ToolTyped, Turned
<1>10. LostInv'
  BY <1>1 DEF ToolInv, LostInv, Turned
<1>11. \A h \in open' \ lost' : Owed(h)'
  <2> SUFFICES ASSUME NEW h \in open \ lost PROVE Owed(h)'
    BY <1>1
  <2>1. InCalls(h, deferred') => Owed(h)'
    BY DEF Owed, IsDeferred
  <2> QED
    BY <1>5, <1>8, <2>1 DEF IsDeferred
<1>12. \A i \in DOMAIN deferred' : \A h \in deferred'[i] : h[1] = "pin" \/ h[2] \in loaded'
  BY <1>1, <1>3, <1>8 DEF InCalls, ToolInv, DeferInv
<1>13. DeferInv'
  BY <1>11, <1>12 DEF DeferInv
<1> QED
  BY <1>9, <1>10, <1>13 DEF ToolInv

LEMMA StopKeeps == ToolInv /\ (Stop \/ Return) => ToolInv'
<1> SUFFICES ASSUME ToolInv, Stop \/ Return PROVE ToolInv'
  OBVIOUS
<1>1. /\ stage \in {"run", "closing"} /\ stage' \in {"closing", "returned"}
      /\ stage' = "returned" => deferred = <<>>
      /\ UNCHANGED <<program, turn, tried, open, lost, loaded, deferred>>
  BY DEF Stop, Return
<1>2. ToolTyped'
  BY <1>1 DEF ToolInv, ToolTyped, Turned
<1>3. LostInv'
  BY <1>1 DEF ToolInv, LostInv, Turned
<1>4. DeferInv'
  BY <1>1 DEF ToolInv, DeferInv, Owed, IsDeferred, InCalls, Unreturned, Returned
<1> QED
  BY <1>2, <1>3, <1>4 DEF ToolInv

\* What a deferred call closes is no longer owed; the rest is in the calls left.
LEMMA CloseKeeps == ToolInv /\ CloseNext => ToolInv'
<1> SUFFICES ASSUME ToolInv, CloseNext PROVE ToolInv'
  OBVIOUS
<1> DEFINE n == Len(deferred)
           X == deferred[n]
<1>1. /\ stage = "closing" /\ deferred # <<>> /\ open' = open \ Last(deferred)
      /\ deferred' = Front(deferred)
      /\ UNCHANGED <<program, stage, turn, tried, lost, loaded>>
  BY DEF CloseNext
<1>2. /\ deferred \in Seq(SUBSET Handles) /\ DOMAIN deferred = 1 .. n /\ n \in Nat /\ n # 0
  BY <1>1 DEF ToolInv, ToolTyped
<1>3. Last(deferred) = X /\ Front(deferred) = SubSeq(deferred, 1, n - 1)
  BY DEF Last, Front
<1>4. /\ deferred' \in Seq(SUBSET Handles) /\ DOMAIN deferred' = 1 .. n - 1
      /\ \A i \in 1 .. n - 1 : deferred'[i] = deferred[i] /\ i \in 1 .. n /\ i <= n
  BY <1>1, <1>2, <1>3
<1>5. n \in DOMAIN deferred /\ \A i \in 1 .. n : i # n => i \in 1 .. n - 1
  <2> HIDE DEF n
  <2> QED
    BY <1>2
<1> HIDE DEF n, X
<1>6. open' = open \ X
  BY <1>1, <1>3
<1>7. ToolTyped'
  BY <1>1, <1>4, <1>6 DEF ToolInv, ToolTyped, Turned
<1>8. \A h \in X : h[1] = "pin" \/ h[2] \in loaded
  BY <1>5 DEF ToolInv, DeferInv, X
<1>9. LostInv'
  <2>1. \A h \in lost : h \notin X
    BY <1>8 DEF ToolInv, LostInv
  <2> QED
    BY <1>1, <1>6, <2>1 DEF ToolInv, LostInv, Turned
<1>10. ASSUME NEW h \in open' \ lost'
       PROVE  \/ \E i \in 1 .. n - 1 : h \in deferred[i]
              \/ Unreturned(h)
              \/ program = "tui" /\ h[1] \in {"reader", "pin"}
  <2>1. h \in open \ lost /\ h \notin X
    BY <1>1, <1>6, <1>10
  <2>2. Owed(h)
    BY <2>1 DEF ToolInv, DeferInv
  <2>3. CASE IsDeferred(h)
    <3>1. PICK i \in DOMAIN deferred : h \in deferred[i]
      BY <2>3 DEF IsDeferred, InCalls
    <3>2. i # n
      BY <2>1, <3>1 DEF X
    <3> QED
      BY <1>2, <1>5, <3>1, <3>2
  <2> QED
    BY <1>1, <2>2, <2>3 DEF Owed
<1>11. \A h \in open' \ lost' : Owed(h)'
  <2> SUFFICES ASSUME NEW h \in open' \ lost' PROVE Owed(h)'
    OBVIOUS
  <2>1. CASE \E i \in 1 .. n - 1 : h \in deferred[i]
    BY <1>4, <2>1 DEF Owed, IsDeferred, InCalls
  <2>2. CASE program = "tui" /\ h[1] \in {"reader", "pin"}
    BY <1>1, <2>2 DEF Owed
  <2>3. CASE Unreturned(h)
    BY <1>1, <2>3 DEF Owed, Unreturned, Returned
  <2> QED
    BY <1>10, <2>1, <2>2, <2>3
<1>12. DeferInv'
  <2>1. \A i \in DOMAIN deferred' : \A h \in deferred'[i] : h[1] = "pin" \/ h[2] \in loaded'
    BY <1>1, <1>2, <1>4 DEF ToolInv, DeferInv
  <2> QED
    BY <1>11, <2>1 DEF DeferInv
<1> QED
  BY <1>7, <1>9, <1>12 DEF ToolInv

LEMMA ToolStep == ToolInv /\ [Next]_vars => ToolInv'
<1> SUFFICES ASSUME ToolInv, [Next]_vars PROVE ToolInv'
  OBVIOUS
<1>1. CASE UNCHANGED toolVars
  BY <1>1 DEF toolVars, ToolInv, ToolTyped, LostInv, DeferInv, Turned, Owed, IsDeferred,
              InCalls, InHand, Module, Unreturned, Returned
<1>2. CASE RunError
  BY <1>2, Exits DEF RunError
<1>3. CASE ToolRuns
  BY <1>2, <1>3, SkipKeeps, CollectionKeeps, AttachKeeps, ErrorsKeep, CollectorKeeps,
     LineageKeeps, RunKeeps, StopKeeps, CloseKeeps DEF ToolRuns, ToolNext
<1> QED
  BY <1>1, <1>3 DEF Next, AgentRuns, vars

\* Whichever modules fail to load and however far each of them got, a tool that
\* returns has detached every probe of the modules it ran and closed the collections
\* main was given; what it loses sight of are probes of modules it runs without.
THEOREM ToolsLetGo == Spec => []LetGo
<1>1. ToolInv => LetGo
  <2> SUFFICES ASSUME ToolInv PROVE LetGo
    OBVIOUS
  <2>1. ASSUME stage = "returned", NEW h \in open \ lost
        PROVE  \/ h[1] = "collection" /\ h[2] \in loaded \ Returned
               \/ program = "tui" /\ h[1] \in {"reader", "pin"}
    <3>1. Owed(h) /\ ~IsDeferred(h)
      BY <2>1 DEF ToolInv, ToolTyped, DeferInv, IsDeferred, InCalls
    <3> QED
      BY <2>1, <3>1 DEF Owed, Unreturned
  <2>2. lost \subseteq open /\ \A h \in lost : h[1] = "probe" /\ h[2] \notin loaded
    BY DEF ToolInv, LostInv
  <2> QED
    BY <2>1, <2>2 DEF LetGo
<1>2. Init => ToolInv
  BY ToolStart DEF Init
<1> QED
  BY <1>1, <1>2, ToolStep, PTL DEF Spec
=============================================================================
