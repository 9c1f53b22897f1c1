-------------------------------- MODULE Agent --------------------------------
(***************************************************************************)
(* The node agent (cmd/agent, ebpf.Loader): loads the core probes one      *)
(* after the other, starts a goroutine for every ring buffer, polls the    *)
(* statistics maps and shuts down.  Ring-buffer goroutines and the poll    *)
(* loop resolve cgroups through the Mapper.  What a signal carries apart   *)
(* from the pod is left out.                                               *)
(***************************************************************************)
EXTENDS Mapper

CONSTANTS Probes,       \* probeSpecs, in order: sequence of names
          Links,        \* probe -> number of tracepoints
          RingOf        \* probe -> its ring buffer, NoRing if it has none

NoRing == "none"
Poller == "poll"
Rings == {RingOf[k] : k \in DOMAIN RingOf} \ {NoRing}

ASSUME AgentAssumption == Resolvers = Rings \cup {Poller}

VARIABLES pc,           \* main goroutine: load, poll, failed, closed
          probe,        \* index of the probe being loaded
          held,         \* resources the kernel has for the agent
          tracked,      \* those in LoadedProbes
          drainers      \* rings whose goroutine runs

loaderVars == <<pc, probe, held, tracked, drainers>>
agentVars == <<now, clusterVars, mapperVars, loaderVars>>

AgentInit ==
    /\ MapperInit
    /\ pc = "load" /\ probe = 1
    /\ held = {} /\ tracked = {} /\ drainers = {}

-----------------------------------------------------------------------------
(* LoadCoreProbes.                                                         *)

Name == Probes[probe]
Collection(k) == <<"collection", k, 0>>
LinkOf(k, i) == <<"link", k, i>>
Ring(k) == <<"ring", k, 0>>
AttachedLinks == {i \in 1 .. Links[Name] : LinkOf(Name, i) \in held}

\* LoadCollectionSpec and NewCollection of the next probe succeed.
LoadCollection ==
    /\ pc = "load" /\ probe <= Len(Probes)
    /\ Collection(Name) \notin held
    /\ held' = held \cup {Collection(Name)}
    /\ tracked' = tracked \cup {Collection(Name)}
    /\ UNCHANGED <<now, clusterVars, mapperVars, pc, probe, drainers>>

\* Mutation: links are kept in LoadedProbes once the last is attached.
AttachLink_TracksLast ==
    /\ pc = "load" /\ probe <= Len(Probes)
    /\ Collection(Name) \in held
    /\ Cardinality(AttachedLinks) < Links[Name]
    /\ LET i == Cardinality(AttachedLinks) + 1
       IN /\ held' = held \cup {LinkOf(Name, i)}
          /\ tracked' = IF i = Links[Name]
                        THEN tracked \cup {LinkOf(Name, j) : j \in 1 .. i} ELSE tracked
    /\ UNCHANGED <<now, clusterVars, mapperVars, pc, probe, drainers>>

\* The next tracepoint of the probe.
AttachLink ==
    /\ pc = "load" /\ probe <= Len(Probes)
    /\ Collection(Name) \in held
    /\ Cardinality(AttachedLinks) < Links[Name]
    /\ LET i == Cardinality(AttachedLinks) + 1
       IN /\ held' = held \cup {LinkOf(Name, i)}
          /\ tracked' = tracked \cup {LinkOf(Name, i)}
    /\ UNCHANGED <<now, clusterVars, mapperVars, pc, probe, drainers>>

\* All tracepoints are attached: the ring-buffer reader is opened and its
\* goroutine started, if there is one, and the next probe is up.
OpenRing ==
    /\ pc = "load" /\ probe <= Len(Probes)
    /\ Collection(Name) \in held
    /\ Cardinality(AttachedLinks) = Links[Name]
    /\ IF RingOf[Name] = NoRing THEN UNCHANGED <<held, tracked, drainers>>
       ELSE /\ held' = held \cup {Ring(Name)}
            /\ tracked' = tracked \cup {Ring(Name)}
            /\ drainers' = drainers \cup {RingOf[Name]}
    /\ probe' = probe + 1
    /\ UNCHANGED <<now, clusterVars, mapperVars, pc>>

\* LoadedProbes.Close.
Close == held' = held \ tracked

\* A step of the probe in hand fails: what was loaded is closed.
LoadFails ==
    /\ pc = "load" /\ probe <= Len(Probes)
    /\ Close
    /\ pc' = "failed"
    /\ UNCHANGED <<now, clusterVars, mapperVars, probe, tracked, drainers>>

\* All probes are attached: main enters PollStatsMaps.
EnterPoll ==
    /\ pc = "load" /\ probe > Len(Probes)
    /\ pc' = "poll"
    /\ UNCHANGED <<now, clusterVars, mapperVars, probe, held, tracked, drainers>>

\* A signal, or the mapper's failure, cancels the context; PollStatsMaps returns
\* between two polls.
Shutdown ==
    /\ pc = "poll"
    /\ call[Poller] = Idle
    /\ Close
    /\ pc' = "closed"
    /\ UNCHANGED <<now, clusterVars, mapperVars, probe, tracked, drainers>>

-----------------------------------------------------------------------------
(* Goroutines.                                                             *)

RingOpen(ring) == \E k \in DOMAIN RingOf : RingOf[k] = ring /\ Ring(k) \in held

\* A drainer reads an event of a cgroup and starts to resolve it.
DrainRead(ring, c) ==
    /\ ring \in drainers
    /\ RingOpen(ring)
    /\ ResolveCached(ring, c)
    /\ UNCHANGED loaderVars

\* What Read of a closed ring buffer returns: the library wraps ErrClosed.
ErrClosed == <<"file already closed">>
ReadError == <<"epoll wait">> \o ErrClosed

\* A drainer reads a closed ring buffer: it ends if the error is ErrClosed itself,
\* and reads again after any other.
ReadClosed(ring) ==
    /\ ring \in drainers
    /\ call[ring] = Idle
    /\ ~RingOpen(ring)
    /\ drainers' = IF ReadError = ErrClosed THEN drainers \ {ring} ELSE drainers
    /\ UNCHANGED <<now, clusterVars, mapperVars, pc, probe, held, tracked>>

\* One entry of a statistics map: pollCPU, pollMemory, pollIO, pollNetwork and
\* pollSyscall.  Entries are never removed, so c may have ended long ago.
PollEntry(c) ==
    /\ pc = "poll"
    /\ ResolveCached(Poller, c)
    /\ UNCHANGED loaderVars

ResolveStep(r) == Resolve(r) /\ UNCHANGED loaderVars

LoadStep == LoadCollection \/ AttachLink \/ OpenRing \/ EnterPoll

AgentNext ==
    \/ LoadStep \/ LoadFails \/ Shutdown
    \/ \E ring \in Rings : ReadClosed(ring) \/ \E c \in Containers : DrainRead(ring, c)
    \/ \E c \in Containers : PollEntry(c)
    \/ \E r \in Resolvers : ResolveStep(r)
    \/ InformerNext /\ UNCHANGED loaderVars
    \/ MapperTick /\ UNCHANGED loaderVars

AgentSpec == AgentInit /\ [][AgentNext]_agentVars

-----------------------------------------------------------------------------
(* Properties.                                                             *)

\* However far loading got before a step failed, and on every shutdown, Close
\* gives every collection, tracepoint and ring buffer back.
NothingLeaks == pc \in {"failed", "closed"} => held = {}
=============================================================================
