---------------------------- MODULE ProcessGraph ----------------------------
(***************************************************************************)
(* graph.ProcessGraph (pkg/graph/model.go): the process tree the terminal  *)
(* UI keeps from fork, exec and security events, with an index of children *)
(* and one of sessions and a limit on the number of processes.  Events may *)
(* be lost, repeated and out of order (a process can exec before its fork  *)
(* is read, or be known only as somebody's parent), and the oldest process *)
(* is evicted at the limit, so that every insertion may take others away.  *)
(*                                                                         *)
(* A PID is not used twice in a cgroup.  The lists of the indexes have no  *)
(* duplicates and their order is not told apart: they are sets.  An        *)
(* insertion number is the position in the sequence order.  An event names *)
(* the container as the resolver knows it by then, or by the number of its *)
(* cgroup.                                                                 *)
(***************************************************************************)
EXTENDS Naturals, Sequences, FiniteSets, Functions

CONSTANTS Processes,    \* the keys of the processes: records of cg and pid
          ParentOf,     \* Processes -> PID of the process that forked it, or 0
          SidOf,        \* Processes -> session, 0 if its events do not carry it
          NamesOf,      \* cgroup -> the names that events give its container
          MaxNodes,     \* maxNodes
          RingCap       \* EventRingCap

Init1 == 1              \* PID of init: its children start a tree, as orphans do
Key(c, p) == [cg |-> c, pid |-> p]
Cgroups == {k.cg : k \in Processes}

\* The keys of the lists of children: Key(c, 0) has those whose parent is unknown.
Keys == Processes \cup {Key(c, 0) : c \in Cgroups}
AllNames == UNION {NamesOf[c] : c \in Cgroups}
Sids == {SidOf[k] : k \in Processes} \ {0}

\* The parent's key: Key(k.cg, 0) when there is none.
Parent(k) == Key(k.cg, ParentOf[k])

ASSUME GraphAssumption ==
    /\ \A k \in Processes : k = Key(k.cg, k.pid) /\ k.pid \in Nat \ {0}
    /\ ParentOf \in [Processes -> {0} \cup {k.pid : k \in Processes}]
    /\ \A k \in Processes : ParentOf[k] # 0 => Parent(k) \in Processes
    /\ SidOf \in [Processes -> Nat]
    /\ Cgroups \subseteq DOMAIN NamesOf
    /\ IsFiniteSet(Processes)
    \* A process is forked by one that started before it.
    /\ \E started \in [Processes -> 0 .. Cardinality(Processes)] :
          \A k \in Processes : ParentOf[k] # 0 => started[Parent(k)] < started[k]
    /\ MaxNodes \in Nat \ {0} /\ RingCap \in Nat \ {0}

VARIABLE g              \* nodes, order, children, sessions

-----------------------------------------------------------------------------
(* Helpers, on a graph.                                                    *)

NewNode(ppid, name) ==
    [ppid |-> ppid, name |-> name, sid |-> 0, alive |-> TRUE, events |-> 0]

New == [nodes    |-> [k \in {} |-> k],
        order    |-> <<>>,
        children |-> [k \in Keys |-> {}],
        sessions |-> [s \in Sids |-> {}]]

Nodes(h) == DOMAIN h.nodes

\* Mutation: the key stays in the lists of its parents.
EvictIfNeeded_KeepsLists(h) ==
    IF Cardinality(Nodes(h)) <= MaxNodes THEN h
    ELSE LET oldest == Head(h.order)
         IN [nodes    |-> Restrict(h.nodes, Nodes(h) \ {oldest}),
             order    |-> Tail(h.order),
             children |-> [h.children EXCEPT ![oldest] = {}],
             sessions |-> [s \in Sids |-> IF s = h.nodes[oldest].sid
                                          THEN h.sessions[s] \ {oldest} ELSE h.sessions[s]]]

EvictIfNeeded(h) ==
    IF Cardinality(Nodes(h)) <= MaxNodes THEN h
    ELSE LET oldest == Head(h.order)
         IN [nodes    |-> Restrict(h.nodes, Nodes(h) \ {oldest}),
             order    |-> Tail(h.order),
             children |-> [k \in Keys |-> IF k = oldest THEN {}
                                          ELSE h.children[k] \ {oldest}],
             sessions |-> [s \in Sids |-> IF s = h.nodes[oldest].sid
                                          THEN h.sessions[s] \ {oldest} ELSE h.sessions[s]]]

\* A process that is not tracked yet.
Insert(h, k, node) ==
    [nodes    |-> [j \in Nodes(h) \cup {k} |-> IF j = k THEN node ELSE h.nodes[j]],
     order    |-> Append(h.order, k),
     children |-> h.children,
     sessions |-> h.sessions]

AddChild(h, p, k) == [h EXCEPT !.children[p] = @ \cup {k}]

SetSid(h, k, sid) ==
    [h EXCEPT !.nodes[k].sid = sid, !.sessions[sid] = @ \cup {k}]

\* The parent of a forked process is tracked, if only by its name.
Stub(h, k, name) ==
    IF ParentOf[k] = 0 \/ Parent(k) \in Nodes(h) THEN h
    ELSE EvictIfNeeded(Insert(h, Parent(k), NewNode(0, name)))

Forked(h, k, name) ==
    LET i == IF k \in Nodes(h) THEN h ELSE EvictIfNeeded(Insert(h, k, NewNode(0, name)))
    IN AddChild([i EXCEPT !.nodes[k] = [@ EXCEPT !.ppid = ParentOf[k], !.name = name,
                                                 !.alive = TRUE]],
                Parent(k), k)

\* A process that is known keeps its parent.
Execed(h, k, ppid, name) ==
    IF k \in Nodes(h) THEN [h EXCEPT !.nodes[k] = [@ EXCEPT !.name = name]]
    ELSE EvictIfNeeded(AddChild(Insert(h, k, NewNode(ppid, name)), Key(k.cg, ppid), k))

-----------------------------------------------------------------------------
(* Events.  withSid: the event's metadata has the session.                 *)

Carries(k, withSid) == withSid => SidOf[k] # 0

AddFork(k, name, withSid) ==
    /\ Carries(k, withSid) /\ name \in NamesOf[k.cg]
    /\ LET h == Forked(Stub(g, k, name), k, name)
       IN g' = IF withSid THEN SetSid(h, k, SidOf[k]) ELSE h

\* The parent an exec can name: the kernel's tree map has the one that forked the
\* process, or no entry of it (the fork was before the probe, in another cgroup,
\* or its entry was replaced).
ExecParents(k) == {0, ParentOf[k]}

AddExec(k, ppid, name, withSid) ==
    /\ ppid \in ExecParents(k) /\ Carries(k, withSid) /\ name \in NamesOf[k.cg]
    /\ LET h == Execed(g, k, ppid, name)
       IN g' = IF withSid /\ h.nodes[k].sid = 0 THEN SetSid(h, k, SidOf[k]) ELSE h

MarkExit(k) ==
    /\ k \in Nodes(g)
    /\ g' = [g EXCEPT !.nodes[k].alive = FALSE]

\* Mutation: the fill level is counted past the capacity.
CorrelateEvent_Uncapped(k) ==
    /\ k \in Nodes(g)
    /\ g' = [g EXCEPT !.nodes[k].events = IF @ <= RingCap THEN @ + 1 ELSE @]

\* pushEvent: how many of the last RingCap slots are in use.
CorrelateEvent(k) ==
    /\ k \in Nodes(g)
    /\ g' = [g EXCEPT !.nodes[k].events = IF @ < RingCap THEN @ + 1 ELSE @]

-----------------------------------------------------------------------------
(* Queries.                                                                *)

\* The nodes Snapshot and Roots list as roots.
Roots(h) ==
    {k \in Nodes(h) : h.nodes[k].ppid \in {0, Init1} \/ Key(k.cg, h.nodes[k].ppid) \notin Nodes(h)}

Children(h, k) == h.children[k] \cap Nodes(h)

\* Ancestors, from the process up to where the chain ends or maxDepth is met.
Ancestors(h, k, maxDepth) ==
    LET up[d \in 1 .. maxDepth] ==
            IF d = 1 THEN (IF k \in Nodes(h) THEN <<k>> ELSE <<>>)
            ELSE LET below == up[d - 1]
                     last  == below[Len(below)]
                     above == Key(k.cg, h.nodes[last].ppid)
                 IN IF \/ Len(below) < d - 1
                       \/ h.nodes[last].ppid \in {0, Init1, last.pid}
                       \/ above \notin Nodes(h)
                       \/ \E i \in DOMAIN below : below[i] = above
                    THEN below ELSE Append(below, above)
    IN up[maxDepth]

-----------------------------------------------------------------------------
(* Properties.                                                             *)

GraphTypeOK ==
    /\ Nodes(g) \subseteq Processes
    /\ g.nodes \in [Nodes(g) -> [ppid : Nat, name : AllNames, sid : Sids \cup {0}, alive : BOOLEAN,
                                 events : 0 .. RingCap]]
    /\ g.order \in Seq(Keys)
    /\ g.children \in [Keys -> SUBSET Keys]
    /\ g.sessions \in [Sids -> SUBSET Keys]

\* The limit holds whatever is inserted, the order is that of exactly the
\* tracked processes, the children and the members of a session are tracked,
\* and a process that has a session is listed under it: an eviction takes its
\* victim out of every index, also when it makes room for a parent stub or
\* takes the very process whose fork is being added.
GraphSound ==
    /\ Cardinality(Nodes(g)) <= MaxNodes
    /\ IsInjective(g.order) /\ Range(g.order) = Nodes(g)
    /\ \A k \in Keys : g.children[k] \subseteq Nodes(g)
    /\ \A s \in Sids : g.sessions[s] = {k \in Nodes(g) : g.nodes[k].sid = s}

\* No process is listed under one that is not its ancestor, and a chain of
\* ancestors never comes back to itself, whatever was lost, repeated, evicted
\* or reordered: Ancestors may stop early and never goes astray, and what
\* Children lists under a process agrees with the parent the node has.
AncestryTrue ==
    /\ \A k \in Processes : \A j \in Children(g, k) : g.nodes[j].ppid = k.pid
    /\ \A k \in Nodes(g) :
        LET chain == Ancestors(g, k, Cardinality(Processes))
        IN /\ IsInjective(chain)
           /\ \A i \in 1 .. Len(chain) - 1 :
                chain[i] \in Processes /\ chain[i + 1] = Parent(chain[i])
=============================================================================
