------------------------------ MODULE TuiProofs ------------------------------
(***************************************************************************)
(* Proofs about the terminal UI, for any processes and their parents,      *)
(* containers, events, limits, tabs and themes, and whatever the user      *)
(* does: the process graph and the view of it, then the tables, the root   *)
(* model and the views behind it.                                          *)
(***************************************************************************)
EXTENDS Tui, SequenceFacts

-----------------------------------------------------------------------------
(* The invariant, of any graph: the operations go through several.         *)

Node == [ppid : Nat, name : AllNames, sid : Sids \cup {0}, alive : BOOLEAN, events : 0 .. RingCap]

Graph == [nodes    : UNION {[S -> Node] : S \in SUBSET Keys},
          order    : Seq(Keys),
          children : [Keys -> SUBSET Keys],
          sessions : [Sids -> SUBSET Keys]]

\* The indexes agree with the nodes.  Only a process that its events give a
\* session has one, and no other than that: the list of the old session would
\* keep it otherwise.
Indexed(h) ==
    /\ h \in Graph
    /\ IsFiniteSet(Nodes(h))
    /\ IsInjective(h.order) /\ Range(h.order) = Nodes(h)
    /\ \A k \in Keys : h.children[k] \subseteq Nodes(h)
    /\ \A s \in Sids : h.sessions[s] = {k \in Nodes(h) : h.nodes[k].sid = s}
    /\ \A k \in Nodes(h) : h.nodes[k].sid # 0 => k \in Processes /\ h.nodes[k].sid = SidOf[k]

Bounded(h, n) == Cardinality(Nodes(h)) <= n

\* Only processes are tracked, a process says of its parent nothing or the truth,
\* has a name that its container has, and is listed under no other process than
\* the one it names.
Family(h) ==
    /\ Nodes(h) \subseteq Processes
    /\ \A k \in Nodes(h) : h.nodes[k].ppid \in {0, ParentOf[k]} /\ h.nodes[k].name \in NamesOf[k.cg]
    /\ \A k \in Processes : \A j \in h.children[k] : h.nodes[j].ppid = k.pid

Sound(h) == Indexed(h) /\ Bounded(h, MaxNodes) /\ Family(h)

GraphInv == session \in Sessions /\ Sound(g)

\* The fields of a graph have their types.
LEMMA GraphFields ==
    ASSUME NEW h \in Graph
    PROVE  /\ h.nodes \in [Nodes(h) -> Node] /\ Nodes(h) \subseteq Keys
           /\ h.order \in Seq(Keys)
           /\ h.children \in [Keys -> SUBSET Keys]
           /\ h.sessions \in [Sids -> SUBSET Keys]
BY DEF Graph, Nodes

LEMMA NewNodeType ==
    ASSUME NEW ppid \in Nat, NEW name \in AllNames
    PROVE  NewNode(ppid, name) \in Node /\ NewNode(ppid, name).sid = 0
BY GraphAssumption DEF NewNode, Node

\* The names of a process are names.
LEMMA NamesAre ==
    ASSUME NEW k \in Processes, NEW name \in NamesOf[k.cg]
    PROVE  name \in AllNames
BY DEF AllNames, Cgroups

\* Zero is no session.
LEMMA SidsType == 0 \notin Sids
BY DEF Sids

\* Appending what is not in a sequence without repetitions.
LEMMA AppendOnce ==
    ASSUME NEW S, NEW seq \in Seq(S), NEW x \in S, x \notin Range(seq), IsInjective(seq)
    PROVE  IsInjective(Append(seq, x)) /\ Range(Append(seq, x)) = Range(seq) \cup {x}
<1> DEFINE n == Len(seq)
           more == Append(seq, x)
<1>1. n \in Nat /\ DOMAIN seq = 1 .. n /\ DOMAIN more = 1 .. n + 1
  OBVIOUS
<1>2. \A a \in 1 .. n : more[a] = seq[a] /\ seq[a] \in Range(seq)
  BY <1>1 DEF Range
<1>3. more[n + 1] = x
  BY <1>1
<1>4. \A a \in 1 .. n + 1 : a \in 1 .. n \/ a = n + 1
  BY <1>1
<1> HIDE DEF n, more
<1>5. IsInjective(more)
  BY <1>1, <1>2, <1>3, <1>4 DEF IsInjective
<1>6. Range(more) = Range(seq) \cup {x}
  <2>1. ASSUME NEW y \in Range(more) PROVE y \in Range(seq) \cup {x}
    BY <1>1, <1>2, <1>3, <1>4 DEF Range
  <2>2. ASSUME NEW y \in Range(seq) PROVE y \in Range(more)
    <3>1. PICK a \in 1 .. n : seq[a] = y
      BY <1>1 DEF Range
    <3>2. a \in 1 .. n + 1
      BY <1>1
    <3> QED
      BY <1>1, <1>2, <3>1, <3>2 DEF Range
  <2>3. x \in Range(more)
    <3>1. n + 1 \in 1 .. n + 1
      BY <1>1
    <3> QED
      BY <1>1, <1>3, <3>1 DEF Range
  <2> QED
    BY <2>1, <2>2, <2>3
<1> QED
  BY <1>5, <1>6 DEF more

\* Dropping the head of one.
LEMMA TailOnce ==
    ASSUME NEW S, NEW seq \in Seq(S), seq # <<>>, IsInjective(seq)
    PROVE  /\ IsInjective(Tail(seq)) /\ Tail(seq) \in Seq(S)
           /\ Range(Tail(seq)) = Range(seq) \ {Head(seq)}
           /\ Head(seq) \in Range(seq)
<1> DEFINE n == Len(seq)
           rest == Tail(seq)
<1>1. n \in Nat \ {0} /\ DOMAIN seq = 1 .. n /\ rest \in Seq(S) /\ DOMAIN rest = 1 .. n - 1
  OBVIOUS
<1>2. \A a \in 1 .. n - 1 : rest[a] = seq[a + 1] /\ a + 1 \in 1 .. n /\ a + 1 # 1
  BY <1>1
<1>3. Head(seq) = seq[1] /\ 1 \in 1 .. n
  BY <1>1
<1>4. \A a \in 1 .. n : a = 1 \/ (a - 1 \in 1 .. n - 1 /\ rest[a - 1] = seq[a])
  <2> SUFFICES ASSUME NEW a \in 1 .. n, a # 1
               PROVE  a - 1 \in 1 .. n - 1 /\ rest[a - 1] = seq[a]
    OBVIOUS
  <2>1. a - 1 \in 1 .. n - 1 /\ (a - 1) + 1 = a
    BY <1>1
  <2> QED
    BY <1>2, <2>1
<1>5. \A a, b \in 1 .. n - 1 : a + 1 = b + 1 => a = b
  OBVIOUS
<1> HIDE DEF n, rest
<1>6. IsInjective(rest)
  BY <1>1, <1>2, <1>5 DEF IsInjective
<1>7. Range(rest) = Range(seq) \ {Head(seq)}
  <2>1. ASSUME NEW y \in Range(rest) PROVE y \in Range(seq) \ {Head(seq)}
    <3>1. PICK a \in 1 .. n - 1 : rest[a] = y
      BY <1>1 DEF Range
    <3>2. a + 1 \in 1 .. n /\ a + 1 # 1 /\ seq[a + 1] = y
      BY <1>2, <3>1
    <3>3. y # seq[1]
      BY <1>1, <1>3, <3>2 DEF IsInjective
    <3> QED
      BY <1>1, <1>3, <3>2, <3>3 DEF Range
  <2>2. ASSUME NEW y \in Range(seq), y # Head(seq) PROVE y \in Range(rest)
    <3>1. PICK a \in 1 .. n : seq[a] = y
      BY <1>1, <2>2 DEF Range
    <3>2. a # 1
      BY <1>3, <2>2, <3>1
    <3> QED
      BY <1>1, <1>4, <3>1, <3>2 DEF Range
  <2> QED
    BY <2>1, <2>2
<1>8. Head(seq) \in Range(seq)
  BY <1>1, <1>3 DEF Range
<1> QED
  BY <1>1, <1>6, <1>7, <1>8 DEF rest

\* A new process is the latest of the order and is in no index yet.
LEMMA InsertIndexed ==
    ASSUME NEW h, Indexed(h), NEW k \in Keys, k \notin Nodes(h),
           NEW ppid \in Nat, NEW name \in AllNames, NEW n \in Nat, Bounded(h, n)
    PROVE  LET i == Insert(h, k, NewNode(ppid, name))
           IN /\ Indexed(i) /\ Bounded(i, n + 1) /\ Nodes(i) = Nodes(h) \cup {k}
              /\ i.order # <<>> /\ i.order[Len(i.order)] = k
<1> DEFINE i == Insert(h, k, NewNode(ppid, name))
<1>1. /\ h \in Graph /\ h.nodes \in [Nodes(h) -> Node] /\ Nodes(h) \subseteq Keys
      /\ h.order \in Seq(Keys)
  BY GraphFields DEF Indexed
<1>2. NewNode(ppid, name) \in Node /\ NewNode(ppid, name).sid = 0
  BY NewNodeType
<1>3. /\ i.nodes = [j \in Nodes(h) \cup {k} |-> IF j = k THEN NewNode(ppid, name) ELSE h.nodes[j]]
      /\ i.order = Append(h.order, k)
      /\ i.children = h.children /\ i.sessions = h.sessions
      /\ i = [nodes |-> i.nodes, order |-> i.order, children |-> i.children,
              sessions |-> i.sessions]
  BY <1>1 DEF Insert, Graph
<1>4. Nodes(i) = Nodes(h) \cup {k}
  BY <1>3 DEF Nodes
<1>5. i.nodes \in [Nodes(h) \cup {k} -> Node]
  BY <1>1, <1>2, <1>3
<1>6. i \in Graph
  <2>1. i.nodes \in UNION {[S -> Node] : S \in SUBSET Keys}
    BY <1>1, <1>5
  <2>2. i.order \in Seq(Keys)
    BY <1>1, <1>3
  <2>3. i.children \in [Keys -> SUBSET Keys] /\ i.sessions \in [Sids -> SUBSET Keys]
    BY <1>1, <1>3, GraphFields
  <2> HIDE DEF i
  <2> QED
    BY <2>1, <2>2, <2>3, <1>3 DEF Graph
<1>7. IsFiniteSet(Nodes(i)) /\ Bounded(i, n + 1)
  <2>1. IsFiniteSet(Nodes(h)) /\ Cardinality(Nodes(h)) \in Nat
    BY FS_CardinalityType DEF Indexed
  <2>2. /\ IsFiniteSet(Nodes(h) \cup {k})
        /\ Cardinality(Nodes(h) \cup {k}) = Cardinality(Nodes(h)) + 1
    BY <2>1, FS_AddElement
  <2> QED
    BY <1>4, <2>1, <2>2 DEF Bounded
<1>8. /\ i.order[Len(h.order) + 1] = k /\ Len(i.order) = Len(h.order) + 1
      /\ Len(h.order) \in Nat
  BY <1>1, <1>3
<1>9. IsInjective(i.order) /\ Range(i.order) = Nodes(i)
  BY <1>1, <1>3, <1>4, AppendOnce DEF Indexed
<1>10. \A s \in Sids : i.sessions[s] = {j \in Nodes(i) : i.nodes[j].sid = s}
  BY <1>2, <1>3, <1>4, SidsType DEF Indexed
<1>11. \A j \in Nodes(i) : i.nodes[j].sid # 0 => j \in Processes /\ i.nodes[j].sid = SidOf[j]
  BY <1>2, <1>3, <1>4 DEF Indexed
<1>12. \A j \in Keys : i.children[j] \subseteq Nodes(i)
  BY <1>3, <1>4 DEF Indexed
<1>13. i.order # <<>> /\ i.order[Len(i.order)] = k
  BY <1>8
<1> HIDE DEF i
<1>14. Indexed(i)
  BY <1>6, <1>7, <1>9, <1>10, <1>11, <1>12 DEF Indexed
<1> QED
  BY <1>4, <1>7, <1>13, <1>14 DEF i

\* An eviction takes the oldest process out of all indexes.  It is never the
\* one inserted last, as the limit is at least one.
LEMMA EvictIndexed ==
    ASSUME NEW h, Indexed(h), Bounded(h, MaxNodes + 1)
    PROVE  LET i == EvictIfNeeded(h)
           IN /\ Indexed(i) /\ Bounded(i, MaxNodes)
              /\ h.order # <<>> => h.order[Len(h.order)] \in Nodes(i)
<1> DEFINE i == EvictIfNeeded(h)
           oldest == Head(h.order)
<1>1. /\ h \in Graph /\ h.nodes \in [Nodes(h) -> Node] /\ Nodes(h) \subseteq Keys
      /\ h.order \in Seq(Keys)
  BY GraphFields DEF Indexed
<1>2. MaxNodes \in Nat \ {0} /\ Cardinality(Nodes(h)) \in Nat
  BY GraphAssumption, FS_CardinalityType DEF Indexed
<1>3. h.order # <<>> => h.order[Len(h.order)] \in Nodes(h)
  <2>1. h.order # <<>> => Len(h.order) \in DOMAIN h.order
    BY <1>1
  <2> QED
    BY <2>1 DEF Indexed, Range
<1>4. CASE Cardinality(Nodes(h)) <= MaxNodes
  BY <1>3, <1>4 DEF EvictIfNeeded, Bounded
<1>5. CASE ~(Cardinality(Nodes(h)) <= MaxNodes)
  <2>1. h.order # <<>>
    <3>1. Nodes(h) # {}
      BY <1>2, <1>5, FS_EmptySet
    <3> QED
      BY <3>1 DEF Indexed, Range
  <2>2. /\ IsInjective(Tail(h.order)) /\ Tail(h.order) \in Seq(Keys)
        /\ Range(Tail(h.order)) = Nodes(h) \ {oldest} /\ oldest \in Nodes(h)
    BY <1>1, <2>1, TailOnce DEF Indexed
  <2>3. /\ i.nodes = [k \in Nodes(h) \ {oldest} |-> h.nodes[k]]
        /\ i.order = Tail(h.order)
        /\ i.children = [k \in Keys |-> IF k = oldest THEN {} ELSE h.children[k] \ {oldest}]
        /\ i.sessions = [s \in Sids |-> IF s = h.nodes[oldest].sid
                                        THEN h.sessions[s] \ {oldest} ELSE h.sessions[s]]
        /\ i = [nodes |-> i.nodes, order |-> i.order, children |-> i.children,
                sessions |-> i.sessions]
    BY <1>5 DEF EvictIfNeeded, Restrict
  <2> HIDE DEF i, oldest
  <2>4. Nodes(i) = Nodes(h) \ {oldest}
    BY <2>3 DEF Nodes
  <2>5. i \in Graph
    <3>1. i.nodes \in UNION {[S -> Node] : S \in SUBSET Keys}
      <4>1. i.nodes \in [Nodes(h) \ {oldest} -> Node]
        BY <1>1, <2>3
      <4> QED
        BY <1>1, <4>1
    <3>2. /\ h.children \in [Keys -> SUBSET Keys]
          /\ h.sessions \in [Sids -> SUBSET Keys]
      BY <1>1, GraphFields
    <3>3. i.children \in [Keys -> SUBSET Keys]
      BY <2>3, <3>2
    <3>4. i.sessions \in [Sids -> SUBSET Keys]
      BY <2>3, <3>2
    <3> QED
      BY <2>2, <2>3, <3>1, <3>3, <3>4 DEF Graph
  <2>6. IsFiniteSet(Nodes(i)) /\ Bounded(i, MaxNodes)
    <3>1. /\ IsFiniteSet(Nodes(h) \ {oldest})
          /\ Cardinality(Nodes(h) \ {oldest}) = Cardinality(Nodes(h)) - 1
      BY <2>2, FS_RemoveElement DEF Indexed
    <3> QED
      BY <1>2, <2>4, <3>1 DEF Bounded
  <2>7. \A k \in Keys : i.children[k] \subseteq Nodes(i)
    BY <2>3, <2>4 DEF Indexed
  <2>8. \A s \in Sids : i.sessions[s] = {k \in Nodes(i) : i.nodes[k].sid = s}
    BY <2>2, <2>3, <2>4 DEF Indexed
  <2>9. \A k \in Nodes(i) : i.nodes[k].sid # 0 => k \in Processes /\ i.nodes[k].sid = SidOf[k]
    BY <2>3, <2>4 DEF Indexed
  <2>10. Indexed(i)
    BY <2>2, <2>3, <2>4, <2>5, <2>6, <2>7, <2>8, <2>9 DEF Indexed
  <2>11. h.order[Len(h.order)] # oldest
    <3> SUFFICES ASSUME h.order[Len(h.order)] = oldest
                 PROVE  FALSE
      OBVIOUS
    <3>1. /\ Len(h.order) \in DOMAIN h.order /\ 1 \in DOMAIN h.order
          /\ DOMAIN h.order = 1 .. Len(h.order) /\ h.order[1] = oldest
      BY <1>1, <2>1 DEF oldest
    <3>2. Len(h.order) = 1
      BY <3>1 DEF Indexed, IsInjective
    <3>3. DOMAIN h.order = {1}
      BY <3>1, <3>2
    <3>4. Nodes(h) = {h.order[1]}
      BY <3>3 DEF Indexed, Range
    <3>5. Cardinality({h.order[1]}) = 1
      BY FS_Singleton
    <3> QED
      BY <1>2, <1>5, <3>4, <3>5
  <2> QED
    BY <1>3, <2>1, <2>4, <2>6, <2>10, <2>11 DEF i
<1> QED
  BY <1>4, <1>5

\* A tracked process becomes a child.
LEMMA AddChildIndexed ==
    ASSUME NEW h, Indexed(h), NEW p \in Keys, NEW k \in Nodes(h)
    PROVE  LET i == AddChild(h, p, k)
           IN Indexed(i) /\ Nodes(i) = Nodes(h) /\ i.order = h.order
<1> DEFINE i == AddChild(h, p, k)
<1>1. h \in Graph /\ h.children \in [Keys -> SUBSET Keys] /\ k \in Keys
  BY GraphFields DEF Indexed
<1>2. /\ i.nodes = h.nodes /\ i.order = h.order /\ i.sessions = h.sessions
      /\ i.children = [h.children EXCEPT ![p] = h.children[p] \cup {k}]
      /\ i = [nodes |-> i.nodes, order |-> i.order, children |-> i.children,
              sessions |-> i.sessions]
  <2> DEFINE lists == [h.children EXCEPT ![p] = h.children[p] \cup {k}]
  <2>1. i = [h EXCEPT !.children = lists]
    BY DEF AddChild
  <2> HIDE DEF i, lists
  <2>2. i = [nodes |-> h.nodes, order |-> h.order, children |-> lists, sessions |-> h.sessions]
    BY <1>1, <2>1 DEF Graph
  <2> QED
    BY <2>2 DEF lists
<1> HIDE DEF i
<1>3. i.children \in [Keys -> SUBSET Keys]
  BY <1>1, <1>2
<1>4. i \in Graph
  BY <1>1, <1>2, <1>3 DEF Graph
<1>5. Nodes(i) = Nodes(h)
  BY <1>2 DEF Nodes
<1>6. \A j \in Keys : i.children[j] \subseteq Nodes(i)
  BY <1>1, <1>2, <1>5 DEF Indexed
<1> QED
  BY <1>2, <1>4, <1>5, <1>6 DEF Indexed, i

\* A node that keeps its session may change in everything else.
LEMMA UpdateIndexed ==
    ASSUME NEW h, Indexed(h), NEW k \in Nodes(h), NEW node \in Node, node.sid = h.nodes[k].sid
    PROVE  LET i == [h EXCEPT !.nodes = [h.nodes EXCEPT ![k] = node]]
           IN Indexed(i) /\ Nodes(i) = Nodes(h)
<1> DEFINE i == [h EXCEPT !.nodes = [h.nodes EXCEPT ![k] = node]]
<1>1. h \in Graph /\ h.nodes \in [Nodes(h) -> Node] /\ Nodes(h) \subseteq Keys
  BY GraphFields DEF Indexed
<1>2. /\ i.nodes = [h.nodes EXCEPT ![k] = node]
      /\ i.order = h.order /\ i.sessions = h.sessions /\ i.children = h.children
      /\ i = [nodes |-> i.nodes, order |-> i.order, children |-> i.children,
              sessions |-> i.sessions]
  BY <1>1 DEF Graph
<1> HIDE DEF i
<1>3. i.nodes \in [Nodes(h) -> Node] /\ Nodes(i) = Nodes(h)
  BY <1>1, <1>2 DEF Nodes
<1>4. i \in Graph
  BY <1>1, <1>2, <1>3 DEF Graph
<1>5. \A j \in Nodes(h) : i.nodes[j].sid = h.nodes[j].sid
  BY <1>1, <1>2
<1> QED
  BY <1>2, <1>3, <1>4, <1>5 DEF Indexed, i

\* A process enters the session that its events carry.
LEMMA SetSidIndexed ==
    ASSUME NEW h, Indexed(h), NEW k \in Nodes(h), k \in Processes, SidOf[k] # 0
    PROVE  LET i == SetSid(h, k, SidOf[k])
           IN Indexed(i) /\ Nodes(i) = Nodes(h)
<1> DEFINE i == SetSid(h, k, SidOf[k])
           sid == SidOf[k]
           node == [h.nodes[k] EXCEPT !.sid = sid]
<1>1. /\ h \in Graph /\ h.nodes \in [Nodes(h) -> Node] /\ Nodes(h) \subseteq Keys
      /\ h.sessions \in [Sids -> SUBSET Keys]
  BY GraphFields DEF Indexed
<1>2. sid \in Sids
  BY DEF Sids
<1>3. node \in Node /\ node.sid = sid
  BY <1>1, <1>2 DEF Node
<1>4. /\ i.nodes = [h.nodes EXCEPT ![k] = node]
      /\ i.sessions = [h.sessions EXCEPT ![sid] = h.sessions[sid] \cup {k}]
      /\ i.order = h.order /\ i.children = h.children
      /\ i = [nodes |-> i.nodes, order |-> i.order, children |-> i.children,
              sessions |-> i.sessions]
  <2> DEFINE mid == [h EXCEPT !.nodes = [h.nodes EXCEPT ![k] = node]]
  <2>1. mid = [nodes |-> [h.nodes EXCEPT ![k] = node], order |-> h.order,
               children |-> h.children, sessions |-> h.sessions]
    <3> DEFINE m == [h.nodes EXCEPT ![k] = node]
    <3> HIDE DEF m, i, node, sid
    <3>1. [h EXCEPT !.nodes = m] = [nodes |-> m, order |-> h.order,
                                    children |-> h.children, sessions |-> h.sessions]
      BY <1>1 DEF Graph
    <3> QED
      BY <3>1 DEF m
  <2>2. i = [mid EXCEPT !.sessions = [mid.sessions EXCEPT ![sid] = mid.sessions[sid] \cup {k}]]
    BY DEF SetSid
  <2> HIDE DEF i, mid, node, sid
  <2> QED
    BY <2>1, <2>2
<1> HIDE DEF i, sid, node
<1>5. i.nodes \in [Nodes(h) -> Node] /\ Nodes(i) = Nodes(h)
  BY <1>1, <1>3, <1>4 DEF Nodes
<1>6. i.sessions \in [Sids -> SUBSET Keys]
  BY <1>1, <1>2, <1>4
<1>7. i \in Graph
  BY <1>1, <1>4, <1>5, <1>6 DEF Graph
<1>8. i.nodes[k].sid = sid /\ \A j \in Nodes(h) \ {k} : i.nodes[j].sid = h.nodes[j].sid
  BY <1>1, <1>3, <1>4
<1>9. \A j \in Nodes(i) : i.nodes[j].sid # 0 => j \in Processes /\ i.nodes[j].sid = SidOf[j]
  BY <1>5, <1>8 DEF Indexed, sid
<1>10. \A s \in Sids : i.sessions[s] = {j \in Nodes(i) : i.nodes[j].sid = s}
  <2> SUFFICES ASSUME NEW s \in Sids
               PROVE  i.sessions[s] = {j \in Nodes(h) : i.nodes[j].sid = s}
    BY <1>5
  <2>1. h.sessions[s] = {j \in Nodes(h) : h.nodes[j].sid = s}
    BY DEF Indexed
  <2>2. h.nodes[k].sid \in {0, sid}
    BY DEF Indexed, sid
  <2>3. CASE s = sid
    BY <1>1, <1>4, <1>8, <2>1, <2>3
  <2>4. CASE s # sid
    <3>1. i.sessions[s] = h.sessions[s]
      BY <1>1, <1>4, <2>4
    <3>2. h.nodes[k].sid # s
      BY <2>2, <2>4, SidsType
    <3> QED
      BY <1>8, <2>1, <2>4, <3>1, <3>2
  <2> QED
    BY <2>3, <2>4
<1> QED
  BY <1>4, <1>5, <1>7, <1>9, <1>10 DEF Indexed, i

-----------------------------------------------------------------------------
(* No process is listed under a wrong parent.                              *)

LEMMA PidTypes ==
    ASSUME NEW k \in Processes
    PROVE  /\ k \in Keys /\ ParentOf[k] \in Nat
           /\ k.pid \in Nat \ {0} /\ k = Key(k.cg, k.pid)
           /\ Key(k.cg, 0) \in Keys /\ Parent(k) \in Keys
           /\ ParentOf[k] # 0 => Parent(k) \in Processes
<1>1. /\ k = Key(k.cg, k.pid) /\ k.pid \in Nat \ {0}
      /\ ParentOf[k] # 0 => Parent(k) \in Processes
  BY GraphAssumption
<1>2. ParentOf[k] \in Nat
  BY GraphAssumption
<1>3. Key(k.cg, 0) \in Keys
  BY DEF Keys, Cgroups
<1>4. Parent(k) \in Keys
  BY <1>1, <1>3 DEF Keys, Parent
<1> QED
  BY <1>1, <1>2, <1>3, <1>4 DEF Keys

LEMMA InsertFamily ==
    ASSUME NEW h, Indexed(h), Family(h), NEW k \in Processes, k \notin Nodes(h),
           NEW ppid \in {0, ParentOf[k]}, NEW name \in NamesOf[k.cg]
    PROVE  LET i == Insert(h, k, NewNode(ppid, name))
           IN Family(i) /\ i.nodes[k].ppid = ppid
<1> DEFINE i == Insert(h, k, NewNode(ppid, name))
<1>1. /\ i.nodes = [j \in Nodes(h) \cup {k} |-> IF j = k THEN NewNode(ppid, name) ELSE h.nodes[j]]
      /\ i.children = h.children
  BY DEF Insert
<1>2. NewNode(ppid, name).ppid = ppid /\ NewNode(ppid, name).name = name
  BY DEF NewNode
<1> HIDE DEF i
<1>3. Nodes(i) = Nodes(h) \cup {k} /\ i.nodes[k].ppid = ppid /\ i.nodes[k].name = name
  BY <1>1, <1>2 DEF Nodes
<1>4. \A j \in Nodes(h) : i.nodes[j] = h.nodes[j]
  BY <1>1
<1>5. \A p \in Processes : h.children[p] \subseteq Nodes(h)
  BY PidTypes DEF Indexed
<1>6. Family(i)
  BY <1>1, <1>3, <1>4, <1>5 DEF Family
<1> QED
  BY <1>3, <1>6 DEF i

LEMMA EvictFamily ==
    ASSUME NEW h, Indexed(h), Family(h)
    PROVE  Family(EvictIfNeeded(h))
<1> DEFINE i == EvictIfNeeded(h)
           oldest == Head(h.order)
<1>1. CASE Cardinality(Nodes(h)) <= MaxNodes
  BY <1>1 DEF EvictIfNeeded
<1>2. CASE ~(Cardinality(Nodes(h)) <= MaxNodes)
  <2>1. /\ i.nodes = [k \in Nodes(h) \ {oldest} |-> h.nodes[k]]
        /\ i.children = [k \in Keys |-> IF k = oldest THEN {} ELSE h.children[k] \ {oldest}]
    BY <1>2 DEF EvictIfNeeded, Restrict
  <2> HIDE DEF i, oldest
  <2>2. Nodes(i) = Nodes(h) \ {oldest} /\ \A k \in Nodes(i) : i.nodes[k] = h.nodes[k]
    BY <2>1 DEF Nodes
  <2>3. \A k \in Processes : k \in Keys
    BY PidTypes
  <2>4. ASSUME NEW k \in Processes, NEW j \in i.children[k]
        PROVE  i.nodes[j].ppid = k.pid
    <3>1. k \in Keys /\ j \in h.children[k] /\ j # oldest
      BY <2>1, <2>3
    <3>2. j \in Nodes(i)
      BY <2>2, <3>1 DEF Indexed
    <3> QED
      BY <2>2, <3>1, <3>2 DEF Family
  <2> QED
    BY <2>2, <2>4 DEF Family, i
<1> QED
  BY <1>1, <1>2

LEMMA AddChildFamily ==
    ASSUME NEW h, Indexed(h), Family(h), NEW k \in Nodes(h), NEW p \in Keys,
           p \in Processes => h.nodes[k].ppid = p.pid
    PROVE  Family(AddChild(h, p, k))
<1> DEFINE i == AddChild(h, p, k)
<1>1. h \in Graph /\ h.children \in [Keys -> SUBSET Keys]
  BY GraphFields DEF Indexed
<1>2. i.nodes = h.nodes /\ i.children = [h.children EXCEPT ![p] = h.children[p] \cup {k}]
  BY <1>1 DEF AddChild, Graph
<1> HIDE DEF i
<1>3. \A q \in Processes : q \in Keys
  BY PidTypes
<1>4. \A q \in Processes : \A j \in i.children[q] : j \in h.children[q] \/ (q = p /\ j = k)
  BY <1>1, <1>2, <1>3
<1> QED
  BY <1>2, <1>4 DEF Family, Nodes, i

LEMMA UpdateFamily ==
    ASSUME NEW h, Indexed(h), Family(h), NEW k \in Nodes(h), NEW node,
           node.ppid = h.nodes[k].ppid \/ node.ppid = ParentOf[k],
           node.name = h.nodes[k].name \/ node.name \in NamesOf[k.cg]
    PROVE  LET i == [h EXCEPT !.nodes = [h.nodes EXCEPT ![k] = node]]
           IN Family(i) /\ i.nodes[k] = node
<1> DEFINE i == [h EXCEPT !.nodes = [h.nodes EXCEPT ![k] = node]]
<1>1. h \in Graph /\ h.nodes \in [Nodes(h) -> Node]
  BY GraphFields DEF Indexed
<1>2. i.nodes = [h.nodes EXCEPT ![k] = node] /\ i.children = h.children
  BY <1>1 DEF Graph
<1> HIDE DEF i
<1>3. Nodes(i) = Nodes(h) /\ i.nodes[k] = node
      /\ \A j \in Nodes(h) : j # k => i.nodes[j] = h.nodes[j]
  BY <1>1, <1>2 DEF Nodes
<1>4. k \in Processes /\ h.nodes[k].ppid \in {0, ParentOf[k]} /\ h.nodes[k].name \in NamesOf[k.cg]
  BY DEF Family
<1>5. ASSUME NEW p \in Processes, NEW j \in h.children[p] PROVE i.nodes[j].ppid = p.pid
  <2>1. h.nodes[j].ppid = p.pid /\ j \in Nodes(h)
    BY PidTypes DEF Family, Indexed
  <2>2. CASE j # k
    BY <1>3, <2>1, <2>2
  <2>3. CASE j = k
    <3>1. p.pid # 0
      BY PidTypes
    <3>2. h.nodes[k].ppid = ParentOf[k]
      BY <1>4, <2>1, <2>3, <3>1
    <3> QED
      BY <1>3, <2>1, <2>3, <3>2
  <2> QED
    BY <2>2, <2>3
<1>6. \A j \in Nodes(h) : i.nodes[j].ppid \in {0, ParentOf[j]} /\ i.nodes[j].name \in NamesOf[j.cg]
  BY <1>3, <1>4 DEF Family
<1>7. Family(i)
  BY <1>2, <1>3, <1>5, <1>6 DEF Family
<1> QED
  BY <1>3, <1>7 DEF i

LEMMA SetSidFamily ==
    ASSUME NEW h, Indexed(h), Family(h), NEW k \in Nodes(h), NEW sid
    PROVE  Family(SetSid(h, k, sid))
<1> DEFINE i == SetSid(h, k, sid)
           node == [h.nodes[k] EXCEPT !.sid = sid]
           mid == [h EXCEPT !.nodes = [h.nodes EXCEPT ![k] = node]]
<1>1. h \in Graph /\ h.nodes[k] \in Node
  BY GraphFields DEF Indexed
<1>2. node.ppid = h.nodes[k].ppid /\ node.name = h.nodes[k].name
  BY <1>1 DEF Node
<1>3. i = [mid EXCEPT !.sessions = [mid.sessions EXCEPT ![sid] = mid.sessions[sid] \cup {k}]]
  BY DEF SetSid
<1> HIDE DEF node
<1>4. mid = [nodes |-> [h.nodes EXCEPT ![k] = node], order |-> h.order,
             children |-> h.children, sessions |-> h.sessions]
  <2>1. /\ h \in Graph /\ h.nodes \in [Nodes(h) -> Node] /\ Nodes(h) \subseteq Keys
        /\ h.sessions \in [Sids -> SUBSET Keys]
    BY GraphFields DEF Indexed
  <2> QED
    BY <2>1 DEF Graph
<1>5. Family(mid)
  BY <1>2, UpdateFamily
<1> HIDE DEF i, mid
<1>6. i.nodes = mid.nodes /\ i.children = mid.children
  BY <1>3, <1>4
<1> QED
  BY <1>5, <1>6 DEF Family, Nodes, i

-----------------------------------------------------------------------------
(* The events.                                                             *)

LEMMA TrackSound ==
    ASSUME NEW h, Sound(h), NEW k \in Processes, k \notin Nodes(h), NEW name \in NamesOf[k.cg]
    PROVE  LET i == EvictIfNeeded(Insert(h, k, NewNode(0, name)))
           IN Sound(i) /\ k \in Nodes(i)
<1> DEFINE j == Insert(h, k, NewNode(0, name))
<1>1. MaxNodes \in Nat /\ 0 \in Nat /\ k \in Keys /\ 0 \in {0, ParentOf[k]} /\ name \in AllNames
  BY GraphAssumption, PidTypes, NamesAre
<1>2. Indexed(j) /\ Bounded(j, MaxNodes + 1) /\ j.order # <<>> /\ j.order[Len(j.order)] = k
  BY <1>1, InsertIndexed DEF Sound
<1>3. Family(j)
  BY <1>1, InsertFamily DEF Sound
<1> HIDE DEF j
<1>4. Sound(EvictIfNeeded(j)) /\ k \in Nodes(EvictIfNeeded(j))
  BY <1>2, <1>3, EvictIndexed, EvictFamily DEF Sound
<1> QED
  BY <1>4 DEF j

LEMMA StubSound ==
    ASSUME NEW h, Sound(h), NEW k \in Processes, NEW name \in NamesOf[k.cg]
    PROVE  Sound(Stub(h, k, name))
<1>1. Parent(k).cg = k.cg
  BY DEF Parent, Key
<1> QED
  BY <1>1, PidTypes, TrackSound DEF Stub

\* A node whose parent and name an event tells.
LEMMA RenamedSound ==
    ASSUME NEW h, Sound(h), NEW k \in Nodes(h), NEW node \in Node,
           node.sid = h.nodes[k].sid, node.name \in NamesOf[k.cg],
           node.ppid = h.nodes[k].ppid \/ node.ppid = ParentOf[k]
    PROVE  LET i == [h EXCEPT !.nodes = [h.nodes EXCEPT ![k] = node]]
           IN Sound(i) /\ Nodes(i) = Nodes(h) /\ i.nodes[k] = node
BY UpdateIndexed, UpdateFamily DEF Sound, Bounded

LEMMA ForkedSound ==
    ASSUME NEW h, Sound(h), NEW k \in Processes, NEW name \in NamesOf[k.cg]
    PROVE  Sound(Forked(h, k, name)) /\ k \in Nodes(Forked(h, k, name))
<1> DEFINE i == IF k \in Nodes(h) THEN h ELSE EvictIfNeeded(Insert(h, k, NewNode(0, name)))
           node == [i.nodes[k] EXCEPT !.ppid = ParentOf[k], !.name = name, !.alive = TRUE]
           b == [i EXCEPT !.nodes = [i.nodes EXCEPT ![k] = node]]
<1>1. Sound(i) /\ k \in Nodes(i)
  <2>1. CASE k \in Nodes(h)
    BY <2>1
  <2>2. CASE k \notin Nodes(h)
    BY <2>2, TrackSound
  <2> QED
    BY <2>1, <2>2
<1>2. Forked(h, k, name) = AddChild(b, Parent(k), k)
  BY DEF Forked
<1> HIDE DEF i
<1>3. /\ node \in Node /\ node.sid = i.nodes[k].sid
      /\ node.ppid = ParentOf[k] /\ node.name = name
  <2>1. i.nodes[k] \in Node
    BY <1>1, GraphFields DEF Sound, Indexed
  <2> QED
    BY <2>1, PidTypes, NamesAre DEF Node
<1> HIDE DEF node
<1>4. Sound(b) /\ Nodes(b) = Nodes(i) /\ b.nodes[k] = node
  BY <1>1, <1>3, RenamedSound
<1> HIDE DEF b
<1>5. LET j == AddChild(b, Parent(k), k) IN Indexed(j) /\ Nodes(j) = Nodes(b)
  BY <1>1, <1>4, AddChildIndexed, PidTypes DEF Sound
<1>6. Family(AddChild(b, Parent(k), k))
  <2>1. Parent(k).pid = ParentOf[k] /\ Parent(k) \in Keys
    BY PidTypes DEF Parent, Key
  <2> QED
    BY <1>1, <1>3, <1>4, <2>1, AddChildFamily DEF Sound
<1> QED
  BY <1>1, <1>2, <1>4, <1>5, <1>6 DEF Sound, Bounded

LEMMA ExecedSound ==
    ASSUME NEW h, Sound(h), NEW k \in Processes, NEW ppid \in ExecParents(k),
           NEW name \in NamesOf[k.cg]
    PROVE  Sound(Execed(h, k, ppid, name)) /\ k \in Nodes(Execed(h, k, ppid, name))
<1>1. CASE k \in Nodes(h)
  <2> DEFINE node == [h.nodes[k] EXCEPT !.name = name]
  <2>1. Execed(h, k, ppid, name) = [h EXCEPT !.nodes = [h.nodes EXCEPT ![k] = node]]
    BY <1>1 DEF Execed
  <2>2. /\ node \in Node /\ node.sid = h.nodes[k].sid
        /\ node.ppid = h.nodes[k].ppid /\ node.name = name
    <3>1. h.nodes[k] \in Node
      BY <1>1, GraphFields DEF Sound, Indexed
    <3> QED
      BY <3>1, NamesAre DEF Node
  <2> HIDE DEF node
  <2> QED
    BY <1>1, <2>1, <2>2, RenamedSound
<1>2. CASE k \notin Nodes(h)
  <2> DEFINE i == Insert(h, k, NewNode(ppid, name))
             j == AddChild(i, Key(k.cg, ppid), k)
  <2>1. /\ MaxNodes \in Nat /\ k \in Keys /\ ppid \in Nat /\ ppid \in {0, ParentOf[k]}
        /\ name \in AllNames /\ Key(k.cg, ppid) \in Keys
    BY GraphAssumption, PidTypes, NamesAre DEF ExecParents, Parent
  <2>2. /\ Indexed(i) /\ Bounded(i, MaxNodes + 1) /\ k \in Nodes(i)
        /\ i.order # <<>> /\ i.order[Len(i.order)] = k
    BY <1>2, <2>1, InsertIndexed DEF Sound
  <2>3. Family(i) /\ i.nodes[k].ppid = ppid
    BY <1>2, <2>1, InsertFamily DEF Sound
  <2> HIDE DEF i
  <2>4. Indexed(j) /\ Nodes(j) = Nodes(i) /\ j.order = i.order
    BY <2>1, <2>2, AddChildIndexed
  <2>5. Family(j)
    <3>1. Key(k.cg, ppid).pid = ppid
      BY DEF Key
    <3> QED
      BY <2>1, <2>2, <2>3, <3>1, AddChildFamily
  <2>6. Execed(h, k, ppid, name) = EvictIfNeeded(j)
    BY <1>2 DEF Execed, i
  <2> HIDE DEF j
  <2>7. Bounded(j, MaxNodes + 1)
    BY <2>2, <2>4 DEF Bounded
  <2>8. Sound(EvictIfNeeded(j)) /\ k \in Nodes(EvictIfNeeded(j))
    BY <2>2, <2>4, <2>5, <2>7, EvictIndexed, EvictFamily DEF Sound
  <2> QED
    BY <2>6, <2>8
<1> QED
  BY <1>1, <1>2

LEMMA SessionSound ==
    ASSUME NEW h, Sound(h), NEW k \in Nodes(h), k \in Processes, SidOf[k] # 0
    PROVE  Sound(SetSid(h, k, SidOf[k]))
BY SetSidIndexed, SetSidFamily DEF Sound, Bounded

LEMMA AddForkSound ==
    ASSUME Sound(g), NEW k \in Processes, NEW name, NEW withSid \in BOOLEAN,
           AddFork(k, name, withSid)
    PROVE  Sound(g')
<1> DEFINE h == Forked(Stub(g, k, name), k, name)
<1>1. Sound(h) /\ k \in Nodes(h)
  BY StubSound, ForkedSound DEF AddFork
<1>2. (withSid => SidOf[k] # 0) /\ g' = IF withSid THEN SetSid(h, k, SidOf[k]) ELSE h
  BY DEF AddFork, Carries
<1> HIDE DEF h
<1> QED
  BY <1>1, <1>2, SessionSound

LEMMA AddExecSound ==
    ASSUME Sound(g), NEW k \in Processes, NEW ppid, NEW name, NEW withSid \in BOOLEAN,
           AddExec(k, ppid, name, withSid)
    PROVE  Sound(g')
<1> DEFINE h == Execed(g, k, ppid, name)
<1>1. ppid \in ExecParents(k) /\ name \in NamesOf[k.cg]
  BY DEF AddExec
<1>2. Sound(h) /\ k \in Nodes(h)
  BY <1>1, ExecedSound
<1>3. /\ withSid => SidOf[k] # 0
      /\ g' = IF withSid /\ h.nodes[k].sid = 0 THEN SetSid(h, k, SidOf[k]) ELSE h
  BY DEF AddExec, Carries
<1> HIDE DEF h
<1> QED
  BY <1>2, <1>3, SessionSound

LEMMA MarkExitSound ==
    ASSUME Sound(g), NEW k, MarkExit(k)
    PROVE  Sound(g')
<1> DEFINE node == [g.nodes[k] EXCEPT !.alive = FALSE]
<1>1. k \in Nodes(g) /\ g.nodes[k] \in Node
  BY GraphFields DEF MarkExit, Sound, Indexed
<1>2. node \in Node /\ node.sid = g.nodes[k].sid /\ node.ppid = g.nodes[k].ppid
      /\ node.name = g.nodes[k].name
  BY <1>1 DEF Node
<1>3. g' = [g EXCEPT !.nodes = [g.nodes EXCEPT ![k] = node]]
  BY DEF MarkExit
<1> HIDE DEF node
<1> QED
  BY <1>1, <1>2, <1>3, UpdateIndexed, UpdateFamily DEF Sound, Bounded

LEMMA CorrelateEventSound ==
    ASSUME Sound(g), NEW k, CorrelateEvent(k)
    PROVE  Sound(g')
<1> DEFINE n == g.nodes[k].events
           m == IF n < RingCap THEN n + 1 ELSE n
           node == [g.nodes[k] EXCEPT !.events = m]
<1>1. k \in Nodes(g) /\ g.nodes[k] \in Node
  BY GraphFields DEF CorrelateEvent, Sound, Indexed
<1>2. m \in 0 .. RingCap
  <2>1. n \in 0 .. RingCap
    BY <1>1 DEF Node
  <2> QED
    BY <2>1, GraphAssumption
<1>3. g' = [g EXCEPT !.nodes = [g.nodes EXCEPT ![k] = node]]
  BY DEF CorrelateEvent
<1> HIDE DEF m
<1>4. node \in Node /\ node.sid = g.nodes[k].sid /\ node.ppid = g.nodes[k].ppid
      /\ node.name = g.nodes[k].name
  BY <1>1, <1>2 DEF Node
<1> HIDE DEF node
<1> QED
  BY <1>1, <1>3, <1>4, UpdateIndexed, UpdateFamily DEF Sound, Bounded

-----------------------------------------------------------------------------
(* The program.                                                            *)

\* Keys, batches and drawing leave the graph to the collection.
LEMMA OnlyCollection ==
    ASSUME [Next]_vars
    PROVE  session' = session /\ (UNCHANGED g \/ Collection(session.procs))
<1>1. CASE Collect
  BY <1>1 DEF Collect
<1>2. ASSUME NEW batch, NEW events, NEW elapsed, DataMsg(batch, events, elapsed)
      PROVE  UNCHANGED <<g, session>>
  BY <1>2 DEF DataMsg, SetData
<1>3. ASSUME NEW h, WindowSizeMsg(h)
      PROVE  UNCHANGED <<g, session>>
  BY <1>3 DEF WindowSizeMsg, procGraphVars
<1>4. ASSUME NEW t, ThemeChangedMsg(t)
      PROVE  UNCHANGED <<g, session>>
  BY <1>4 DEF ThemeChangedMsg, ApplyTheme, procGraphVars
<1>5. CASE View
  BY <1>5 DEF View, procGraphVars
<1>6. ASSUME NEW key, HandleKey(key)
      PROVE  UNCHANGED <<g, session>>
  <2>1. CASE ProcGraphKey(key)
    BY <2>1 DEF ProcGraphKey, NavUp, NavDown, NavTop, NavBottom, SwitchPanel
  <2>2. CASE CycleTheme(key)
    BY <2>2 DEF CycleTheme, ApplyTheme, procGraphVars
  <2>3. CASE PaletteKey(key) \/ ModalKey \/ Quit(key) \/ OpenOverlay(key) \/ Esc(key)
    BY <2>3 DEF PaletteKey, ModalKey, Quit, OpenOverlay, Esc, procGraphVars
  <2>4. CASE SwitchTab(key) \/ NavDetail(key) \/ DetailKey(key) \/ TableKey(key)
    BY <2>4 DEF SwitchTab, NavDetail, DetailKey, TableKey, procGraphVars
  <2> QED
    BY <1>6, <2>1, <2>2, <2>3, <2>4 DEF HandleKey
<1>7. CASE UNCHANGED vars
  BY <1>7 DEF vars, procGraphVars
<1> QED
  BY <1>1, <1>2, <1>3, <1>4, <1>5, <1>6, <1>7 DEF Next

LEMMA GraphStep == GraphInv /\ [Next]_vars => GraphInv'
<1> SUFFICES ASSUME GraphInv, [Next]_vars
             PROVE  GraphInv'
  OBVIOUS
<1>1. session' = session /\ (UNCHANGED g \/ Collection(session.procs))
  BY OnlyCollection
<1>2. Sound(g) /\ session.procs \subseteq Processes
  BY TuiAssumption DEF GraphInv
<1>3. CASE UNCHANGED g
  BY <1>1, <1>3 DEF GraphInv
<1>4. CASE Collection(session.procs)
  <2>1. ASSUME NEW k \in session.procs, NEW name, NEW withSid \in BOOLEAN,
               IngestFork(k, name, withSid)
        PROVE  Sound(g')
    BY <1>2, <2>1, AddForkSound DEF IngestFork
  <2>2. ASSUME NEW k \in session.procs, NEW name, NEW withSid \in BOOLEAN, NEW ppid,
               IngestExec(k, ppid, name, withSid)
        PROVE  Sound(g')
    BY <1>2, <2>2, AddExecSound DEF IngestExec
  <2>3. ASSUME NEW k \in session.procs, Exit(k) \/ Correlate(k)
        PROVE  Sound(g')
    BY <1>2, <2>3, MarkExitSound, CorrelateEventSound DEF Exit, Correlate
  <2>4. ASSUME Drain \/ NextBatch
        PROVE  g' = g
    BY <2>4 DEF Drain, NextBatch
  <2>5. Sound(g')
    BY <1>2, <1>4, <2>1, <2>2, <2>3, <2>4 DEF Collection
  <2> QED
    BY <1>1, <2>5 DEF GraphInv
<1> QED
  BY <1>1, <1>3, <1>4

LEMMA GraphStart == Init => GraphInv
<1> SUFFICES ASSUME Init PROVE GraphInv
  OBVIOUS
<1>1. g = New /\ session \in Sessions
  BY DEF Init, ProcGraphInit
<1>2. /\ g.nodes = [k \in {} |-> k] /\ g.order = <<>>
      /\ g.children = [k \in Keys |-> {}] /\ g.sessions = [s \in Sids |-> {}]
      /\ g = [nodes |-> g.nodes, order |-> g.order, children |-> g.children,
              sessions |-> g.sessions]
  BY <1>1 DEF New
<1>3. Nodes(g) = {}
  BY <1>2 DEF Nodes
<1>4. g \in Graph
  <2>1. g.nodes \in [{} -> Node]
    BY <1>2
  <2>2. g.nodes \in UNION {[S -> Node] : S \in SUBSET Keys}
    BY <2>1
  <2>3. /\ g.order \in Seq(Keys) /\ g.children \in [Keys -> SUBSET Keys]
        /\ g.sessions \in [Sids -> SUBSET Keys]
    BY <1>2
  <2> QED
    BY <1>2, <2>2, <2>3 DEF Graph
<1>5. IsFiniteSet({}) /\ Cardinality({}) = 0
  BY FS_EmptySet
<1>6. IsInjective(g.order) /\ Range(g.order) = {}
  BY <1>2 DEF IsInjective, Range
<1>7. Bounded(g, MaxNodes)
  BY <1>3, <1>5, GraphAssumption DEF Bounded
<1>8. Family(g)
  BY <1>2, <1>3, PidTypes DEF Family
<1>9. Indexed(g)
  BY <1>2, <1>3, <1>4, <1>5, <1>6 DEF Indexed
<1> QED
  BY <1>1, <1>7, <1>8, <1>9 DEF GraphInv, Sound

\* The limit and the indexes of the process graph hold for any processes,
\* order and loss of events, and any limit.
THEOREM GraphIsSound == Spec => []GraphSound
<1>1. GraphInv => GraphSound
  BY DEF GraphInv, Sound, Indexed, Bounded, GraphSound
<1> QED
  BY GraphStart, GraphStep, <1>1, PTL DEF Spec

-----------------------------------------------------------------------------
(* Ancestors.                                                              *)

\* One step up, as Ancestors makes it.
Longer(h, k, d, below) ==
    LET last  == below[Len(below)]
        above == Key(k.cg, h.nodes[last].ppid)
    IN IF \/ Len(below) < d - 1
          \/ h.nodes[last].ppid \in {0, Init1, last.pid}
          \/ above \notin Nodes(h)
          \/ \E i \in DOMAIN below : below[i] = above
       THEN below ELSE Append(below, above)

\* A chain goes from a process to its parent and does not come back.
Chain(h, k, b) ==
    /\ b \in Seq(Nodes(h)) /\ Len(b) > 0 /\ IsInjective(b)
    /\ \A i \in DOMAIN b : b[i].cg = k.cg
    /\ \A i \in 1 .. Len(b) - 1 : b[i] \in Processes /\ b[i + 1] = Parent(b[i])

LEMMA LongerChain ==
    ASSUME NEW h, Sound(h), NEW k, NEW d, NEW b, Chain(h, k, b)
    PROVE  Chain(h, k, Longer(h, k, d, b))
<1> DEFINE n == Len(b)
           last == b[n]
           above == Key(k.cg, h.nodes[last].ppid)
           more == Append(b, above)
<1>1. n \in Nat \ {0} /\ DOMAIN b = 1 .. n /\ b \in Seq(Nodes(h))
  BY DEF Chain
<1>2. last \in Nodes(h) /\ last.cg = k.cg /\ last \in Processes
      /\ h.nodes[last].ppid \in {0, ParentOf[last]}
  <2>1. n \in DOMAIN b
    BY <1>1
  <2> QED
    BY <1>1, <2>1 DEF Chain, Sound, Family
<1>3. CASE Longer(h, k, d, b) = b
  BY <1>3
<1>4. CASE Longer(h, k, d, b) # b
  <2>1. /\ Longer(h, k, d, b) = more /\ above \in Nodes(h)
        /\ h.nodes[last].ppid \notin {0, Init1} /\ \A i \in DOMAIN b : b[i] # above
    BY <1>4 DEF Longer
  <2>2. above = Parent(last)
    BY <1>2, <2>1 DEF Parent
  <2>3. above.cg = k.cg
    BY DEF Key
  <2> HIDE DEF above, last
  <2>4. more \in Seq(Nodes(h)) /\ Len(more) = n + 1 /\ DOMAIN more = 1 .. n + 1
        /\ more[n + 1] = above
    BY <1>1, <2>1
  <2>5. \A i \in 1 .. n : more[i] = b[i]
    BY <1>1, <2>1
  <2>6. IsInjective(more)
    <3>1. above \notin Range(b)
      BY <2>1 DEF Range
    <3>2. IsInjective(b)
      BY DEF Chain
    <3> QED
      BY <1>1, <2>1, <3>1, <3>2, AppendOnce
  <2> HIDE DEF more
  <2>7. \A i \in 1 .. n + 1 : i \in 1 .. n \/ i = n + 1
    BY <1>1
  <2>8. \A i \in DOMAIN more : more[i].cg = k.cg
    BY <1>1, <2>3, <2>4, <2>5, <2>7 DEF Chain
  <2>9. ASSUME NEW i \in 1 .. Len(more) - 1
        PROVE  more[i] \in Processes /\ more[i + 1] = Parent(more[i])
    <3>1. i \in 1 .. n
      BY <1>1, <2>4
    <3>2. CASE i = n
      BY <1>2, <2>2, <2>4, <2>5, <3>1, <3>2 DEF last
    <3>3. CASE i # n
      <4>0. n \in Nat
        BY <1>1
      <4>1. i \in 1 .. n - 1 /\ i + 1 \in 1 .. n
        BY <3>1, <3>3, <4>0
      <4>2. more[i] = b[i] /\ more[i + 1] = b[i + 1]
        BY <2>5, <3>1, <4>1
      <4>3. b[i] \in Processes /\ b[i + 1] = Parent(b[i])
        BY <4>1 DEF Chain
      <4> QED
        BY <4>2, <4>3
    <3> QED
      BY <3>2, <3>3
  <2> QED
    BY <1>1, <2>1, <2>4, <2>6, <2>8, <2>9 DEF Chain
<1> QED
  BY <1>3, <1>4

LEMMA AncestorsChain ==
    ASSUME NEW h, Sound(h), NEW k \in Nodes(h), NEW m \in Nat \ {0}
    PROVE  Chain(h, k, Ancestors(h, k, m))
<1> DEFINE X == Seq(Nodes(h))
           ups(u) == [d \in 1 .. m |->
                        IF d = 1 THEN (IF k \in Nodes(h) THEN <<k>> ELSE <<>>)
                        ELSE LET below == u[d - 1]
                                 last  == below[Len(below)]
                                 above == Key(k.cg, h.nodes[last].ppid)
                             IN IF \/ Len(below) < d - 1
                                   \/ h.nodes[last].ppid \in {0, Init1, last.pid}
                                   \/ above \notin Nodes(h)
                                   \/ \E i \in DOMAIN below : below[i] = above
                                THEN below ELSE Append(below, above)]
           up == CHOOSE u : u = ups(u)
           step == [d \in Nat |-> [b \in X |-> Longer(h, k, d, b)]]
<1>1. \A u : ups(u) = [d \in 1 .. m |-> IF d = 1 THEN <<k>> ELSE Longer(h, k, d, u[d - 1])]
  BY DEF Longer
<1>2. Ancestors(h, k, m) = up[m]
  BY DEF Ancestors
<1> HIDE DEF ups
<1>3. \E u : u = ups(u)
  <2>1. step \in [Nat -> [X -> X]]
    <3>1. \A d \in Nat : \A b \in X : Longer(h, k, d, b) \in X
      BY DEF Longer
    <3> QED
      BY <3>1
  <2> DEFINE a == <<k>>
  <2>2. 1 \in Nat /\ m \in Nat /\ 1 <= m /\ a \in X
    OBVIOUS
  <2> HIDE DEF step, X, a
  <2>3. PICK f : Steps(f, 1, m, X, a, step)
    BY <2>1, <2>2, RecursionExists
  <2>4. ASSUME NEW d \in 1 .. m, d # 1 PROVE f[d] = Longer(h, k, d, f[d - 1])
    <3>1. d \in Nat /\ d - 1 \in 1 .. m
      BY <2>4
    <3>2. f[d] = step[d][f[d - 1]] /\ f[d - 1] \in X
      BY <2>3, <2>4, <3>1 DEF Steps
    <3>3. step[d] = [b \in X |-> Longer(h, k, d, b)]
      BY <3>1 DEF step
    <3> QED
      BY <3>2, <3>3
  <2>5. f = [d \in 1 .. m |-> IF d = 1 THEN <<k>> ELSE Longer(h, k, d, f[d - 1])]
    BY <2>3, <2>4 DEF a, Steps
  <2> QED
    BY <1>1, <2>5
<1>4. up = ups(up)
  BY <1>3
<1> HIDE DEF up
<1>5. up = [d \in 1 .. m |-> IF d = 1 THEN <<k>> ELSE Longer(h, k, d, up[d - 1])]
  BY <1>1, <1>4
<1> DEFINE T == {d \in 1 .. m : ~Chain(h, k, up[d])}
<1>6. T = {}
  <2> SUFFICES ASSUME T # {} PROVE FALSE
    OBVIOUS
  <2>1. PICK d \in T : \A y \in T : d <= y
    <3>1. T \subseteq Nat
      OBVIOUS
    <3> HIDE DEF T
    <3> QED
      BY <3>1, LeastNat
  <2>2. CASE d = 1
    <3>1. up[1] = <<k>>
      BY <1>5
    <3>2. Chain(h, k, <<k>>)
      BY DEF Chain, IsInjective
    <3> QED
      BY <2>1, <2>2, <3>1, <3>2
  <2>3. CASE d # 1
    <3>1. d - 1 \in 1 .. m /\ ~(d <= d - 1)
      BY <2>3
    <3>2. Chain(h, k, up[d - 1])
      BY <2>1, <3>1
    <3>3. up[d] = Longer(h, k, d, up[d - 1])
      BY <1>5, <2>3
    <3> QED
      BY <2>1, <3>2, <3>3, LongerChain
  <2> QED
    BY <2>2, <2>3
<1> QED
  BY <1>2, <1>6

LEMMA AncestryHolds == Sound(g) => AncestryTrue
<1> SUFFICES ASSUME Sound(g) PROVE AncestryTrue
  OBVIOUS
<1>1. ASSUME NEW k \in Processes, NEW j \in Children(g, k) PROVE g.nodes[j].ppid = k.pid
  BY DEF Children, Sound, Family
<1>2. ASSUME NEW k \in Nodes(g)
      PROVE  Chain(g, k, Ancestors(g, k, Cardinality(Processes)))
  <2>1. IsFiniteSet(Processes) /\ k \in Processes
    BY GraphAssumption DEF Sound, Family
  <2>2. Cardinality(Processes) \in Nat \ {0}
    BY <2>1, FS_CardinalityType, FS_EmptySet
  <2> QED
    BY <2>2, AncestorsChain
<1> QED
  BY <1>1, <1>2 DEF AncestryTrue, Chain

-----------------------------------------------------------------------------
(* The tree of a container.                                                *)

\* The tracked processes that started before k.
Elder(h, started, k) == {j \in Nodes(h) : started[j] < started[k]}

LEMMA LevelIs ==
    ASSUME NEW c
    PROVE  /\ Level(c)[0] = {k \in Of(c) : ~IsChild(c, k)}
           /\ \A d \in 0 .. MaxNodes - 1 : d # 0 =>
                 Level(c)[d] = {k \in Of(c) : /\ IsChild(c, k)
                                              /\ Above(c, k) \cap Level(c)[d - 1] # {}}
<1> DEFINE X == SUBSET Of(c)
           n == MaxNodes - 1
           first == {k \in Of(c) : ~IsChild(c, k)}
           under(S) == {k \in Of(c) : IsChild(c, k) /\ Above(c, k) \cap S # {}}
           levels(l) == [d \in 0 .. n |-> IF d = 0 THEN first ELSE under(l[d - 1])]
           level == CHOOSE l : l = levels(l)
           step == [d \in Nat |-> [S \in X |-> under(S)]]
<1>1. Level(c) = level
  BY DEF Level
<1>2. n \in Nat /\ 0 \in 0 .. n
  BY GraphAssumption
<1>3. \E l : l = levels(l)
  <2>1. first \in X /\ \A S \in X : under(S) \in X
    OBVIOUS
  <2>2. step \in [Nat -> [X -> X]]
    <3> HIDE DEF under, X
    <3> QED
      BY <2>1
  <2>3. 0 \in Nat /\ 0 <= n
    BY <1>2
  <2> HIDE DEF step, X, first, n
  <2>4. PICK f : Steps(f, 0, n, X, first, step)
    BY <1>2, <2>1, <2>2, <2>3, RecursionExists
  <2>5. ASSUME NEW d \in 0 .. n, d # 0 PROVE f[d] = under(f[d - 1])
    <3>1. d \in Nat /\ d - 1 \in 0 .. n
      BY <1>2, <2>5
    <3>2. f[d] = step[d][f[d - 1]] /\ f[d - 1] \in X
      BY <2>4, <2>5, <3>1 DEF Steps
    <3>3. step[d] = [S \in X |-> under(S)]
      BY <3>1 DEF step
    <3> QED
      BY <3>2, <3>3
  <2>6. f[0] = first /\ f \in [0 .. n -> X]
    BY <2>4 DEF Steps
  <2> HIDE DEF under
  <2>7. f = levels(f)
    BY <1>2, <2>5, <2>6
  <2> QED
    BY <2>7
<1>4. level = levels(level)
  BY <1>3
<1> HIDE DEF level, first, under
<1>5. level[0] = first /\ \A d \in 0 .. n : d # 0 => level[d] = under(level[d - 1])
  BY <1>2, <1>4
<1> QED
  BY <1>1, <1>5 DEF first, under

LEMMA TreeShown ==
    ASSUME Sound(g), NEW c
    PROVE  /\ Level(c)[0] = {k \in Of(c) : \/ k \in Roots(g)
                                           \/ Key(k.cg, g.nodes[k].ppid) \notin Of(c)}
           /\ TreeLines(c) = Of(c)
<1> DEFINE N == MaxNodes - 1
<1>1. PICK started \in [Processes -> 0 .. Cardinality(Processes)] :
          \A k \in Processes : ParentOf[k] # 0 => started[Parent(k)] < started[k]
  BY GraphAssumption
<1>2. Cardinality(Processes) \in Nat /\ \A k \in Processes : started[k] \in Nat
  BY <1>1, GraphAssumption, FS_CardinalityType
<1>3. /\ Of(c) \subseteq Nodes(g) /\ Nodes(g) \subseteq Processes
      /\ \A k \in Of(c) : g.nodes[k].name = c /\ c \in NamesOf[k.cg]
  BY DEF Of, Sound, Family
<1>4. \A k \in Nodes(g) : g.nodes[k].ppid \in {0, ParentOf[k]} /\ g.nodes[k].ppid # k.pid
  <2> SUFFICES ASSUME NEW k \in Nodes(g)
               PROVE  g.nodes[k].ppid \in {0, ParentOf[k]} /\ g.nodes[k].ppid # k.pid
    OBVIOUS
  <2>1. k \in Processes /\ g.nodes[k].ppid \in {0, ParentOf[k]}
    BY DEF Sound, Family
  <2>2. k.pid \in Nat \ {0} /\ k = Key(k.cg, k.pid)
    BY <2>1, PidTypes
  <2>3. ParentOf[k] # k.pid
    <3> SUFFICES ASSUME ParentOf[k] = k.pid PROVE FALSE
      OBVIOUS
    <3>1. Parent(k) = k /\ ParentOf[k] # 0
      BY <2>2 DEF Parent
    <3>2. started[k] < started[k] /\ started[k] \in Nat
      BY <1>1, <1>2, <2>1, <3>1
    <3> QED
      BY <3>2
  <2> QED
    BY <2>1, <2>2, <2>3
\* The parent that the container's PIDs lead to is the one that forked it.
<1>5. \A k \in Of(c) : g.nodes[k].ppid # 0 =>
          /\ Key(k.cg, g.nodes[k].ppid) = Parent(k) /\ Above(c, k) = {Parent(k)} \cap Of(c)
          /\ started[Parent(k)] < started[k]
  <2> SUFFICES ASSUME NEW k \in Of(c), g.nodes[k].ppid # 0
               PROVE  /\ Key(k.cg, g.nodes[k].ppid) = Parent(k)
                      /\ Above(c, k) = {Parent(k)} \cap Of(c)
                      /\ started[Parent(k)] < started[k]
    OBVIOUS
  <2>1. k \in Processes /\ g.nodes[k].ppid = ParentOf[k] /\ ParentOf[k] # 0
    BY <1>3, <1>4
  <2>2. /\ Parent(k) \in Processes /\ Parent(k).pid = ParentOf[k] /\ Parent(k).cg = k.cg
        /\ Key(k.cg, g.nodes[k].ppid) = Parent(k)
    BY <2>1, PidTypes DEF Parent, Key
  <2>3. \A j \in Of(c) : j.pid = Parent(k).pid => j = Parent(k)
    <3> SUFFICES ASSUME NEW j \in Of(c), j.pid = Parent(k).pid PROVE j = Parent(k)
      OBVIOUS
    <3>1. j \in Processes /\ c \in NamesOf[j.cg] /\ c \in NamesOf[Parent(k).cg]
      BY <1>3, <2>2
    <3> QED
      BY <2>2, <3>1, ViewAssumption
  <2>4. Above(c, k) = {Parent(k)} \cap Of(c)
    BY <2>1, <2>2, <2>3 DEF Above
  <2> QED
    BY <1>1, <2>1, <2>2, <2>4
<1>6. Level(c)[0] = {k \in Of(c) : k \in Roots(g) \/ Key(k.cg, g.nodes[k].ppid) \notin Of(c)}
  <2>1. Level(c)[0] = {k \in Of(c) : ~IsChild(c, k)}
    BY LevelIs
  <2>2. ASSUME NEW k \in Of(c)
        PROVE  IsChild(c, k) <=> ~(k \in Roots(g) \/ Key(k.cg, g.nodes[k].ppid) \notin Of(c))
    <3>1. k \in Nodes(g) /\ g.nodes[k].ppid # k.pid
      BY <1>3, <1>4
    <3>2. CASE g.nodes[k].ppid = 0
      BY <3>1, <3>2 DEF IsChild, Roots
    <3>3. CASE g.nodes[k].ppid # 0
      <4>1. /\ Key(k.cg, g.nodes[k].ppid) = Parent(k)
            /\ Above(c, k) # {} <=> Parent(k) \in Of(c)
        BY <1>5, <3>3
      <4>2. Parent(k) \in Of(c) => Parent(k) \in Nodes(g)
        BY <1>3
      <4> QED
        BY <3>1, <3>3, <4>1, <4>2 DEF IsChild, Roots
    <3> QED
      BY <3>2, <3>3
  <2> QED
    BY <2>1, <2>2
<1>7. \A k \in Of(c) : IsChild(c, k) =>
          /\ Above(c, k) = {Parent(k)} /\ Parent(k) \in Of(c)
          /\ started[Parent(k)] < started[k]
  <2> SUFFICES ASSUME NEW k \in Of(c), IsChild(c, k)
               PROVE  /\ Above(c, k) = {Parent(k)} /\ Parent(k) \in Of(c)
                      /\ started[Parent(k)] < started[k]
    OBVIOUS
  <2>1. g.nodes[k].ppid # 0 /\ Above(c, k) # {}
    BY DEF IsChild
  <2>2. Above(c, k) = {Parent(k)} \cap Of(c) /\ started[Parent(k)] < started[k]
    BY <1>5, <2>1
  <2> QED
    BY <2>1, <2>2
<1>8. IsFiniteSet(Nodes(g)) /\ Cardinality(Nodes(g)) \in Nat /\ Cardinality(Nodes(g)) <= MaxNodes
      /\ MaxNodes \in Nat
  BY GraphAssumption, FS_CardinalityType DEF Sound, Indexed, Bounded
<1>9. \A k \in Of(c) : /\ IsFiniteSet(Elder(g, started, k))
                       /\ Cardinality(Elder(g, started, k)) \in 0 .. N
  <2> SUFFICES ASSUME NEW k \in Of(c)
               PROVE  /\ IsFiniteSet(Elder(g, started, k))
                      /\ Cardinality(Elder(g, started, k)) \in 0 .. N
    OBVIOUS
  <2> DEFINE E == Elder(g, started, k)
  <2>1. E \subseteq Nodes(g) \ {k} /\ k \in Nodes(g)
    BY <1>2, <1>3 DEF Elder
  <2> HIDE DEF E
  <2>2. /\ IsFiniteSet(Nodes(g) \ {k})
        /\ Cardinality(Nodes(g) \ {k}) = Cardinality(Nodes(g)) - 1
    BY <1>8, <2>1, FS_RemoveElement
  <2>3. IsFiniteSet(E) /\ Cardinality(E) <= Cardinality(Nodes(g) \ {k}) /\ Cardinality(E) \in Nat
    BY <2>1, <2>2, FS_Subset, FS_CardinalityType
  <2>4. Cardinality(E) \in 0 .. N
    BY <1>8, <2>2, <2>3
  <2> QED
    BY <2>3, <2>4 DEF E
<1> DEFINE shown(k) == \E d \in 0 .. Cardinality(Elder(g, started, k)) : k \in Level(c)[d]
           T == {started[k] : k \in {j \in Of(c) : ~shown(j)}}
<1>10. T = {}
  <2> SUFFICES ASSUME T # {} PROVE FALSE
    OBVIOUS
  <2>1. PICK e \in T : \A y \in T : e <= y
    <3>1. T \subseteq Nat
      BY <1>2, <1>3
    <3> HIDE DEF T
    <3> QED
      BY <3>1, LeastNat
  <2>2. PICK k \in Of(c) : ~shown(k) /\ started[k] = e
    OBVIOUS
  <2>3. IsChild(c, k)
    <3> SUFFICES ASSUME ~IsChild(c, k) PROVE FALSE
      OBVIOUS
    <3>1. k \in Level(c)[0]
      BY LevelIs
    <3>2. 0 \in 0 .. Cardinality(Elder(g, started, k))
      BY <1>9
    <3> QED
      BY <2>2, <3>1, <3>2
  <2> DEFINE p == Parent(k)
             E == Elder(g, started, k)
             F == Elder(g, started, p)
  <2>4. Above(c, k) = {p} /\ p \in Of(c) /\ started[p] < started[k]
    BY <1>7, <2>3
  <2>5. started[p] \in Nat /\ started[k] \in Nat /\ p \in Nodes(g)
    BY <1>2, <1>3, <2>4
  <2>6. shown(p)
    <3> SUFFICES ASSUME ~shown(p) PROVE FALSE
      OBVIOUS
    <3>1. started[p] \in T
      BY <2>4
    <3>2. e <= started[p]
      BY <2>1, <3>1
    <3> QED
      BY <2>2, <2>4, <2>5, <3>2
  <2>7. PICK d \in 0 .. Cardinality(F) : p \in Level(c)[d]
    BY <2>6
  <2>8. F \cup {p} \subseteq E /\ p \notin F
    <3>1. \A j \in Nodes(g) : started[j] \in Nat
      BY <1>2, <1>3
    <3> HIDE DEF p
    <3> QED
      BY <2>4, <2>5, <3>1 DEF Elder
  <2>9. IsFiniteSet(E) /\ IsFiniteSet(F) /\ Cardinality(E) \in 0 .. N /\ Cardinality(F) \in 0 .. N
    BY <1>9, <2>4
  <2> HIDE DEF E, F, p
  <2>10. /\ IsFiniteSet(F \cup {p}) /\ Cardinality(F \cup {p}) = Cardinality(F) + 1
    BY <2>8, <2>9, FS_AddElement
  <2>11. Cardinality(F \cup {p}) <= Cardinality(E)
    BY <2>8, <2>9, <2>10, FS_Subset
  <2>12. d + 1 \in 0 .. Cardinality(E) /\ d + 1 \in 0 .. N /\ d + 1 # 0 /\ (d + 1) - 1 = d
    BY <1>8, <2>9, <2>10, <2>11
  <2>13. k \in Level(c)[d + 1]
    <3>1. Level(c)[d + 1] = {j \in Of(c) : /\ IsChild(c, j)
                                           /\ Above(c, j) \cap Level(c)[(d + 1) - 1] # {}}
      BY <2>12, LevelIs
    <3> QED
      BY <2>3, <2>4, <2>7, <2>12, <3>1
  <2>14. shown(k)
    BY <2>12, <2>13 DEF E
  <2> QED
    BY <2>2, <2>14
<1>11. ASSUME NEW k \in Of(c) PROVE k \in TreeLines(c)
  <2>1. shown(k)
    BY <1>10
  <2>2. PICK d \in 0 .. Cardinality(Elder(g, started, k)) : k \in Level(c)[d]
    BY <2>1
  <2>3. Cardinality(Elder(g, started, k)) \in 0 .. N
    BY <1>9
  <2>4. d \in 0 .. MaxNodes - 1
    BY <1>8, <2>3
  <2> QED
    BY <2>2, <2>4 DEF TreeLines
<1>12. ASSUME NEW k \in TreeLines(c) PROVE k \in Of(c)
  <2>1. PICK d \in 0 .. MaxNodes - 1 : k \in Level(c)[d]
    BY DEF TreeLines
  <2>2. CASE d = 0
    BY <1>6, <2>1, <2>2
  <2>3. CASE d # 0
    BY <2>1, <2>3, LevelIs
  <2> QED
    BY <2>2, <2>3
<1> QED
  BY <1>6, <1>11, <1>12

\* What the process view shows is true and complete: for any processes and their
\* parents, with events lost, repeated and out of order, and any limit.
THEOREM TreeIsTrue == Spec => []ProcessTreeTrue
<1>1. GraphInv => ProcessTreeTrue
  <2>1. GraphInv => Sound(g)
    BY DEF GraphInv
  <2>2. Sound(g) => EveryProcessShown
    BY TreeShown DEF EveryProcessShown
  <2> QED
    BY <2>1, <2>2, AncestryHolds DEF ProcessTreeTrue
<1> QED
  BY GraphStart, GraphStep, <1>1, PTL DEF Spec

-----------------------------------------------------------------------------
(* The selections of the process view.                                     *)

\* The lists of the view, of the graph.
KeysOf(h) ==
    Picked(Names, {i \in DOMAIN Names : {k \in Nodes(h) : h.nodes[k].name = Names[i]} # {}})

LinesOf(h, sel) ==
    IF sel < Len(KeysOf(h))
    THEN Cardinality({k \in Nodes(h) : h.nodes[k].name = KeysOf(h)[sel + 1]}) ELSE 0

\* The selections are within them.
Valid(h, sel, tree) == KeysOf(h) # <<>> => sel < Len(KeysOf(h)) /\ tree < LinesOf(h, sel)

SelectionInv ==
    /\ cgroupSel \in Nat /\ treeSel \in Nat /\ activePanel \in DOMAIN Panels
    /\ phase \in {"ingest", "correlate", "view"}
    /\ phase = "view" => Valid(g, cgroupSel, treeSel)

LEMMA ListsAre ==
    ASSUME Sound(g)
    PROVE  /\ CgroupKeys = KeysOf(g) /\ Len(KeysOf(g)) \in Nat
           /\ KeysOf(g) = <<>> <=> Len(KeysOf(g)) = 0
           /\ \A sel \in Nat : /\ LinesAt(sel) = LinesOf(g, sel) /\ LinesOf(g, sel) \in Nat
                               /\ sel < Len(KeysOf(g)) => LinesOf(g, sel) > 0
<1> DEFINE S == {i \in DOMAIN Names : {k \in Nodes(g) : g.nodes[k].name = Names[i]} # {}}
           keys == KeysOf(g)
<1>1. CgroupKeys = keys
  BY DEF CgroupKeys, KeysOf, Of
<1>2. Names \in Seq(Range(Names)) /\ S \subseteq DOMAIN Names
  BY ViewAssumption
<1>3. keys \in Seq(Range(Names)) /\ Picks(Names, S, keys)
  <2>1. keys = Picked(Names, S)
    BY DEF KeysOf
  <2> HIDE DEF S, keys
  <2> QED
    BY <1>2, <2>1, PickedIs
<1>4. Len(keys) \in Nat /\ (keys = <<>> <=> Len(keys) = 0) /\ DOMAIN keys = 1 .. Len(keys)
  <2> HIDE DEF keys
  <2> QED
    BY <1>3
<1>5. ASSUME NEW i \in DOMAIN keys PROVE {k \in Nodes(g) : g.nodes[k].name = keys[i]} # {}
  <2>1. Nth(S, i) \in S /\ keys[i] = Names[Nth(S, i)]
    BY <1>3 DEF Picks
  <2> QED
    BY <2>1
<1>6. ASSUME NEW sel \in Nat
      PROVE  /\ LinesAt(sel) = LinesOf(g, sel) /\ LinesOf(g, sel) \in Nat
             /\ sel < Len(keys) => LinesOf(g, sel) > 0
  <2>1. CASE ~(sel < Len(keys))
    BY <1>1, <2>1 DEF LinesAt, LinesOf
  <2>2. CASE sel < Len(keys)
    <3> DEFINE c == keys[sel + 1]
               M == {k \in Nodes(g) : g.nodes[k].name = c}
    <3>1. sel + 1 \in DOMAIN keys
      BY <1>4, <2>2
    <3>2. M # {}
      BY <1>5, <3>1
    <3>3. LinesAt(sel) = Cardinality(TreeLines(c)) /\ LinesOf(g, sel) = Cardinality(M)
      BY <1>1, <2>2 DEF LinesAt, LinesOf
    <3> HIDE DEF c
    <3>4. TreeLines(c) = M
      BY TreeShown DEF Of
    <3>5. IsFiniteSet(M)
      <4>1. M \in SUBSET Nodes(g) /\ IsFiniteSet(Nodes(g))
        BY DEF Sound, Indexed
      <4> QED
        BY <4>1, FS_Subset
    <3> HIDE DEF M
    <3>6. Cardinality(M) \in Nat /\ Cardinality(M) # 0
      BY <3>2, <3>5, FS_CardinalityType, FS_EmptySet
    <3> QED
      BY <3>3, <3>4, <3>6
  <2> QED
    BY <2>1, <2>2
<1> QED
  BY <1>1, <1>4, <1>6

LEMMA PanelsAre == DOMAIN Panels = 1 .. 3
BY DEF Panels

\* The tree is rebuilt for a container of the list.
LEMMA RebuiltValid ==
    ASSUME Sound(g), NEW sel \in Nat, NEW tree \in Nat,
           KeysOf(g) # <<>> => sel < Len(KeysOf(g))
    PROVE  Valid(g, sel, RebuildTree(sel, tree)) /\ RebuildTree(sel, tree) \in Nat
<1>1. /\ CgroupKeys = KeysOf(g) /\ LinesAt(sel) = LinesOf(g, sel) /\ LinesOf(g, sel) \in Nat
      /\ sel < Len(KeysOf(g)) => LinesOf(g, sel) > 0
  BY ListsAre
<1>2. RebuildTree(sel, tree) = IF KeysOf(g) # <<>> /\ tree >= LinesOf(g, sel) THEN 0 ELSE tree
  BY <1>1 DEF RebuildTree
<1> QED
  BY <1>1, <1>2 DEF Valid

\* What the steps of the program do to the process view.
LEMMA OnlyProcGraph ==
    ASSUME [Next]_vars
    PROVE  \/ UNCHANGED <<g, phase, cgroupSel, treeSel, activePanel>>
           \/ Collection(session.procs) \/ SetData
           \/ NavUp \/ NavDown \/ NavTop \/ NavBottom \/ SwitchPanel
<1>1. CASE Collect
  BY <1>1 DEF Collect
<1>2. ASSUME NEW batch, NEW events, NEW elapsed, DataMsg(batch, events, elapsed)
      PROVE  SetData
  BY <1>2 DEF DataMsg
<1> DEFINE same == UNCHANGED <<g, phase, cgroupSel, treeSel, activePanel>>
<1>3. UNCHANGED procGraphVars => same
  BY DEF procGraphVars, viewVars
<1>4. ASSUME NEW h, WindowSizeMsg(h) PROVE same
  BY <1>3, <1>4 DEF WindowSizeMsg
<1>5. ASSUME NEW t, ThemeChangedMsg(t) PROVE same
  BY <1>3, <1>5 DEF ThemeChangedMsg, ApplyTheme
<1>6. CASE View
  BY <1>3, <1>6 DEF View
<1>7. ASSUME NEW key, HandleKey(key)
      PROVE  same \/ NavUp \/ NavDown \/ NavTop \/ NavBottom \/ SwitchPanel
  <2>1. CASE ProcGraphKey(key)
    BY <2>1 DEF ProcGraphKey
  <2>2. CASE CycleTheme(key)
    BY <1>3, <2>2 DEF CycleTheme, ApplyTheme
  <2>3. CASE PaletteKey(key) \/ ModalKey \/ Quit(key) \/ OpenOverlay(key) \/ Esc(key)
    BY <1>3, <2>3 DEF PaletteKey, ModalKey, Quit, OpenOverlay, Esc
  <2>4. CASE SwitchTab(key) \/ NavDetail(key) \/ DetailKey(key) \/ TableKey(key)
    BY <1>3, <2>4 DEF SwitchTab, NavDetail, DetailKey, TableKey
  <2> QED
    BY <1>7, <2>1, <2>2, <2>3, <2>4 DEF HandleKey
<1>8. CASE UNCHANGED vars
  BY <1>3, <1>8 DEF vars
<1> QED
  BY <1>1, <1>2, <1>4, <1>5, <1>6, <1>7, <1>8 DEF Next

LEMMA SelectionStart == Init => SelectionInv
BY PanelsAre DEF Init, ProcGraphInit, SelectionInv

LEMMA SelectionStep == GraphInv /\ SelectionInv /\ [Next]_vars => SelectionInv'
<1> SUFFICES ASSUME GraphInv, SelectionInv, [Next]_vars
             PROVE  SelectionInv'
  OBVIOUS
<1>1. /\ Sound(g) /\ cgroupSel \in Nat /\ treeSel \in Nat /\ activePanel \in DOMAIN Panels
      /\ phase \in {"ingest", "correlate", "view"}
      /\ phase = "view" => Valid(g, cgroupSel, treeSel)
  BY DEF GraphInv, SelectionInv
<1>2. /\ CgroupKeys = KeysOf(g) /\ Len(KeysOf(g)) \in Nat
      /\ KeysOf(g) = <<>> <=> Len(KeysOf(g)) = 0
      /\ \A sel \in Nat : LinesAt(sel) = LinesOf(g, sel) /\ LinesOf(g, sel) \in Nat
  BY <1>1, ListsAre
<1>3. CASE UNCHANGED <<g, phase, cgroupSel, treeSel, activePanel>>
  BY <1>1, <1>3 DEF SelectionInv
<1>4. CASE Collection(session.procs)
  <2>1. phase' \in {"ingest", "correlate"} /\ UNCHANGED viewVars
    BY <1>4 DEF Collection, IngestFork, IngestExec, Exit, Drain, Correlate, NextBatch
  <2> QED
    BY <1>1, <2>1 DEF SelectionInv, viewVars
<1>5. ASSUME NEW sel \in Nat, NEW tree \in Nat, Valid(g, sel, tree),
             cgroupSel' = sel, treeSel' = tree, g' = g, phase' = "view",
             activePanel' \in DOMAIN Panels
      PROVE  SelectionInv'
  BY <1>5 DEF SelectionInv
<1>6. ASSUME NEW sel \in Nat, KeysOf(g) # <<>> => sel < Len(KeysOf(g)),
             cgroupSel' = sel, treeSel' = RebuildTree(sel, treeSel), g' = g, phase' = "view",
             activePanel' = activePanel
      PROVE  SelectionInv'
  <2> DEFINE tree == RebuildTree(sel, treeSel)
  <2>1. Valid(g, sel, tree) /\ tree \in Nat
    BY <1>1, <1>6, RebuiltValid
  <2> HIDE DEF tree
  <2> QED
    BY <1>1, <1>5, <1>6, <2>1 DEF tree
<1>7. CASE SetData
  <2> DEFINE sel == RebuildCgroupList(cgroupSel)
  <2>1. sel \in Nat /\ (KeysOf(g) # <<>> => sel < Len(KeysOf(g)))
    <3>1. sel = IF cgroupSel >= Len(KeysOf(g)) THEN 0 ELSE cgroupSel
      BY <1>2 DEF RebuildCgroupList
    <3>2. cgroupSel \in Nat /\ Len(KeysOf(g)) \in Nat /\ (KeysOf(g) = <<>> <=> Len(KeysOf(g)) = 0)
      BY <1>1, <1>2
    <3> HIDE DEF sel
    <3> QED
      BY <3>1, <3>2
  <2>2. /\ cgroupSel' = sel /\ treeSel' = RebuildTree(sel, treeSel) /\ g' = g /\ phase' = "view"
        /\ activePanel' = activePanel
    BY <1>7 DEF SetData
  <2> HIDE DEF sel
  <2> QED
    BY <1>6, <2>1, <2>2
<1>8. CASE NavUp
  <2>1. /\ phase = "view" /\ g' = g /\ phase' = "view" /\ activePanel' = activePanel
        /\ Valid(g, cgroupSel, treeSel)
    BY <1>1, <1>8 DEF NavUp
  <2>2. CASE cgroupSel > 0 /\ SelectContainer(cgroupSel - 1)
    <3>1. /\ cgroupSel - 1 \in Nat /\ (KeysOf(g) # <<>> => cgroupSel - 1 < Len(KeysOf(g)))
          /\ cgroupSel' = cgroupSel - 1 /\ treeSel' = RebuildTree(cgroupSel - 1, treeSel)
      BY <1>1, <1>2, <2>1, <2>2 DEF SelectContainer, Valid
    <3> QED
      BY <1>6, <2>1, <3>1
  <2>3. CASE treeSel > 0 /\ treeSel' = treeSel - 1 /\ UNCHANGED cgroupSel
    <3>1. treeSel - 1 \in Nat /\ Valid(g, cgroupSel, treeSel - 1)
      BY <1>1, <1>2, <2>1, <2>3 DEF Valid
    <3> QED
      BY <1>1, <1>5, <2>1, <2>3, <3>1
  <2> QED
    BY <1>8, <2>2, <2>3 DEF NavUp
<1>9. CASE NavDown
  <2>1. /\ phase = "view" /\ g' = g /\ phase' = "view" /\ activePanel' = activePanel
        /\ Valid(g, cgroupSel, treeSel)
    BY <1>1, <1>9 DEF NavDown
  <2>2. CASE cgroupSel + 1 < Len(CgroupKeys) /\ SelectContainer(cgroupSel + 1)
    <3>1. /\ cgroupSel + 1 \in Nat /\ cgroupSel + 1 < Len(KeysOf(g))
          /\ cgroupSel' = cgroupSel + 1 /\ treeSel' = RebuildTree(cgroupSel + 1, treeSel)
      BY <1>1, <1>2, <2>2 DEF SelectContainer
    <3> QED
      BY <1>6, <2>1, <3>1
  <2>3. CASE treeSel + 1 < LinesAt(cgroupSel) /\ treeSel' = treeSel + 1 /\ UNCHANGED cgroupSel
    <3>1. treeSel + 1 \in Nat /\ Valid(g, cgroupSel, treeSel + 1)
      BY <1>1, <1>2, <2>1, <2>3 DEF Valid
    <3> QED
      BY <1>1, <1>5, <2>1, <2>3, <3>1
  <2> QED
    BY <1>9, <2>2, <2>3 DEF NavDown
<1>10. CASE NavTop
  <2>1. /\ phase = "view" /\ g' = g /\ phase' = "view" /\ activePanel' = activePanel
        /\ Valid(g, cgroupSel, treeSel)
    BY <1>1, <1>10 DEF NavTop
  <2>2. CASE SelectContainer(0)
    <3>1. /\ 0 \in Nat /\ (KeysOf(g) # <<>> => 0 < Len(KeysOf(g)))
          /\ cgroupSel' = 0 /\ treeSel' = RebuildTree(0, treeSel)
      BY <1>2, <2>2 DEF SelectContainer
    <3> QED
      BY <1>6, <2>1, <3>1
  <2>3. CASE treeSel' = 0 /\ UNCHANGED cgroupSel
    <3>1. 0 \in Nat /\ Valid(g, cgroupSel, 0)
      BY <1>1, <1>2, <2>1 DEF Valid
    <3> QED
      BY <1>1, <1>5, <2>1, <2>3, <3>1
  <2> QED
    BY <1>10, <2>2, <2>3 DEF NavTop
<1>11. CASE NavBottom
  <2>1. /\ phase = "view" /\ g' = g /\ phase' = "view" /\ activePanel' = activePanel
        /\ Valid(g, cgroupSel, treeSel) /\ cgroupSel' = cgroupSel
        /\ LinesAt(cgroupSel) > 0 /\ treeSel' = LinesAt(cgroupSel) - 1
    BY <1>1, <1>11 DEF NavBottom
  <2> DEFINE n == LinesOf(g, cgroupSel)
  <2>2. LinesAt(cgroupSel) = n /\ n \in Nat
    BY <1>1, <1>2
  <2>3. (KeysOf(g) # <<>> => cgroupSel < Len(KeysOf(g)))
    BY <2>1 DEF Valid
  <2>4. n - 1 \in Nat /\ n - 1 < n
    BY <2>1, <2>2
  <2>5. Valid(g, cgroupSel, n - 1) /\ treeSel' = n - 1
    BY <2>1, <2>2, <2>3, <2>4 DEF Valid
  <2> HIDE DEF n
  <2> QED
    BY <1>1, <1>5, <2>1, <2>4, <2>5
<1>12. CASE SwitchPanel
  <2>1. /\ phase' = "view" /\ phase = "view" /\ activePanel' \in DOMAIN Panels
        /\ UNCHANGED <<g, cgroupSel, treeSel>>
    BY <1>12 DEF SwitchPanel
  <2> QED
    BY <1>1, <1>5, <2>1
<1> QED
  BY <1>3, <1>4, <1>7, <1>8, <1>9, <1>10, <1>11, <1>12, OnlyProcGraph

-----------------------------------------------------------------------------
(* The order of the rows.                                                  *)

Fields == {"rows", "visible", "cursor", "offset", "sortCol", "sortAsc", "filter", "focused",
           "height", "search", "drawn"}
Rows == [name : Containers, place : 1 .. Len(ContainerNames)]

\* Matching and Order, of what they depend on.
MatchingOf(rows, filter) == {i \in DOMAIN rows : rows[i].name \in filter}

OrderOf(columns, rows, sortCol, sortAsc, indices) ==
    LET less(i, j) ==
            LET kind == columns[sortCol]
            IN IF sortAsc THEN SortLess(kind, rows[i], rows[j])
                          ELSE SortLess(kind, rows[j], rows[i])
        before(i, j) ==
            IF sortCol \in DOMAIN columns /\ columns[sortCol] # "unsortable"
            THEN less(i, j) \/ (~less(j, i) /\ i < j) ELSE i < j
    IN SortedBy(indices, {p \in indices \X indices : before(p[1], p[2])})

LEMMA OrderIs ==
    ASSUME NEW t, NEW S
    PROVE  /\ Order(t, S) = OrderOf(layout.columns, t.rows, t.sortCol, t.sortAsc, S)
           /\ Matching(t) = MatchingOf(t.rows, t.filter)
BY DEF Order, OrderOf, Sortable, Columns, Matching, MatchingOf

\* By a number, and by position where the numbers are equal.
ByNumber(w, S) ==
    {p \in S \X S : w[p[1]] < w[p[2]] \/ (~(w[p[2]] < w[p[1]]) /\ p[1] < p[2])}

LEMMA NumberOrders ==
    ASSUME NEW S, S \subseteq Nat, NEW w \in [S -> Int]
    PROVE  Orders(ByNumber(w, S), S)
<1>1. \A x, y \in S : <<x, y>> \in ByNumber(w, S) <=>
                        w[x] < w[y] \/ (~(w[y] < w[x]) /\ x < y)
  BY DEF ByNumber
<1>2. \A x \in S : w[x] \in Int /\ x \in Nat
  OBVIOUS
<1> QED
  BY <1>1, <1>2 DEF Orders

\* The name of a container has a place in the order of names.
LEMMA RankIs ==
    ASSUME NEW c \in Containers
    PROVE  Rank(c) \in Nat /\ Rank(c) \in DOMAIN ContainerNames /\ ContainerNames[Rank(c)] = c
<1>1. \E i \in DOMAIN ContainerNames : ContainerNames[i] = c
  BY DEF Containers, Range
<1>2. Rank(c) \in DOMAIN ContainerNames /\ ContainerNames[Rank(c)] = c
  BY <1>1 DEF Rank
<1>3. DOMAIN ContainerNames \subseteq Nat
  BY TableAssumption
<1> QED
  BY <1>2, <1>3

\* What a column compares, and the direction of the sorting.
Weight(columns, sortCol, sortAsc, row) ==
    LET value == IF columns[sortCol] = "name" THEN Rank(row.name) ELSE row.place
    IN IF ~(sortCol \in DOMAIN columns /\ columns[sortCol] # "unsortable") THEN 0
       ELSE IF sortAsc THEN value ELSE 0 - value

LEMMA WeightIs ==
    ASSUME NEW columns, NEW sortCol, NEW sortAsc \in BOOLEAN, NEW a \in Rows, NEW b \in Rows
    PROVE  /\ Weight(columns, sortCol, sortAsc, a) \in Int
           /\ sortCol \in DOMAIN columns /\ columns[sortCol] # "unsortable" =>
                 (Weight(columns, sortCol, sortAsc, a) < Weight(columns, sortCol, sortAsc, b)
                   <=> IF sortAsc THEN SortLess(columns[sortCol], a, b)
                                  ELSE SortLess(columns[sortCol], b, a))
<1>1. /\ a.name \in Containers /\ b.name \in Containers
      /\ a.place \in Nat /\ b.place \in Nat
  BY TableAssumption DEF Rows
<1>2. Rank(a.name) \in Nat /\ Rank(b.name) \in Nat
  BY <1>1, RankIs
<1> QED
  BY <1>1, <1>2 DEF Weight, SortLess

LEMMA OrderSorts ==
    ASSUME NEW columns, NEW rows \in Seq(Rows), NEW sortCol, NEW sortAsc \in BOOLEAN,
           NEW S, S \subseteq DOMAIN rows
    PROVE  LET w == [i \in S |-> Weight(columns, sortCol, sortAsc, rows[i])]
           IN Sorts(S, ByNumber(w, S), OrderOf(columns, rows, sortCol, sortAsc, S))
<1> DEFINE w == [i \in S |-> Weight(columns, sortCol, sortAsc, rows[i])]
           less(i, j) == IF sortAsc THEN SortLess(columns[sortCol], rows[i], rows[j])
                                    ELSE SortLess(columns[sortCol], rows[j], rows[i])
           before(i, j) ==
               IF sortCol \in DOMAIN columns /\ columns[sortCol] # "unsortable"
               THEN less(i, j) \/ (~less(j, i) /\ i < j) ELSE i < j
           R == {p \in S \X S : before(p[1], p[2])}
<1>1. DOMAIN rows = 1 .. Len(rows) /\ Len(rows) \in Nat
  OBVIOUS
<1>2. S \subseteq Nat /\ IsFiniteSet(S)
  <2>1. 1 \in Int /\ Len(rows) \in Int
    BY <1>1
  <2>2. IsFiniteSet(1 .. Len(rows))
    BY <2>1, FS_Interval
  <2>3. S \in SUBSET (1 .. Len(rows))
    BY <1>1
  <2> QED
    BY <2>2, <2>3, FS_Subset
<1>3. \A i \in S : rows[i] \in Rows
  OBVIOUS
<1>4. \A i, j \in S : before(i, j) <=> w[i] < w[j] \/ (~(w[j] < w[i]) /\ i < j)
  <2> SUFFICES ASSUME NEW i \in S, NEW j \in S
               PROVE  before(i, j) <=> w[i] < w[j] \/ (~(w[j] < w[i]) /\ i < j)
    OBVIOUS
  <2>1. rows[i] \in Rows /\ rows[j] \in Rows
    BY <1>3
  <2>2. /\ w[i] = Weight(columns, sortCol, sortAsc, rows[i])
        /\ w[j] = Weight(columns, sortCol, sortAsc, rows[j])
    OBVIOUS
  <2>3. CASE sortCol \in DOMAIN columns /\ columns[sortCol] # "unsortable"
    <3>1. (w[i] < w[j] <=> less(i, j)) /\ (w[j] < w[i] <=> less(j, i))
      BY <2>1, <2>2, <2>3, WeightIs
    <3> QED
      BY <2>3, <3>1
  <2>4. CASE ~(sortCol \in DOMAIN columns /\ columns[sortCol] # "unsortable")
    <3>1. w[i] = 0 /\ w[j] = 0
      BY <2>2, <2>4 DEF Weight
    <3> QED
      BY <2>4, <3>1
  <2> QED
    BY <2>3, <2>4
<1>5. w \in [S -> Int]
  BY <1>3, WeightIs
<1>6. OrderOf(columns, rows, sortCol, sortAsc, S) = SortedBy(S, R)
  BY DEF OrderOf
<1> HIDE DEF w, before
<1>7. R = ByNumber(w, S)
  BY <1>4 DEF ByNumber
<1>8. Orders(ByNumber(w, S), S)
  BY <1>2, <1>5, NumberOrders
<1>9. Sorts(S, ByNumber(w, S), SortedBy(S, ByNumber(w, S)))
  BY <1>2, <1>8, SortedIs
<1> QED
  BY <1>6, <1>7, <1>9 DEF w

-----------------------------------------------------------------------------
(* The table's operations.                                                 *)

TableTyped(columns, t) ==
    /\ DOMAIN t = Fields
    /\ t.rows \in Seq(Rows) /\ t.filter \subseteq Containers
    /\ t.cursor \in Nat /\ t.offset \in Nat /\ t.height \in Heights
    /\ t.sortCol \in 0 .. Len(columns) /\ t.sortAsc \in BOOLEAN
    /\ t.focused \in BOOLEAN /\ t.search \in BOOLEAN

InOrder(columns, t) ==
    t.visible = OrderOf(columns, t.rows, t.sortCol, t.sortAsc, MatchingOf(t.rows, t.filter))

CursorValid(t) == t.visible # <<>> => t.cursor < Len(t.visible)

\* The visible rows are always those of the last sort: nothing changes rows,
\* filter or order without sorting again.
TableOK(columns, t) == TableTyped(columns, t) /\ InOrder(columns, t) /\ CursorValid(t)

LEMMA VisibleIs ==
    ASSUME NEW columns, NEW t, TableTyped(columns, t), InOrder(columns, t)
    PROVE  /\ t.visible \in Seq(DOMAIN t.rows)
           /\ Len(t.visible) \in Nat
           /\ Len(t.visible) = Cardinality(MatchingOf(t.rows, t.filter))
           /\ t.visible = <<>> <=> Len(t.visible) = 0
<1> DEFINE S == MatchingOf(t.rows, t.filter)
           w == [i \in S |-> Weight(columns, t.sortCol, t.sortAsc, t.rows[i])]
<1>1. S \subseteq DOMAIN t.rows
  BY DEF MatchingOf
<1>2. t.rows \in Seq(Rows) /\ t.sortAsc \in BOOLEAN
  BY DEF TableTyped
<1> HIDE DEF S
<1>3. Sorts(S, ByNumber(w, S), OrderOf(columns, t.rows, t.sortCol, t.sortAsc, S))
  BY <1>1, <1>2, OrderSorts
<1>4. t.visible \in Seq(S) /\ Len(t.visible) = Cardinality(S)
  BY <1>3 DEF Sorts, InOrder, S
<1>5. t.visible \in Seq(DOMAIN t.rows)
  BY <1>1, <1>4
<1> QED
  BY <1>4, <1>5 DEF S

\* reindex: only the list of visible rows changes.
SameBut(t, u) ==
    /\ DOMAIN u = Fields
    /\ u.rows = t.rows /\ u.filter = t.filter /\ u.sortCol = t.sortCol /\ u.sortAsc = t.sortAsc
    /\ u.height = t.height /\ u.focused = t.focused /\ u.search = t.search

LEMMA ReindexIs ==
    ASSUME NEW t, DOMAIN t = Fields
    PROVE  /\ SameBut(t, Reindex(t)) /\ InOrder(layout.columns, Reindex(t))
           /\ Reindex(t).cursor = t.cursor /\ Reindex(t).offset = t.offset
           /\ Reindex(t).drawn = t.drawn
<1> DEFINE u == Reindex(t)
<1>1. u = [t EXCEPT !.visible = Order(t, Matching(t))]
  BY DEF Reindex
<1> HIDE DEF u
<1>2. SameBut(t, u) /\ u.cursor = t.cursor /\ u.offset = t.offset /\ u.drawn = t.drawn
  BY <1>1 DEF SameBut, Fields
<1>3. u.visible = Order(t, Matching(t))
  BY <1>1 DEF Fields
<1>4. u.visible = OrderOf(layout.columns, t.rows, t.sortCol, t.sortAsc,
                           MatchingOf(t.rows, t.filter))
  BY <1>3, OrderIs
<1>5. InOrder(layout.columns, u)
  BY <1>2, <1>4 DEF SameBut, InOrder
<1> QED
  BY <1>2, <1>5 DEF u

\* Moving the cursor and scrolling after it.
LEMMA ScrollIs ==
    ASSUME NEW columns, NEW t, TableOK(columns, t), NEW c \in Nat,
           t.visible # <<>> => c < Len(t.visible)
    PROVE  LET u == ScrollToCursor([t EXCEPT !.cursor = c])
           IN TableOK(columns, u) /\ u.focused = t.focused
<1> DEFINE v == [t EXCEPT !.cursor = c]
           up == IF c < t.offset THEN c ELSE t.offset
           o == IF c >= up + t.height THEN c - t.height + 1 ELSE up
           u == [v EXCEPT !.offset = o]
<1>1. DOMAIN t = Fields /\ t.offset \in Nat /\ t.height \in Nat
  BY TableAssumption DEF TableOK, TableTyped
<1>2. DOMAIN v = Fields /\ v.cursor = c /\ v.offset = t.offset /\ v.height = t.height
  BY <1>1 DEF Fields
<1>3. ScrollToCursor(v) = u
  BY <1>2 DEF ScrollToCursor
<1>4. o \in Nat
  BY <1>1
<1> HIDE DEF o
<1>5. /\ SameBut(t, u) /\ u.visible = t.visible /\ u.cursor = c /\ u.offset = o
  BY <1>1, <1>2 DEF Fields, SameBut
<1> HIDE DEF u, v
<1>6. TableTyped(columns, u)
  BY <1>4, <1>5 DEF SameBut, TableOK, TableTyped
<1>7. InOrder(columns, u) /\ CursorValid(u)
  BY <1>5 DEF SameBut, TableOK, InOrder, CursorValid
<1> QED
  BY <1>3, <1>5, <1>6, <1>7 DEF TableOK, SameBut, v

LEMMA MoveUpOK ==
    ASSUME NEW columns, NEW t, TableOK(columns, t), NEW n \in Nat
    PROVE  TableOK(columns, MoveUp(t, n)) /\ MoveUp(t, n).focused = t.focused
<1> DEFINE c == IF t.cursor < n THEN 0 ELSE t.cursor - n
<1>1. t.cursor \in Nat /\ (t.visible = <<>> <=> Len(t.visible) = 0) /\ Len(t.visible) \in Nat
  BY VisibleIs DEF TableOK, TableTyped
<1>2. c \in Nat /\ (t.visible # <<>> => c < Len(t.visible))
  BY <1>1 DEF TableOK, CursorValid
<1> HIDE DEF c
<1>3. MoveUp(t, n) = ScrollToCursor([t EXCEPT !.cursor = c])
  BY DEF MoveUp, c
<1> QED
  BY <1>2, <1>3, ScrollIs

LEMMA MoveDownOK ==
    ASSUME NEW columns, NEW t, TableOK(columns, t), NEW n \in Nat
    PROVE  TableOK(columns, MoveDown(t, n)) /\ MoveDown(t, n).focused = t.focused
<1> DEFINE c == IF t.cursor + n >= Len(t.visible) THEN LastRow(t) ELSE t.cursor + n
<1>1. t.cursor \in Nat /\ (t.visible = <<>> <=> Len(t.visible) = 0) /\ Len(t.visible) \in Nat
  BY VisibleIs DEF TableOK, TableTyped
<1>2. c \in Nat /\ (t.visible # <<>> => c < Len(t.visible))
  BY <1>1 DEF LastRow
<1> HIDE DEF c
<1>3. MoveDown(t, n) = ScrollToCursor([t EXCEPT !.cursor = c])
  BY DEF MoveDown, c
<1> QED
  BY <1>2, <1>3, ScrollIs

\* A change of the order: the rows that match are the same, and as many.
LEMMA ResortOK ==
    ASSUME NEW t, TableOK(layout.columns, t),
           NEW col \in 0 .. Len(layout.columns), NEW asc \in BOOLEAN
    PROVE  LET u == Reindex([t EXCEPT !.sortCol = col, !.sortAsc = asc])
           IN TableOK(layout.columns, u) /\ u.focused = t.focused
<1> DEFINE v == [t EXCEPT !.sortCol = col, !.sortAsc = asc]
           u == Reindex(v)
<1>1. DOMAIN t = Fields
  BY DEF TableOK, TableTyped
<1>2. /\ DOMAIN v = Fields /\ v.sortCol = col /\ v.sortAsc = asc /\ v.rows = t.rows
      /\ v.filter = t.filter /\ v.cursor = t.cursor /\ v.offset = t.offset
      /\ v.height = t.height /\ v.focused = t.focused /\ v.search = t.search
  BY <1>1 DEF Fields
<1> HIDE DEF v
<1>3. SameBut(v, u) /\ InOrder(layout.columns, u) /\ u.cursor = t.cursor /\ u.offset = t.offset
  BY <1>2, ReindexIs
<1> HIDE DEF u
<1>4. TableTyped(layout.columns, u)
  BY <1>2, <1>3 DEF SameBut, TableOK, TableTyped
<1>5. Len(u.visible) = Len(t.visible) /\ (u.visible # <<>> => t.visible # <<>>)
  <2>1. u.rows = t.rows /\ u.filter = t.filter
    BY <1>2, <1>3 DEF SameBut
  <2>2. /\ Len(u.visible) = Cardinality(MatchingOf(u.rows, u.filter))
        /\ u.visible = <<>> <=> Len(u.visible) = 0
    BY <1>3, <1>4, VisibleIs
  <2>3. /\ Len(t.visible) = Cardinality(MatchingOf(t.rows, t.filter))
        /\ t.visible = <<>> <=> Len(t.visible) = 0
    BY VisibleIs DEF TableOK
  <2> QED
    BY <2>1, <2>2, <2>3
<1>6. CursorValid(u)
  BY <1>3, <1>5 DEF TableOK, CursorValid
<1> QED
  BY <1>2, <1>3, <1>4, <1>6 DEF TableOK, SameBut, u, v

Kinds == {"name", "number", "unsortable"}

\* Every view's first column is a name.
LEMMA LayoutIs ==
    ASSUME layout \in TableViews
    PROVE  /\ DOMAIN layout.columns = 1 .. Len(layout.columns)
           /\ Len(layout.columns) \in Nat \ {0}
           /\ layout.columns[1] = "name"
<1>1. \A n \in Nat : Numbers(n) \in Seq({"number"})
  BY DEF Numbers
<1>2. /\ Cpu.columns = <<"name">> \o Numbers(6)
      /\ Memory.columns = <<"name">> \o Numbers(4) \o <<"unsortable">> \o Numbers(6)
      /\ Io.columns = <<"name">> \o Numbers(6)
      /\ Network.columns = <<"name">> \o Numbers(5)
      /\ Syscall.columns = <<"name", "unsortable", "name">> \o Numbers(6)
  BY DEF Cpu, Memory, Io, Network, Syscall
<1>3. ASSUME NEW q, q \in Seq(Kinds), Len(q) > 0, q[1] = "name", NEW x \in Seq(Kinds)
      PROVE  q \o x \in Seq(Kinds) /\ Len(q \o x) > 0 /\ (q \o x)[1] = "name"
  BY <1>3
<1>4. /\ Numbers(4) \in Seq(Kinds) /\ Numbers(5) \in Seq(Kinds) /\ Numbers(6) \in Seq(Kinds)
      /\ <<"unsortable">> \in Seq(Kinds)
  <2>1. 4 \in Nat /\ 5 \in Nat /\ 6 \in Nat
    OBVIOUS
  <2>2. /\ Numbers(4) \in Seq({"number"}) /\ Numbers(5) \in Seq({"number"})
        /\ Numbers(6) \in Seq({"number"})
    BY <1>1, <2>1
  <2>3. \A q : q \in Seq({"number"}) => q \in Seq(Kinds)
    BY DEF Kinds
  <2>4. <<"unsortable">> \in Seq(Kinds)
    BY DEF Kinds
  <2> QED
    BY <2>2, <2>3, <2>4
<1>5. /\ <<"name">> \in Seq(Kinds) /\ Len(<<"name">>) > 0 /\ <<"name">>[1] = "name"
      /\ <<"name", "unsortable", "name">> \in Seq(Kinds)
      /\ Len(<<"name", "unsortable", "name">>) > 0
      /\ <<"name", "unsortable", "name">>[1] = "name"
  BY DEF Kinds
<1>6. ASSUME NEW q, q \in Seq(Kinds), Len(q) > 0, q[1] = "name", layout.columns = q
      PROVE  /\ DOMAIN layout.columns = 1 .. Len(layout.columns)
             /\ Len(layout.columns) \in Nat \ {0} /\ layout.columns[1] = "name"
  BY <1>6
<1>7. CASE layout = Cpu \/ layout = Io
  <2> DEFINE a == <<"name">> \o Numbers(6)
  <2>1. a \in Seq(Kinds) /\ Len(a) > 0 /\ a[1] = "name"
    BY <1>3, <1>4, <1>5
  <2>2. layout.columns = a
    BY <1>2, <1>7
  <2> HIDE DEF a
  <2> QED
    BY <1>6, <2>1, <2>2
<1>8. CASE layout = Network
  <2> DEFINE a == <<"name">> \o Numbers(5)
  <2>1. a \in Seq(Kinds) /\ Len(a) > 0 /\ a[1] = "name"
    BY <1>3, <1>4, <1>5
  <2>2. layout.columns = a
    BY <1>2, <1>8
  <2> HIDE DEF a
  <2> QED
    BY <1>6, <2>1, <2>2
<1>9. CASE layout = Syscall
  <2> DEFINE a == <<"name", "unsortable", "name">> \o Numbers(6)
  <2>1. a \in Seq(Kinds) /\ Len(a) > 0 /\ a[1] = "name"
    BY <1>3, <1>4, <1>5
  <2>2. layout.columns = a
    BY <1>2, <1>9
  <2> HIDE DEF a
  <2> QED
    BY <1>6, <2>1, <2>2
<1>10. CASE layout = Memory
  <2> DEFINE a == <<"name">> \o Numbers(4)
             b == a \o <<"unsortable">>
  <2>1. a \in Seq(Kinds) /\ Len(a) > 0 /\ a[1] = "name"
    BY <1>3, <1>4, <1>5
  <2> HIDE DEF a
  <2>2. b \in Seq(Kinds) /\ Len(b) > 0 /\ b[1] = "name"
    BY <1>3, <1>4, <2>1
  <2> HIDE DEF b
  <2>3. b \o Numbers(6) \in Seq(Kinds) /\ Len(b \o Numbers(6)) > 0 /\ (b \o Numbers(6))[1] = "name"
    BY <1>3, <1>4, <2>2
  <2> QED
    BY <1>2, <1>6, <1>10, <2>3 DEF a, b
<1> QED
  BY <1>7, <1>8, <1>9, <1>10 DEF TableViews

LEMMA ModuloItself == \A n \in Nat \ {0} : 0 % n = 0 /\ n % n = 0
<1>1. \A n \in Nat \ {0} : 0 % n = 0
  OBVIOUS
<1>2. \A n \in Nat \ {0} : n % n = 0
  OBVIOUS
<1> QED
  BY <1>1, <1>2

LEMMA SortNextOK ==
    ASSUME layout \in TableViews, NEW t, TableOK(layout.columns, t)
    PROVE  TableOK(layout.columns, SortNext(t)) /\ SortNext(t).focused = t.focused
<1> DEFINE n == Len(layout.columns)
           after == [i \in 1 .. n |-> ((t.sortCol + i - 1) % n) + 1]
           hit(i) == Sortable(after[i]) /\ \A j \in 1 .. i - 1 : ~Sortable(after[j])
           first == CHOOSE i \in 1 .. n : hit(i)
<1>1. /\ n \in Nat \ {0} /\ DOMAIN layout.columns = 1 .. n /\ layout.columns[1] = "name"
      /\ t.sortCol \in 0 .. n
  BY LayoutIs DEF TableOK, TableTyped
<1>2. \A i \in 1 .. n : after[i] \in 1 .. n
  <2> SUFFICES ASSUME NEW i \in 1 .. n PROVE ((t.sortCol + i - 1) % n) + 1 \in 1 .. n
    OBVIOUS
  <2>1. t.sortCol + i - 1 \in Int
    BY <1>1
  <2>2. (t.sortCol + i - 1) % n \in 0 .. n - 1
    BY <1>1, <2>1
  <2> QED
    BY <1>1, <2>2
<1>3. \E i \in 1 .. n : Sortable(after[i])
  <2>1. Sortable(1)
    BY <1>1 DEF Sortable, Columns
  <2>2. CASE t.sortCol = 0
    <3>1. 1 \in 1 .. n /\ (t.sortCol + 1 - 1) % n = 0
      <4>1. 1 \in 1 .. n /\ t.sortCol + 1 - 1 = 0
        BY <1>1, <2>2
      <4>2. 0 % n = 0
        BY <1>1, ModuloItself
      <4> QED
        BY <4>1, <4>2
    <3>2. after[1] = ((t.sortCol + 1 - 1) % n) + 1
      BY <3>1
    <3>3. after[1] = 1
      BY <3>1, <3>2
    <3> QED
      BY <2>1, <3>1, <3>3
  <2>3. CASE t.sortCol # 0
    <3> DEFINE i == n - t.sortCol + 1
    <3>1. i \in 1 .. n /\ t.sortCol + i - 1 = n
      BY <1>1, <2>3
    <3>2. n % n = 0
      BY <1>1, ModuloItself
    <3> HIDE DEF i
    <3>3. after[i] = ((t.sortCol + i - 1) % n) + 1
      BY <3>1
    <3>4. after[i] = 1
      BY <3>1, <3>2, <3>3
    <3> QED
      BY <2>1, <3>1, <3>4
  <2> QED
    BY <2>2, <2>3
<1>4. \E i \in 1 .. n : hit(i)
  <2> DEFINE T == {i \in 1 .. n : Sortable(after[i])}
  <2>1. T \subseteq Nat /\ T # {}
    <3> HIDE DEF after
    <3>1. T # {}
      BY <1>3
    <3>2. T \subseteq 1 .. n
      OBVIOUS
    <3> QED
      BY <1>1, <3>1, <3>2
  <2>2. PICK i \in T : \A j \in T : i <= j
    <3> HIDE DEF T
    <3> QED
      BY <2>1, LeastNat
  <2>3. \A j \in 1 .. i - 1 : j \in 1 .. n /\ ~(i <= j)
    BY <1>1
  <2>4. hit(i)
    BY <2>2, <2>3
  <2> QED
    BY <2>4
<1>5. first \in 1 .. n
  BY <1>4
<1>6. after[first] \in 0 .. n
  BY <1>1, <1>2, <1>5
<1>7. SortNext(t) = Reindex([t EXCEPT !.sortCol = after[first], !.sortAsc = TRUE])
  BY DEF SortNext, Columns
<1> HIDE DEF after, first
<1> QED
  BY <1>6, <1>7, ResortOK

LEMMA SortPrevOK ==
    ASSUME layout \in TableViews, NEW t, TableOK(layout.columns, t)
    PROVE  TableOK(layout.columns, SortPrev(t)) /\ SortPrev(t).focused = t.focused
<1>1. /\ DOMAIN t = Fields /\ t.sortCol \in 0 .. Len(layout.columns)
      /\ DOMAIN layout.columns = 1 .. Len(layout.columns) /\ Len(layout.columns) \in Nat
  BY LayoutIs DEF TableOK, TableTyped
<1>2. CASE t.sortAsc
  <2>1. [t EXCEPT !.sortAsc = FALSE] = [t EXCEPT !.sortCol = t.sortCol, !.sortAsc = FALSE]
    BY <1>1 DEF Fields
  <2>2. SortPrev(t) = Reindex([t EXCEPT !.sortCol = t.sortCol, !.sortAsc = FALSE])
    BY <1>2, <2>1 DEF SortPrev
  <2> QED
    BY <1>1, <2>2, ResortOK
<1>3. CASE ~t.sortAsc /\ Sortable(t.sortCol + 1)
  <2>1. t.sortCol + 1 \in 0 .. Len(layout.columns)
    BY <1>1, <1>3 DEF Sortable, Columns
  <2>2. SortPrev(t) = Reindex([t EXCEPT !.sortCol = t.sortCol + 1, !.sortAsc = TRUE])
    BY <1>3 DEF SortPrev
  <2> QED
    BY <2>1, <2>2, ResortOK
<1>4. CASE ~t.sortAsc /\ ~Sortable(t.sortCol + 1)
  BY <1>4 DEF SortPrev
<1> QED
  BY <1>2, <1>3, <1>4

LEMMA UpdateTableOK ==
    ASSUME layout \in TableViews, NEW t, TableOK(layout.columns, t), NEW key
    PROVE  TableOK(layout.columns, UpdateTable(t, key)) /\ UpdateTable(t, key).focused = t.focused
<1> DEFINE ok(u) == TableOK(layout.columns, u) /\ u.focused = t.focused
<1>1. t.height \in Nat /\ 1 \in Nat /\ t.focused \in BOOLEAN
  BY TableAssumption DEF TableOK, TableTyped
<1>2. ok(t)
  OBVIOUS
<1>3. ok(MoveUp(t, 1)) /\ ok(MoveUp(t, t.height)) /\ ok(MoveDown(t, 1)) /\ ok(MoveDown(t, t.height))
  BY <1>1, MoveUpOK, MoveDownOK
<1>4. ok(SortNext(t)) /\ ok(SortPrev(t))
  BY SortNextOK, SortPrevOK
<1>5. ok([t EXCEPT !.cursor = 0, !.offset = 0])
  <2> DEFINE u == [t EXCEPT !.cursor = 0, !.offset = 0]
  <2>1. DOMAIN t = Fields
    BY DEF TableOK, TableTyped
  <2>2. SameBut(t, u) /\ u.visible = t.visible /\ u.cursor = 0 /\ u.offset = 0
    BY <2>1 DEF Fields, SameBut
  <2> HIDE DEF u
  <2>3. TableTyped(layout.columns, u)
    BY <2>2 DEF SameBut, TableOK, TableTyped
  <2>4. Len(t.visible) \in Nat /\ (t.visible = <<>> <=> Len(t.visible) = 0)
    BY VisibleIs DEF TableOK
  <2>5. InOrder(layout.columns, u)
    BY <2>2 DEF SameBut, TableOK, InOrder
  <2>6. CursorValid(u)
    BY <2>2, <2>4 DEF CursorValid
  <2> QED
    BY <2>2, <2>3, <2>5, <2>6 DEF TableOK, SameBut, u
<1>6. ok(ScrollToCursor([t EXCEPT !.cursor = LastRow(t)]))
  <2>1. Len(t.visible) \in Nat /\ (t.visible = <<>> <=> Len(t.visible) = 0)
    BY VisibleIs DEF TableOK
  <2>2. LastRow(t) \in Nat /\ (t.visible # <<>> => LastRow(t) < Len(t.visible))
    BY <2>1 DEF LastRow
  <2> QED
    BY <2>2, ScrollIs
<1> HIDE DEF ok
<1>7. ok(UpdateTable(t, key))
  BY <1>1, <1>2, <1>3, <1>4, <1>5, <1>6 DEF UpdateTable
<1> QED
  BY <1>7 DEF ok

\* The rows of a batch that names no container twice.
LEMMA RowsTyped ==
    ASSUME NEW batch \in Seq(Containers), IsInjective(batch)
    PROVE  RowsOf(batch) \in Seq(Rows)
<1> DEFINE n == Len(batch)
           m == Len(ContainerNames)
           rank == [i \in 1 .. n |-> Rank(batch[i])]
           byNumber == [i \in DOMAIN batch |-> [name |-> batch[i], place |-> i]]
           R == {p \in (DOMAIN batch) \X (DOMAIN batch) :
                     SortLess("name", byNumber[p[1]], byNumber[p[2]])}
           names == SortedBy(DOMAIN batch, R)
<1>1. n \in Nat /\ DOMAIN batch = 1 .. n /\ m \in Nat /\ DOMAIN ContainerNames = 1 .. m
  BY TableAssumption
<1>2. \A i \in 1 .. n : batch[i] \in Containers
  BY <1>1
<1>3. \A i \in 1 .. n : /\ Rank(batch[i]) \in 1 .. m /\ Rank(batch[i]) \in Nat
                        /\ ContainerNames[Rank(batch[i])] = batch[i]
  BY <1>1, <1>2, RankIs
<1>4. \A i, j \in 1 .. n : Rank(batch[i]) = Rank(batch[j]) => i = j
  BY <1>1, <1>3 DEF IsInjective
<1>5. n <= m
  <2>1. rank \in Injection(1 .. n, 1 .. m)
    <3>1. rank \in [1 .. n -> 1 .. m]
      BY <1>3
    <3>2. \A i, j \in 1 .. n : rank[i] = rank[j] => i = j
      BY <1>4
    <3> HIDE DEF rank
    <3> QED
      BY <3>1, <3>2 DEF Injection, IsInjective
  <2>3. IsFiniteSet(1 .. m) /\ Cardinality(1 .. m) = m /\ Cardinality(1 .. n) = n
    BY <1>1, UpToCounted
  <2>4. Cardinality(1 .. n) <= Cardinality(1 .. m)
    BY <2>1, <2>3, FS_Injection
  <2> QED
    BY <2>3, <2>4
<1>6. \A i \in 1 .. n : byNumber[i] \in Rows /\ byNumber[i].name = batch[i]
  BY <1>1, <1>2, <1>5 DEF Rows
<1>7. Orders(R, 1 .. n)
  <2>1. \A i, j \in 1 .. n : <<i, j>> \in R <=> Rank(batch[i]) < Rank(batch[j])
    <3> SUFFICES ASSUME NEW i \in 1 .. n, NEW j \in 1 .. n
                 PROVE  <<i, j>> \in R <=> Rank(batch[i]) < Rank(batch[j])
      OBVIOUS
    <3>1. <<i, j>> \in R <=> SortLess("name", byNumber[i], byNumber[j])
      BY <1>1
    <3>2. byNumber[i].name = batch[i] /\ byNumber[j].name = batch[j]
      BY <1>6
    <3> HIDE DEF byNumber, R
    <3> QED
      BY <3>1, <3>2 DEF SortLess
  <2> HIDE DEF R
  <2>2. \A i, j \in 1 .. n : i # j => \/ Rank(batch[i]) < Rank(batch[j])
                                       \/ Rank(batch[j]) < Rank(batch[i])
    BY <1>3, <1>4
  <2>3. \A i \in 1 .. n : Rank(batch[i]) \in Nat
    BY <1>3
  <2>4. \A i \in 1 .. n : <<i, i>> \notin R
    BY <2>1, <2>3
  <2>5. \A i, j, k \in 1 .. n : <<i, j>> \in R /\ <<j, k>> \in R => <<i, k>> \in R
    BY <2>1, <2>3
  <2> QED
    BY <2>1, <2>2, <2>4, <2>5 DEF Orders
<1>8. Sorts(1 .. n, R, names)
  <2>2. IsFiniteSet(1 .. n)
    BY <1>1, UpToCounted
  <2>3. DOMAIN batch = 1 .. n
    BY <1>1
  <2> HIDE DEF R
  <2> QED
    BY <1>7, <2>2, <2>3, SortedIs
<1>9. \A k \in 1 .. n : names[k] \in 1 .. n
  <2>1. Cardinality(1 .. n) = n
    BY <1>1, UpToCounted
  <2>2. names \in Seq(1 .. n) /\ Len(names) = n
    BY <1>8, <2>1 DEF Sorts
  <2> HIDE DEF names
  <2> QED
    BY <1>1, <2>2
<1>10. RowsOf(batch) = IF layout.rowsBy = "number" THEN byNumber
                       ELSE [k \in DOMAIN batch |-> byNumber[names[k]]]
  BY DEF RowsOf
<1> HIDE DEF names
<1>11. byNumber \in [1 .. n -> Rows]
  BY <1>1, <1>6
<1>12. [k \in DOMAIN batch |-> byNumber[names[k]]] \in [1 .. n -> Rows]
  BY <1>1, <1>6, <1>9
<1> HIDE DEF byNumber
<1>13. RowsOf(batch) \in [1 .. n -> Rows]
  BY <1>10, <1>11, <1>12
<1> QED
  BY <1>1, <1>13

\* A drawing that is dropped, kept or made changes nothing else.
LEMMA RedrawnOK ==
    ASSUME NEW columns, NEW t, TableOK(columns, t), NEW d
    PROVE  /\ TableOK(columns, [t EXCEPT !.drawn = d])
           /\ SameBut(t, [t EXCEPT !.drawn = d]) /\ [t EXCEPT !.drawn = d].drawn = d
<1> DEFINE u == [t EXCEPT !.drawn = d]
<1>1. DOMAIN t = Fields
  BY DEF TableOK, TableTyped
<1>2. /\ SameBut(t, u) /\ u.drawn = d /\ u.visible = t.visible
      /\ u.cursor = t.cursor /\ u.offset = t.offset
  BY <1>1 DEF Fields, SameBut
<1> HIDE DEF u
<1>3. TableTyped(columns, u)
  BY <1>2 DEF SameBut, TableOK, TableTyped
<1>4. InOrder(columns, u) /\ CursorValid(u)
  BY <1>2 DEF SameBut, TableOK, InOrder, CursorValid
<1> QED
  BY <1>2, <1>3, <1>4 DEF TableOK, u

\* What a view does to its table: it stays in order, the focus stays, and the
\* drawing is dropped.
Redrawn(columns, t, u) == TableOK(columns, u) /\ u.focused = t.focused /\ u.drawn = NoDrawing

LEMMA DirtyOK ==
    ASSUME NEW columns, NEW t, TableOK(columns, t)
    PROVE  Redrawn(columns, t, Dirty(t))
BY RedrawnOK DEF Dirty, Redrawn, SameBut

LEMMA SetTableDataOK ==
    ASSUME layout \in TableViews, NEW t, TableOK(layout.columns, t),
           NEW batch \in Seq(Containers), IsInjective(batch)
    PROVE  Redrawn(layout.columns, t, SetTableData(t, batch))
<1> DEFINE rows == RowsOf(batch)
           v == [t EXCEPT !.rows = rows]
           u == Reindex(v)
           c == IF u.cursor >= Len(u.visible) THEN LastRow(u) ELSE u.cursor
           x == [u EXCEPT !.cursor = c]
<1>1. rows \in Seq(Rows)
  BY RowsTyped
<1>2. DOMAIN t = Fields
  BY DEF TableOK, TableTyped
<1> HIDE DEF rows
<1>3. /\ DOMAIN v = Fields /\ v.sortCol = t.sortCol /\ v.sortAsc = t.sortAsc /\ v.rows = rows
      /\ v.filter = t.filter /\ v.cursor = t.cursor /\ v.offset = t.offset
      /\ v.height = t.height /\ v.focused = t.focused /\ v.search = t.search
  BY <1>2 DEF Fields
<1> HIDE DEF v
<1>4. SameBut(v, u) /\ InOrder(layout.columns, u) /\ u.cursor = t.cursor /\ u.offset = t.offset
  BY <1>3, ReindexIs
<1> HIDE DEF u
<1>5. TableTyped(layout.columns, u)
  BY <1>1, <1>3, <1>4 DEF SameBut, TableOK, TableTyped
<1>6. Len(u.visible) \in Nat /\ (u.visible = <<>> <=> Len(u.visible) = 0) /\ u.cursor \in Nat
  BY <1>4, <1>5, VisibleIs DEF TableTyped
<1>7. c \in Nat /\ (u.visible # <<>> => c < Len(u.visible))
  BY <1>6 DEF LastRow
<1> HIDE DEF c
<1>8. SameBut(u, x) /\ x.visible = u.visible /\ x.cursor = c /\ x.offset = u.offset
  BY <1>5 DEF Fields, SameBut, TableTyped
<1> HIDE DEF x
<1>9. TableTyped(layout.columns, x)
  BY <1>5, <1>7, <1>8 DEF SameBut, TableTyped
<1>10. InOrder(layout.columns, x) /\ CursorValid(x)
  BY <1>4, <1>7, <1>8 DEF SameBut, InOrder, CursorValid
<1>11. TableOK(layout.columns, x) /\ x.focused = t.focused
  BY <1>3, <1>4, <1>8, <1>9, <1>10 DEF TableOK, SameBut
<1>12. SetTableData(t, batch) = Dirty(x)
  BY DEF SetTableData, SetRows, x, c, u, v, rows
<1> QED
  BY <1>11, <1>12, DirtyOK DEF Redrawn

LEMMA SetFilterOK ==
    ASSUME NEW t, TableOK(layout.columns, t), NEW filter, filter \subseteq Containers
    PROVE  TableOK(layout.columns, SetFilter(t, filter)) /\ SetFilter(t, filter).focused = t.focused
<1> DEFINE v == [t EXCEPT !.filter = filter, !.cursor = 0, !.offset = 0]
           u == Reindex(v)
<1>1. DOMAIN t = Fields
  BY DEF TableOK, TableTyped
<1>2. /\ DOMAIN v = Fields /\ v.sortCol = t.sortCol /\ v.sortAsc = t.sortAsc /\ v.rows = t.rows
      /\ v.filter = filter /\ v.cursor = 0 /\ v.offset = 0
      /\ v.height = t.height /\ v.focused = t.focused /\ v.search = t.search
  BY <1>1 DEF Fields
<1> HIDE DEF v
<1>3. SameBut(v, u) /\ InOrder(layout.columns, u) /\ u.cursor = 0 /\ u.offset = 0
  BY <1>2, ReindexIs
<1> HIDE DEF u
<1>4. TableTyped(layout.columns, u)
  BY <1>2, <1>3 DEF SameBut, TableOK, TableTyped
<1>5. Len(u.visible) \in Nat /\ (u.visible = <<>> <=> Len(u.visible) = 0)
  BY <1>3, <1>4, VisibleIs
<1>6. CursorValid(u)
  BY <1>3, <1>5 DEF CursorValid
<1> QED
  BY <1>2, <1>3, <1>4, <1>6 DEF TableOK, SameBut, SetFilter, u, v

\* The search bar is opened or closed, or the window resized.
LEMMA SearchOK ==
    ASSUME NEW columns, NEW t, TableOK(columns, t), NEW b \in BOOLEAN, NEW h \in Heights
    PROVE  /\ Redrawn(columns, t, Dirty([t EXCEPT !.search = b]))
           /\ Redrawn(columns, t, Dirty([t EXCEPT !.height = h]))
<1>1. DOMAIN t = Fields
  BY DEF TableOK, TableTyped
<1>2. TableOK(columns, [t EXCEPT !.search = b]) /\ [t EXCEPT !.search = b].focused = t.focused
  <2> DEFINE u == [t EXCEPT !.search = b]
  <2>1. /\ DOMAIN u = Fields /\ u.rows = t.rows /\ u.filter = t.filter /\ u.sortCol = t.sortCol
        /\ u.sortAsc = t.sortAsc /\ u.height = t.height /\ u.focused = t.focused /\ u.search = b
        /\ u.visible = t.visible /\ u.cursor = t.cursor /\ u.offset = t.offset
    BY <1>1 DEF Fields
  <2> HIDE DEF u
  <2>2. TableTyped(columns, u)
    BY <2>1 DEF TableOK, TableTyped
  <2>3. InOrder(columns, u) /\ CursorValid(u)
    BY <2>1 DEF TableOK, InOrder, CursorValid
  <2> QED
    BY <2>1, <2>2, <2>3 DEF TableOK, u
<1>3. TableOK(columns, [t EXCEPT !.height = h]) /\ [t EXCEPT !.height = h].focused = t.focused
  <2> DEFINE u == [t EXCEPT !.height = h]
  <2>1. /\ DOMAIN u = Fields /\ u.rows = t.rows /\ u.filter = t.filter /\ u.sortCol = t.sortCol
        /\ u.sortAsc = t.sortAsc /\ u.height = h /\ u.focused = t.focused /\ u.search = t.search
        /\ u.visible = t.visible /\ u.cursor = t.cursor /\ u.offset = t.offset
    BY <1>1 DEF Fields
  <2> HIDE DEF u
  <2>2. TableTyped(columns, u)
    BY <2>1 DEF TableOK, TableTyped
  <2>3. InOrder(columns, u) /\ CursorValid(u)
    BY <2>1 DEF TableOK, InOrder, CursorValid
  <2> QED
    BY <2>1, <2>2, <2>3 DEF TableOK, u
<1> QED
  BY <1>2, <1>3, DirtyOK DEF Redrawn

LEMMA UpdateViewOK ==
    ASSUME layout \in TableViews, NEW t, TableOK(layout.columns, t), NEW key,
           NEW query, query \subseteq Containers
    PROVE  Redrawn(layout.columns, t, UpdateView(t, key, query))
<1>1. t.search \in BOOLEAN /\ \E h : h \in Heights
  BY TableAssumption DEF TableOK, TableTyped
<1>2. \A b \in BOOLEAN : Redrawn(layout.columns, t, Dirty([t EXCEPT !.search = b]))
  BY <1>1, SearchOK
<1>3. Redrawn(layout.columns, t, Dirty(SetFilter(t, query)))
  BY SetFilterOK, DirtyOK DEF Redrawn
<1>4. Redrawn(layout.columns, t, Dirty(UpdateTable(t, key)))
  BY UpdateTableOK, DirtyOK DEF Redrawn
<1> QED
  BY <1>1, <1>2, <1>3, <1>4 DEF UpdateView

-----------------------------------------------------------------------------
(* The root model.                                                         *)

AppFields == {"state", "prevState", "active", "modal", "theme", "themeIdx"}
DetailFields == {"container", "hist", "events", "batch", "paused", "search", "drawn"}

AppOK(a) ==
    /\ DOMAIN a = AppFields
    /\ a.state \in AppStates /\ a.prevState \in AppStates
    /\ a.active \in DOMAIN Tabs /\ a.modal \in BOOLEAN
    /\ a.theme \in Range(Themes) /\ a.themeIdx \in 0 .. Len(Themes) - 1

PaletteOK(p) ==
    /\ DOMAIN p = {"visible", "cursor", "matches"}
    /\ p.visible \in BOOLEAN /\ p.cursor \in Nat /\ p.matches \in Seq(Range(Commands))

OverlayOK(a, p) ==
    /\ a.modal = (a.state = "Help")
    /\ a.prevState # "Help"
    /\ p.visible => a.state = "CommandPalette"
    /\ p.visible /\ p.matches # <<>> => p.cursor < Len(p.matches)

FocusOK(a, t) == t.focused = (Tabs[a.active] = "table")

PageOK(d) ==
    /\ DOMAIN d = DetailFields
    /\ d.container \in Containers \cup {NoContainer}
    /\ d.hist \subseteq Containers /\ d.events \subseteq Containers
    /\ d.paused \in BOOLEAN /\ d.search \in BOOLEAN

OfOne(a, d) ==
    /\ (a.state = "Detail" \/ (a.modal /\ a.prevState = "Detail")) => d.container # NoContainer
    /\ d.container # NoContainer => d.hist \cup d.events \subseteq {d.container}

\* What the table draws, of what it depends on.
DrawOf(rows, visible, cursor, offset, height, focused, sortCol, sortAsc, search, theme) ==
    LET from == offset + 1
        to   == IF offset + height > Len(visible) THEN Len(visible) ELSE offset + height
    IN [of |-> "table", lines |-> [i \in from .. to |-> rows[visible[i]]],
        cursor |-> IF focused THEN cursor ELSE -1, sortCol |-> sortCol,
        sortAsc |-> sortAsc, search |-> search, theme |-> theme]

\* The table's drawing is the one with the focus, also while another tab is shown:
\* the tab is only drawn while it is the active one, and losing the focus does not
\* drop the drawing.
TableDrawn(t, theme) ==
    t.drawn # NoDrawing =>
        t.drawn = DrawOf(t.rows, t.visible, t.cursor, t.offset, t.height, TRUE,
                         t.sortCol, t.sortAsc, t.search, theme)

PageDrawn(d, theme) == d.drawn # NoDrawing => d.drawn = DrawDetail(d, theme)

\* What the handlers of the root model rely on and keep.
Consistent(s, lay, a, p, t, d) ==
    /\ s \in Sessions /\ lay \in TableViews
    /\ AppOK(a) /\ PaletteOK(p) /\ OverlayOK(a, p)
    /\ TableOK(lay.columns, t) /\ FocusOK(a, t) /\ TableDrawn(t, a.theme)
    /\ PageOK(d) /\ OfOne(a, d) /\ PageDrawn(d, a.theme)

AppInv ==
    /\ Consistent(session, layout, app, palette, tbl, detail)
    /\ themeMsgs \subseteq Range(Themes)
    /\ run \in {"running", "quit", "panicked"}

LEMMA DrawTableIs ==
    ASSUME NEW t, NEW theme
    PROVE  DrawTable(t, theme) =
             DrawOf(t.rows, t.visible, t.cursor, t.offset, t.height, t.focused,
                    t.sortCol, t.sortAsc, t.search, theme)
BY DEF DrawTable, DrawOf

\* The commands of the palette: quit and the themes.
LEMMA CommandsAre ==
    /\ Commands \in Seq(Range(Commands)) /\ Len(Commands) \in Nat \ {0}
    /\ DOMAIN Commands = 1 .. Len(Commands)
    /\ Range(Commands) = {"quit"} \cup Range(Themes)
<1>1. Themes \in Seq(STRING) /\ Len(Themes) > 0
  BY TuiAssumption
<1> DEFINE n == Len(Themes)
<1>2. n \in Nat /\ DOMAIN Themes = 1 .. n
  BY <1>1
<1>3. \A x \in Range(Themes) : x \in STRING
  BY <1>1 DEF Range
<1>4. <<"quit">> \in Seq({"quit"} \cup Range(Themes)) /\ Themes \in Seq({"quit"} \cup Range(Themes))
  BY <1>1 DEF Range
<1>5. Commands \in Seq({"quit"} \cup Range(Themes)) /\ Len(Commands) = n + 1
  BY <1>2, <1>4 DEF Commands
<1>6. DOMAIN Commands = 1 .. n + 1
  BY <1>5
<1>7. Commands[1] = "quit" /\ \A i \in 1 .. n : Commands[i + 1] = Themes[i]
  BY <1>1, <1>2, <1>4 DEF Commands
<1>8. Range(Commands) = {"quit"} \cup Range(Themes)
  <2>1. Range(Commands) \subseteq {"quit"} \cup Range(Themes)
    BY <1>5 DEF Range
  <2>2. "quit" \in Range(Commands)
    BY <1>2, <1>6, <1>7 DEF Range
  <2>3. ASSUME NEW x \in Range(Themes) PROVE x \in Range(Commands)
    <3>1. PICK i \in 1 .. n : x = Themes[i]
      BY <1>2 DEF Range
    <3>2. i + 1 \in 1 .. n + 1 /\ Commands[i + 1] = x
      BY <1>2, <1>7, <3>1
    <3> QED
      BY <1>6, <3>2 DEF Range
  <2> QED
    BY <2>1, <2>2, <2>3
<1> QED
  BY <1>2, <1>5, <1>6, <1>8

\* The rows of the table the cursor is on is a container.
LEMMA SelectedIs ==
    ASSUME NEW columns, NEW t, TableOK(columns, t), t.visible # <<>>
    PROVE  SelectedRow(t) \in Containers
<1>1. /\ t.visible \in Seq(DOMAIN t.rows) /\ Len(t.visible) \in Nat
      /\ t.cursor \in Nat /\ t.cursor < Len(t.visible) /\ t.rows \in Seq(Rows)
  BY VisibleIs DEF TableOK, TableTyped, CursorValid
<1>2. t.cursor + 1 \in 1 .. Len(t.visible)
  BY <1>1
<1>3. t.visible[t.cursor + 1] \in DOMAIN t.rows
  BY <1>1, <1>2
<1>4. t.rows[t.visible[t.cursor + 1]] \in Rows
  BY <1>1, <1>3
<1> QED
  BY <1>4 DEF SelectedRow, Rows

-----------------------------------------------------------------------------
(* The handlers of the root model keep Consistent.                         *)

LEMMA AppInit == Init => AppInv
<1> SUFFICES ASSUME Init PROVE AppInv
  OBVIOUS
<1>1. session \in Sessions /\ layout \in TableViews
  BY TuiAssumption DEF Init
<1>2. PICK h \in Heights : tbl = NewTable(h)
  BY <1>1, TuiAssumption DEF Init
<1>3. 1 \in DOMAIN Tabs /\ Tabs[1] = "overview" /\ Themes[1] \in Range(Themes)
      /\ Len(Themes) \in Nat \ {0}
  BY TuiAssumption DEF Range
<1>4. AppOK(app)
  BY <1>3 DEF Init, AppOK, AppFields, AppStates
<1>5. PaletteOK(palette) /\ OverlayOK(app, palette)
  <2>1. /\ DOMAIN palette = {"visible", "cursor", "matches"} /\ palette.visible = FALSE
        /\ palette.cursor = 0 /\ palette.matches = <<>>
    BY DEF Init, Hidden
  <2>2. <<>> \in Seq(Range(Commands))
    OBVIOUS
  <2>3. PaletteOK(palette)
    <3>1. palette.cursor \in Nat
      BY <2>1
    <3>2. palette.visible \in BOOLEAN
      BY <2>1, Zenon
    <3>3. palette.matches \in Seq(Range(Commands))
      BY <2>1, <2>2
    <3> QED
      BY <2>1, <3>1, <3>2, <3>3, Zenon DEF PaletteOK
  <2>4. OverlayOK(app, palette)
    BY <2>1 DEF OverlayOK, Init
  <2> QED
    BY <2>3, <2>4
<1>6. TableOK(layout.columns, tbl)
  <2>1. /\ DOMAIN tbl = Fields /\ tbl.rows = <<>> /\ tbl.visible = <<>> /\ tbl.cursor = 0
        /\ tbl.offset = 0 /\ tbl.sortCol = 0 /\ tbl.sortAsc = TRUE /\ tbl.filter = Containers
        /\ tbl.focused = FALSE /\ tbl.height = h /\ tbl.search = FALSE
    BY <1>2 DEF NewTable, Fields
  <2>2. Len(layout.columns) \in Nat
    BY <1>1, LayoutIs
  <2>3. TableTyped(layout.columns, tbl)
    <3>1. <<>> \in Seq(Rows) /\ 0 \in 0 .. Len(layout.columns)
      BY <2>2
    <3>2. tbl.cursor \in Nat /\ tbl.offset \in Nat /\ tbl.sortCol \in 0 .. Len(layout.columns)
      BY <2>1, <3>1
    <3>3. tbl.sortAsc \in BOOLEAN /\ tbl.focused \in BOOLEAN /\ tbl.search \in BOOLEAN
      BY <2>1, Zenon
    <3>4. tbl.rows \in Seq(Rows) /\ tbl.filter \subseteq Containers /\ tbl.height \in Heights
      BY <2>1, <3>1
    <3> QED
      BY <2>1, <3>2, <3>3, <3>4, Zenon DEF TableTyped
  <2>4. MatchingOf(tbl.rows, tbl.filter) = {}
    BY <2>1 DEF MatchingOf
  <2> DEFINE w == [i \in {} |-> Weight(layout.columns, tbl.sortCol, tbl.sortAsc, tbl.rows[i])]
             v == OrderOf(layout.columns, tbl.rows, tbl.sortCol, tbl.sortAsc, {})
  <2>5. Sorts({}, ByNumber(w, {}), v)
    <3>1. tbl.rows \in Seq(Rows) /\ tbl.sortAsc \in BOOLEAN /\ {} \subseteq DOMAIN tbl.rows
      BY <2>3 DEF TableTyped
    <3> QED
      BY <3>1, OrderSorts
  <2> HIDE DEF v, w
  <2>6. v \in Seq({}) /\ Len(v) = Cardinality({})
    BY <2>5 DEF Sorts
  <2>7. v = <<>>
    BY <2>6, FS_EmptySet
  <2>8. InOrder(layout.columns, tbl)
    BY <2>1, <2>4, <2>7 DEF InOrder, v
  <2> QED
    BY <2>1, <2>3, <2>8 DEF TableOK, CursorValid
<1>7. FocusOK(app, tbl) /\ TableDrawn(tbl, app.theme)
  BY <1>2, <1>3 DEF Init, FocusOK, TableDrawn, NewTable
<1>8. PageOK(detail) /\ OfOne(app, detail) /\ PageDrawn(detail, app.theme)
  BY DEF Init, PageOK, OfOne, PageDrawn, NewDetail, DetailFields
<1> QED
  BY <1>1, <1>4, <1>5, <1>6, <1>7, <1>8 DEF Init, AppInv, Consistent

\* The samples of a batch are of containers, and the table shows each once.
LEMMA BatchIs ==
    ASSUME NEW s \in Sessions, NEW batch \in s.batches
    PROVE  /\ batch.cpu \in Seq(Containers) /\ batch.mem \in Seq(Containers)
           /\ batch.io \in Seq(Containers) /\ batch.net \in Seq(Containers)
           /\ Shown(batch) \in Seq(Containers) /\ IsInjective(Shown(batch))
           /\ Sampled(batch) \subseteq Containers
<1>1. batch \in Batches /\ \A c \in DOMAIN batch : IsInjective(batch[c])
  BY TuiAssumption
<1>2. /\ DOMAIN batch = {"cpu", "mem", "io", "net", "sys"}
      /\ batch.cpu \in Seq(Containers) /\ batch.mem \in Seq(Containers)
      /\ batch.io \in Seq(Containers) /\ batch.net \in Seq(Containers)
      /\ batch.sys \in Seq(Containers)
  BY <1>1 DEF Batches
<1>3. /\ IsInjective(batch.cpu) /\ IsInjective(batch.mem) /\ IsInjective(batch.net)
      /\ IsInjective(batch.sys)
  BY <1>1, <1>2
<1>4. Shown(batch) \in {batch.cpu, batch.mem, batch.net, batch.sys}
  BY DEF Shown
<1>5. Sampled(batch) \subseteq Containers
  BY <1>2 DEF Sampled, Range
<1> QED
  BY <1>2, <1>3, <1>4, <1>5

\* The batch: the state leaves Loading, the table gets its rows, the page what
\* is of its container.
LEMMA DataKeeps ==
    ASSUME AppInv, NEW batch \in session.batches, NEW events \in session.events, NEW elapsed,
           DataMsg(batch, events, elapsed)
    PROVE  AppInv'
<1> DEFINE from == {events[i].text.container : i \in DOMAIN events}
<1>1. /\ Consistent(session, layout, app, palette, tbl, detail)
      /\ session' = session /\ layout' = layout /\ palette' = palette
      /\ themeMsgs' = themeMsgs /\ run' = run
  BY DEF AppInv, DataMsg
<1>2. /\ Shown(batch) \in Seq(Containers) /\ IsInjective(Shown(batch))
      /\ Sampled(batch) \subseteq Containers /\ events \in Seq(LogEvents)
  BY <1>1, BatchIs, TuiAssumption DEF Consistent
<1>3. from \subseteq Containers
  <2>1. \A i \in DOMAIN events : events[i] \in LogEvents
    BY <1>2
  <2>2. \A e \in LogEvents : e.text \in EventTexts
    BY DEF LogEvents
  <2>3. \A x \in EventTexts : x.container \in Containers
    BY ViewsAssumption
  <2> QED
    BY <2>1, <2>2, <2>3
<1>4. Redrawn(layout.columns, tbl, tbl')
  BY <1>1, <1>2, SetTableDataOK DEF Consistent, DataMsg
<1>5. /\ DOMAIN app' = AppFields
      /\ app'.state = (IF app.state = "Loading" THEN "Dashboard" ELSE app.state)
      /\ app'.prevState = app.prevState /\ app'.active = app.active /\ app'.modal = app.modal
      /\ app'.theme = app.theme /\ app'.themeIdx = app.themeIdx
  BY <1>1 DEF Consistent, AppOK, AppFields, DataMsg
<1>6. AppOK(app') /\ OverlayOK(app', palette)
  BY <1>1, <1>5 DEF Consistent, AppOK, OverlayOK, AppStates
<1> HIDE DEF from
<1>7. detail' = SetDetailData(detail, batch, from)
  BY DEF DataMsg, from
<1>9. PageOK(detail') /\ detail'.container = detail.container /\ PageDrawn(detail', app.theme)
      /\ (OfOne(app, detail) => OfOne(app, detail'))
  <2>1. CASE detail.paused
    BY <1>1, <1>7, <2>1 DEF SetDetailData, Consistent
  <2>2. CASE ~detail.paused
    <3>1. /\ DOMAIN detail' = DetailFields /\ detail'.container = detail.container
          /\ detail'.hist = detail.hist \cup (Sampled(batch) \cap {detail.container})
          /\ detail'.events = detail.events \cup
                (IF detail.container = NoContainer THEN from ELSE from \cap {detail.container})
          /\ detail'.paused = detail.paused /\ detail'.search = detail.search
          /\ detail'.drawn = NoDrawing
      BY <1>1, <1>7, <2>2 DEF SetDetailData, Consistent, PageOK, DetailFields
    <3>2. PageOK(detail')
      BY <1>1, <1>2, <1>3, <3>1 DEF Consistent, PageOK
    <3>3. OfOne(app, detail) => OfOne(app, detail')
      BY <3>1 DEF OfOne
    <3> QED
      BY <3>1, <3>2, <3>3 DEF PageDrawn
  <2> QED
    BY <2>1, <2>2
<1>10. OfOne(app', detail')
  BY <1>1, <1>5, <1>9 DEF Consistent, OfOne
<1>11. PageDrawn(detail', app'.theme)
  BY <1>5, <1>9
<1>12. TableOK(layout.columns, tbl') /\ FocusOK(app', tbl') /\ TableDrawn(tbl', app'.theme)
  BY <1>1, <1>4, <1>5 DEF Redrawn, FocusOK, TableDrawn, Consistent
<1> QED
  BY <1>1, <1>6, <1>9, <1>10, <1>11, <1>12 DEF Consistent, AppInv

\* The page's drawing is dropped.
LEMMA PageDropped ==
    ASSUME NEW a, NEW d, PageOK(d), OfOne(a, d), NEW theme
    PROVE  LET e == [d EXCEPT !.drawn = NoDrawing]
           IN PageOK(e) /\ OfOne(a, e) /\ PageDrawn(e, theme) /\ e.container = d.container
<1> DEFINE e == [d EXCEPT !.drawn = NoDrawing]
<1>1. /\ DOMAIN e = DetailFields /\ e.container = d.container /\ e.hist = d.hist
      /\ e.events = d.events /\ e.paused = d.paused /\ e.search = d.search
      /\ e.drawn = NoDrawing
  BY DEF PageOK, DetailFields
<1> HIDE DEF e
<1>2. PageOK(e) /\ OfOne(a, e) /\ PageDrawn(e, theme)
  BY <1>1 DEF PageOK, OfOne, PageDrawn
<1> QED
  BY <1>1, <1>2 DEF e

LEMMA WindowSizeKeeps ==
    ASSUME AppInv, NEW h \in session.heights, WindowSizeMsg(h)
    PROVE  AppInv'
<1>1. /\ Consistent(session, layout, app, palette, tbl, detail)
      /\ session' = session /\ layout' = layout /\ palette' = palette /\ app' = app
      /\ themeMsgs' = themeMsgs /\ run' = run
  BY DEF AppInv, WindowSizeMsg
<1>2. h \in Heights
  BY <1>1, TuiAssumption DEF Consistent
<1>3. Redrawn(layout.columns, tbl, tbl')
  BY <1>1, <1>2, SearchOK DEF WindowSizeMsg, SetTableSize, Consistent
<1>4. PageOK(detail') /\ OfOne(app, detail') /\ PageDrawn(detail', app.theme)
  BY <1>1, PageDropped DEF WindowSizeMsg, Consistent
<1>5. FocusOK(app, tbl') /\ TableDrawn(tbl', app.theme) /\ TableOK(layout.columns, tbl')
  BY <1>1, <1>3 DEF Redrawn, FocusOK, TableDrawn, Consistent
<1> QED
  BY <1>1, <1>4, <1>5 DEF Consistent, AppInv

\* A theme, from either of its two ways in.
LEMMA ApplyThemeKeeps ==
    ASSUME AppInv, NEW theme \in Range(Themes), NEW idx \in 0 .. Len(Themes) - 1,
           ApplyTheme(theme, idx), themeMsgs' \subseteq themeMsgs
    PROVE  AppInv'
<1>1. /\ Consistent(session, layout, app, palette, tbl, detail)
      /\ session' = session /\ layout' = layout /\ palette' = palette
      /\ run' = run
  BY DEF AppInv, ApplyTheme
<1>2. /\ DOMAIN app' = AppFields /\ app'.state = app.state
      /\ app'.prevState = app.prevState /\ app'.active = app.active /\ app'.modal = app.modal
      /\ app'.theme = theme /\ app'.themeIdx = idx
  BY <1>1 DEF Consistent, AppOK, AppFields, ApplyTheme
<1>3. AppOK(app') /\ OverlayOK(app', palette)
  BY <1>1, <1>2 DEF Consistent, AppOK, OverlayOK
<1>4. Redrawn(layout.columns, tbl, tbl')
  BY <1>1, DirtyOK DEF ApplyTheme, Redraw, Consistent
<1>5. PageOK(detail') /\ OfOne(app, detail') /\ PageDrawn(detail', theme)
  BY <1>1, PageDropped DEF ApplyTheme, Redraw, Consistent
<1>6. OfOne(app', detail') /\ PageDrawn(detail', app'.theme)
  BY <1>2, <1>5 DEF OfOne
<1>7. FocusOK(app', tbl') /\ TableDrawn(tbl', app'.theme) /\ TableOK(layout.columns, tbl')
  BY <1>1, <1>2, <1>4 DEF Redrawn, FocusOK, TableDrawn, Consistent
<1> QED
  BY <1>1, <1>3, <1>5, <1>6, <1>7 DEF Consistent, AppInv

LEMMA ThemeKeeps ==
    ASSUME AppInv
    PROVE  /\ \A t \in themeMsgs : ThemeChangedMsg(t) => AppInv'
           /\ \A key : CycleTheme(key) => AppInv'
<1>1. themeMsgs \subseteq Range(Themes) /\ app.themeIdx \in 0 .. Len(Themes) - 1
  BY DEF AppInv, Consistent, AppOK
<1>2. ASSUME NEW t \in themeMsgs, ThemeChangedMsg(t) PROVE AppInv'
  <2>1. ApplyTheme(t, app.themeIdx) /\ themeMsgs' \subseteq themeMsgs /\ t \in Range(Themes)
    BY <1>1, <1>2 DEF ThemeChangedMsg
  <2> QED
    BY <1>1, <2>1, ApplyThemeKeeps
<1>3. ASSUME NEW key, CycleTheme(key) PROVE AppInv'
  <2> DEFINE n == Len(Themes)
             idx == (app.themeIdx + 1) % n
  <2>1. n \in Nat \ {0} /\ DOMAIN Themes = 1 .. n
    BY TuiAssumption
  <2>2. idx \in 0 .. n - 1
    BY <1>1, <2>1
  <2>3. ApplyTheme(Themes[idx + 1], idx) /\ themeMsgs' = themeMsgs
    BY <1>3 DEF CycleTheme
  <2> HIDE DEF idx
  <2>4. idx + 1 \in DOMAIN Themes
    BY <2>1, <2>2
  <2>5. Themes[idx + 1] \in Range(Themes)
    BY <2>4 DEF Range
  <2> QED
    BY <2>2, <2>3, <2>5, ApplyThemeKeeps
<1> QED
  BY <1>2, <1>3

LEMMA ViewKeeps ==
    ASSUME AppInv, View
    PROVE  AppInv'
<1>1. /\ Consistent(session, layout, app, palette, tbl, detail)
      /\ session' = session /\ layout' = layout /\ palette' = palette /\ app' = app
      /\ themeMsgs' = themeMsgs /\ run' = run
  BY DEF AppInv, View
<1>2. CASE detail' = DrawDetailView(detail, app.theme) /\ tbl' = tbl
  <2>1. CASE detail.drawn # NoDrawing
    BY <1>1, <1>2, <2>1 DEF DrawDetailView, AppInv, Consistent
  <2>2. CASE detail.drawn = NoDrawing
    <3>1. /\ DOMAIN detail' = DetailFields /\ detail'.container = detail.container
          /\ detail'.hist = detail.hist /\ detail'.batch = detail.batch
          /\ detail'.events = detail.events /\ detail'.paused = detail.paused
          /\ detail'.search = detail.search /\ detail'.drawn = DrawDetail(detail, app.theme)
      BY <1>1, <1>2, <2>2 DEF DrawDetailView, Consistent, PageOK, DetailFields
    <3>2. PageOK(detail') /\ OfOne(app, detail')
      BY <1>1, <3>1 DEF Consistent, PageOK, OfOne
    <3>3. DrawDetail(detail, app.theme) = DrawDetail(detail', app.theme)
      BY <3>1 DEF DrawDetail
    <3> QED
      BY <1>1, <1>2, <3>1, <3>2, <3>3 DEF AppInv, Consistent, PageDrawn
  <2> QED
    BY <2>1, <2>2
<1>3. CASE /\ Tabs[app.active] = "table" /\ tbl' = DrawView(tbl, app.theme) /\ detail' = detail
  <2>1. CASE tbl.drawn # NoDrawing
    BY <1>1, <1>3, <2>1 DEF DrawView, AppInv, Consistent
  <2>2. CASE tbl.drawn = NoDrawing
    <3> DEFINE dr == DrawTable(tbl, app.theme)
    <3>1. tbl' = [tbl EXCEPT !.drawn = dr]
      BY <1>3, <2>2 DEF DrawView
    <3>2. tbl.focused = TRUE
      BY <1>1, <1>3 DEF Consistent, FocusOK
    <3>3. dr = DrawOf(tbl.rows, tbl.visible, tbl.cursor, tbl.offset, tbl.height, TRUE,
                      tbl.sortCol, tbl.sortAsc, tbl.search, app.theme)
      BY <3>2, DrawTableIs
    <3> HIDE DEF dr
    <3>4. TableOK(layout.columns, tbl') /\ SameBut(tbl, tbl') /\ tbl'.drawn = dr
      BY <1>1, <3>1, RedrawnOK DEF Consistent
    <3>5. tbl'.visible = tbl.visible /\ tbl'.cursor = tbl.cursor /\ tbl'.offset = tbl.offset
      BY <1>1, <3>1 DEF Consistent, TableOK, TableTyped, Fields
    <3>6. TableDrawn(tbl', app.theme)
      BY <3>3, <3>4, <3>5 DEF TableDrawn, SameBut
    <3>7. FocusOK(app, tbl')
      BY <1>1, <3>4 DEF FocusOK, SameBut, Consistent
    <3> QED
      BY <1>1, <1>3, <3>4, <3>6, <3>7 DEF AppInv, Consistent
  <2> QED
    BY <2>1, <2>2
<1> QED
  BY <1>2, <1>3 DEF View

\* The palette: typing, moving and choosing keep its cursor within the matches.
LEMMA TypedOK ==
    ASSUME PaletteOK(palette), NEW m \in Seq(Range(Commands))
    PROVE  /\ PaletteOK(Typed(m)) /\ Typed(m).visible = palette.visible
           /\ Typed(m).matches # <<>> => Typed(m).cursor < Len(Typed(m).matches)
<1> DEFINE c == IF m = <<>> THEN 0
                ELSE IF palette.cursor >= Len(m) THEN Len(m) - 1 ELSE palette.cursor
           p == [palette EXCEPT !.matches = m, !.cursor = c]
<1>1. Typed(m) = p
  BY DEF Typed
<1>2. palette.cursor \in Nat /\ Len(m) \in Nat /\ (m = <<>> <=> Len(m) = 0)
  BY DEF PaletteOK
<1>3. c \in Nat /\ (m # <<>> => c < Len(m))
  BY <1>2
<1> HIDE DEF c
<1>4. /\ DOMAIN p = {"visible", "cursor", "matches"} /\ p.visible = palette.visible
      /\ p.cursor = c /\ p.matches = m
  BY DEF PaletteOK
<1> HIDE DEF p
<1> QED
  BY <1>1, <1>3, <1>4 DEF PaletteOK

LEMMA PaletteKeeps ==
    ASSUME AppInv, NEW key, PaletteKey(key)
    PROVE  AppInv'
<1>1. /\ Consistent(session, layout, app, palette, tbl, detail)
      /\ session' = session /\ layout' = layout /\ app' = app /\ tbl' = tbl /\ detail' = detail
      /\ run' = run /\ run \in {"running", "quit", "panicked"} /\ palette.visible
      /\ themeMsgs \subseteq Range(Themes)
  BY DEF AppInv, PaletteKey, pageVars
<1>2. PaletteOK(palette) /\ OverlayOK(app, palette)
  BY <1>1 DEF Consistent
<1> DEFINE kept == /\ PaletteOK(palette') /\ OverlayOK(app, palette')
                   /\ themeMsgs' \subseteq Range(Themes)
<1> SUFFICES kept
  BY <1>1 DEF Consistent, AppInv
<1>3. ASSUME palette' = Hidden PROVE PaletteOK(palette') /\ OverlayOK(app, palette')
  <2>1. /\ DOMAIN palette' = {"visible", "cursor", "matches"} /\ palette'.visible = FALSE
        /\ palette'.cursor = 0 /\ palette'.matches = <<>>
    BY <1>3 DEF Hidden
  <2>2. palette'.cursor \in Nat /\ palette'.matches \in Seq(Range(Commands))
    BY <2>1
  <2>3. palette'.visible \in BOOLEAN
    BY <2>1, Zenon
  <2>4. PaletteOK(palette')
    BY <2>1, <2>2, <2>3, Zenon DEF PaletteOK
  <2>5. OverlayOK(app, palette')
    BY <1>2, <2>1 DEF OverlayOK
  <2> QED
    BY <2>4, <2>5
<1>4. CASE key = "esc" /\ palette' = Hidden /\ themeMsgs' = themeMsgs
  BY <1>1, <1>3, <1>4
<1>5. CASE /\ palette.matches # <<>> /\ palette' = Hidden
           /\ themeMsgs' = themeMsgs \cup ({palette.matches[palette.cursor + 1]} \ {"quit"})
  <2>1. palette.cursor \in Nat /\ palette.cursor < Len(palette.matches)
        /\ palette.matches \in Seq(Range(Commands))
    BY <1>1, <1>2, <1>5 DEF PaletteOK, OverlayOK
  <2>2. palette.matches[palette.cursor + 1] \in Range(Commands)
    BY <2>1
  <2>3. palette.matches[palette.cursor + 1] \in {"quit"} \cup Range(Themes)
    BY <2>2, CommandsAre
  <2>4. themeMsgs' \subseteq Range(Themes)
    BY <1>1, <1>5, <2>3
  <2> QED
    BY <1>3, <1>5, <2>4
<1>6. ASSUME NEW c \in Nat, palette' = [palette EXCEPT !.cursor = c], c < Len(palette.matches),
             themeMsgs' = themeMsgs
      PROVE  kept
  <2>1. /\ DOMAIN palette' = {"visible", "cursor", "matches"}
        /\ palette'.visible = palette.visible
        /\ palette'.cursor = c /\ palette'.matches = palette.matches
    BY <1>2, <1>6 DEF PaletteOK
  <2>2. PaletteOK(palette') /\ OverlayOK(app, palette')
    BY <1>2, <1>6, <2>1 DEF PaletteOK, OverlayOK
  <2> QED
    BY <1>1, <1>6, <2>2
<1>7. CASE /\ palette.cursor > 0 /\ palette' = [palette EXCEPT !.cursor = @ - 1]
           /\ themeMsgs' = themeMsgs
  <2>0. palette.cursor \in Nat /\ palette.matches \in Seq(Range(Commands))
    BY <1>2 DEF PaletteOK
  <2>1. palette.matches = <<>> \/ palette.cursor < Len(palette.matches)
    BY <1>1, <1>2 DEF OverlayOK
  <2>2. palette.cursor - 1 \in Nat /\ Len(palette.matches) \in Nat
    BY <1>7, <2>0
  <2>3. CASE palette.matches # <<>>
    <3>1. palette.cursor - 1 < Len(palette.matches)
      BY <2>0, <2>1, <2>2, <2>3
    <3> QED
      BY <1>6, <1>7, <2>2, <3>1
  <2>4. CASE palette.matches = <<>>
    <3>1. /\ DOMAIN palette' = {"visible", "cursor", "matches"}
          /\ palette'.visible = palette.visible
          /\ palette'.cursor = palette.cursor - 1 /\ palette'.matches = palette.matches
      BY <1>2, <1>7 DEF PaletteOK
    <3>2. PaletteOK(palette') /\ OverlayOK(app, palette')
      BY <1>2, <2>2, <2>4, <3>1 DEF PaletteOK, OverlayOK
    <3> QED
      BY <1>1, <1>7, <3>2
  <2> QED
    BY <2>3, <2>4
<1>8. CASE /\ palette.cursor + 1 < Len(palette.matches)
           /\ palette' = [palette EXCEPT !.cursor = @ + 1] /\ themeMsgs' = themeMsgs
  <2>1. palette.cursor + 1 \in Nat
    BY <1>2 DEF PaletteOK
  <2> QED
    BY <1>6, <1>8, <2>1
<1>9. CASE /\ \E S \in SUBSET DOMAIN Commands : palette' = Typed(Picked(Commands, S))
           /\ themeMsgs' = themeMsgs
  <2>1. PICK S \in SUBSET DOMAIN Commands : palette' = Typed(Picked(Commands, S))
    BY <1>9
  <2>2. Picked(Commands, S) \in Seq(Range(Commands))
    <3>1. Commands \in Seq(Range(Commands)) /\ S \subseteq DOMAIN Commands
      BY CommandsAre
    <3> QED
      BY <3>1, PickedIs
  <2>3. /\ PaletteOK(palette') /\ palette'.visible = palette.visible
        /\ palette'.matches # <<>> => palette'.cursor < Len(palette'.matches)
    BY <1>2, <2>1, <2>2, TypedOK
  <2>4. OverlayOK(app, palette')
    BY <1>2, <2>3 DEF OverlayOK
  <2> QED
    BY <1>1, <1>9, <2>3, <2>4
<1> QED
  BY <1>4, <1>5, <1>7, <1>8, <1>9 DEF PaletteKey

\* Keys that move the root model alone: the help is closed or opened, the page
\* is left, the palette opened.
LEMMA StateKeeps ==
    ASSUME AppInv, NEW st \in AppStates, NEW pr \in AppStates, NEW m \in BOOLEAN,
           app' = [app EXCEPT !.state = st, !.prevState = pr, !.modal = m],
           PaletteOK(palette'), OverlayOK(app', palette'),
           st = "Detail" \/ (m /\ pr = "Detail") =>
                app.state = "Detail" \/ (app.modal /\ app.prevState = "Detail"),
           UNCHANGED <<session, layout, tbl, detail, themeMsgs, run>>
    PROVE  AppInv'
<1>1. Consistent(session, layout, app, palette, tbl, detail)
  BY DEF AppInv
<1>2. /\ DOMAIN app' = AppFields /\ app'.state = st
      /\ app'.prevState = pr /\ app'.active = app.active /\ app'.modal = m
      /\ app'.theme = app.theme /\ app'.themeIdx = app.themeIdx
  BY <1>1 DEF Consistent, AppOK, AppFields
<1>3. AppOK(app')
  BY <1>1, <1>2 DEF Consistent, AppOK
<1>4. FocusOK(app', tbl) /\ TableDrawn(tbl, app'.theme) /\ PageDrawn(detail, app'.theme)
  BY <1>1, <1>2 DEF Consistent, FocusOK
<1>5. OfOne(app', detail)
  BY <1>1, <1>2 DEF Consistent, OfOne
<1> QED
  BY <1>1, <1>3, <1>4, <1>5 DEF Consistent, AppInv

LEMMA OverlayKeeps ==
    ASSUME AppInv
    PROVE  /\ ModalKey => AppInv'
           /\ \A key : Plain /\ OpenOverlay(key) => AppInv'
           /\ \A key : Plain /\ Esc(key) => AppInv'
<1>1. /\ AppOK(app) /\ PaletteOK(palette) /\ OverlayOK(app, palette)
  BY DEF AppInv, Consistent
<1>2. /\ DOMAIN app = AppFields /\ app.state \in AppStates /\ app.prevState \in AppStates
      /\ app.modal \in BOOLEAN
  BY <1>1 DEF AppOK
<1>3. ASSUME NEW st \in AppStates, NEW pr \in AppStates, NEW m \in BOOLEAN
      PROVE  LET a == [app EXCEPT !.state = st, !.prevState = pr, !.modal = m]
             IN a.state = st /\ a.prevState = pr /\ a.modal = m
  BY <1>2 DEF AppFields
<1>4. ASSUME ModalKey PROVE AppInv'
  <2>1. /\ app' = [app EXCEPT !.state = app.prevState, !.prevState = app.prevState, !.modal = FALSE]
        /\ palette' = palette /\ ~palette.visible /\ app.modal
        /\ UNCHANGED <<session, layout, tbl, detail, themeMsgs, run>>
    BY <1>2, <1>4 DEF ModalKey, pageVars, AppFields
  <2>2. app'.state = app.prevState /\ app'.prevState = app.prevState /\ app'.modal = FALSE
    BY <1>2, <1>3, <2>1
  <2>3. OverlayOK(app', palette')
    BY <1>1, <2>1, <2>2 DEF OverlayOK
  <2> QED
    BY <1>1, <1>2, <2>1, <2>3, StateKeeps
<1>5. ASSUME NEW key, Plain, OpenOverlay(key) PROVE AppInv'
  <2>0. "Help" \in AppStates /\ "CommandPalette" \in AppStates /\ app.modal = FALSE
        /\ app.state # "Help"
    BY <1>1, <1>2, <1>5 DEF AppStates, Plain, OverlayOK
  <2>1. CASE /\ app' = [app EXCEPT !.prevState = app.state, !.state = "Help", !.modal = TRUE]
             /\ palette' = palette
    <3>1. /\ app' = [app EXCEPT !.state = "Help", !.prevState = app.state, !.modal = TRUE]
          /\ UNCHANGED <<session, layout, tbl, detail, themeMsgs, run>>
      BY <1>2, <1>5, <2>1 DEF OpenOverlay, pageVars, AppFields
    <3>2. app'.state = "Help" /\ app'.prevState = app.state /\ app'.modal = TRUE
      BY <1>2, <1>3, <2>0, <3>1
    <3>3. OverlayOK(app', palette')
      BY <1>1, <1>5, <2>0, <2>1, <3>2 DEF OverlayOK, Plain
    <3> QED
      BY <1>1, <1>2, <2>0, <2>1, <3>1, <3>3, StateKeeps
  <2>2. CASE /\ app' = [app EXCEPT !.state = "CommandPalette"]
             /\ palette' = [visible |-> TRUE, cursor |-> 0, matches |-> Commands]
    <3>1. /\ app' = [app EXCEPT !.state = "CommandPalette", !.prevState = app.prevState,
                                !.modal = app.modal]
          /\ UNCHANGED <<session, layout, tbl, detail, themeMsgs, run>>
      BY <1>2, <1>5, <2>2 DEF OpenOverlay, pageVars, AppFields
    <3>2. app'.state = "CommandPalette" /\ app'.prevState = app.prevState /\ app'.modal = app.modal
      BY <1>2, <1>3, <2>0, <3>1
    <3>3. /\ DOMAIN palette' = {"visible", "cursor", "matches"} /\ palette'.visible = TRUE
          /\ palette'.cursor = 0 /\ palette'.matches = Commands
      BY <2>2
    <3>4. palette'.cursor \in Nat /\ palette'.matches \in Seq(Range(Commands))
          /\ palette'.cursor < Len(palette'.matches)
      BY <3>3, CommandsAre
    <3>5. palette'.visible \in BOOLEAN
      BY <3>3, Zenon
    <3>6. PaletteOK(palette')
      BY <3>3, <3>4, <3>5, Zenon DEF PaletteOK
    <3>7. OverlayOK(app', palette')
      BY <1>1, <2>0, <3>2, <3>4 DEF OverlayOK
    <3> QED
      BY <1>2, <2>0, <3>1, <3>6, <3>7, StateKeeps
  <2> QED
    BY <1>5, <2>1, <2>2 DEF OpenOverlay
<1>6. ASSUME NEW key, Plain, Esc(key) PROVE AppInv'
  <2>0. "Dashboard" \in AppStates /\ app.modal = FALSE
    BY <1>1, <1>2, <1>6 DEF AppStates, Plain, OverlayOK
  <2>1. /\ app' = [app EXCEPT !.state = "Dashboard", !.prevState = app.prevState,
                              !.modal = app.modal]
        /\ palette' = palette /\ UNCHANGED <<session, layout, tbl, detail, themeMsgs, run>>
    BY <1>2, <1>6 DEF Esc, pageVars, AppFields
  <2>2. app'.state = "Dashboard" /\ app'.prevState = app.prevState /\ app'.modal = app.modal
    BY <1>2, <1>3, <2>0, <2>1
  <2>3. OverlayOK(app', palette')
    BY <1>1, <1>6, <2>0, <2>1, <2>2 DEF OverlayOK, Plain
  <2> QED
    BY <1>1, <1>2, <2>0, <2>1, <2>3, StateKeeps
<1> QED
  BY <1>4, <1>5, <1>6

\* Tabs: the active tab stays within the tab bar, and the focus goes with it; what
\* was drawn with the focus is kept for when it comes back.
LEMMA FocusKeeps ==
    ASSUME AppInv, NEW i \in DOMAIN Tabs, FocusTab(i),
           UNCHANGED <<session, layout, detail, palette, themeMsgs, run>>
    PROVE  AppInv'
<1>1. Consistent(session, layout, app, palette, tbl, detail)
  BY DEF AppInv
<1>2. /\ DOMAIN app' = AppFields /\ app'.state = app.state
      /\ app'.prevState = app.prevState /\ app'.active = i /\ app'.modal = app.modal
      /\ app'.theme = app.theme /\ app'.themeIdx = app.themeIdx
  BY <1>1 DEF Consistent, AppOK, AppFields, FocusTab
<1> DEFINE f == (Tabs[i] = "table")
<1>3. f \in BOOLEAN
  OBVIOUS
<1>4. tbl' = [tbl EXCEPT !.focused = f]
  BY DEF FocusTab
<1>5. f = (Tabs[i] = "table")
  OBVIOUS
<1> HIDE DEF f
<1>6. /\ DOMAIN tbl' = Fields /\ tbl'.rows = tbl.rows /\ tbl'.filter = tbl.filter
      /\ tbl'.sortCol = tbl.sortCol /\ tbl'.sortAsc = tbl.sortAsc /\ tbl'.height = tbl.height
      /\ tbl'.focused = f /\ tbl'.search = tbl.search /\ tbl'.visible = tbl.visible
      /\ tbl'.cursor = tbl.cursor /\ tbl'.offset = tbl.offset /\ tbl'.drawn = tbl.drawn
  BY <1>1, <1>4 DEF Consistent, TableOK, TableTyped, Fields
<1>7. TableTyped(layout.columns, tbl')
  BY <1>1, <1>3, <1>6 DEF Consistent, TableOK, TableTyped
<1>8. InOrder(layout.columns, tbl') /\ CursorValid(tbl')
  BY <1>1, <1>6 DEF Consistent, TableOK, InOrder, CursorValid
<1>9. TableDrawn(tbl', app'.theme) /\ PageDrawn(detail, app'.theme)
  BY <1>1, <1>2, <1>6 DEF Consistent, TableDrawn
<1>10. FocusOK(app', tbl')
  BY <1>2, <1>5, <1>6 DEF FocusOK
<1>11. AppOK(app') /\ OverlayOK(app', palette) /\ OfOne(app', detail)
  BY <1>1, <1>2 DEF Consistent, AppOK, OverlayOK, OfOne
<1> QED
  BY <1>1, <1>7, <1>8, <1>9, <1>10, <1>11 DEF Consistent, AppInv, TableOK

LEMMA ModIs ==
    ASSUME NEW n \in Nat \ {0}, NEW a \in Nat
    PROVE  (a % n) + 1 \in 1 .. n
<1>1. a % n \in 0 .. n - 1
  OBVIOUS
<1> QED
  BY <1>1

LEMMA SwitchTabKeeps ==
    ASSUME AppInv, NEW key, SwitchTab(key)
    PROVE  AppInv'
<1> DEFINE n == Len(Tabs)
<1>1. n \in Nat \ {0} /\ DOMAIN Tabs = 1 .. n
  BY TuiAssumption
<1>2. app.active \in 1 .. n
  BY <1>1 DEF AppInv, Consistent, AppOK
<1>3. UNCHANGED <<session, layout, detail, palette, themeMsgs, run>>
  BY DEF SwitchTab
<1>4. (app.active % n) + 1 \in DOMAIN Tabs /\ ((app.active + n - 2) % n) + 1 \in DOMAIN Tabs
  <2>1. app.active \in Nat /\ app.active + n - 2 \in Nat
    <3> HIDE DEF n
    <3> QED
      BY <1>1, <1>2
  <2> HIDE DEF n
  <2> QED
    BY <1>1, <2>1, ModIs
<1>5. \E i \in DOMAIN Tabs : FocusTab(i)
  BY <1>4 DEF SwitchTab
<1> QED
  BY <1>3, <1>5, FocusKeeps

\* The detail page is opened on the row the cursor is on.
LEMMA NavDetailKeeps ==
    ASSUME AppInv, NEW key, Plain, NavDetail(key)
    PROVE  AppInv'
<1>1. /\ Consistent(session, layout, app, palette, tbl, detail)
      /\ UNCHANGED <<session, layout, tbl, palette, themeMsgs, run>>
  BY DEF AppInv, NavDetail
<1>2. PICK c \in Selected : detail' = SetContainer(detail, c)
  BY DEF NavDetail
<1>3. c \in Containers /\ c # NoContainer
  <2>1. tbl.visible # <<>> /\ c = SelectedRow(tbl)
    BY <1>2 DEF Selected
  <2> QED
    BY <1>1, <2>1, SelectedIs, ViewsAssumption DEF Consistent
<1>4. /\ DOMAIN app' = AppFields /\ app'.state = "Detail"
      /\ app'.prevState = app.state /\ app'.active = app.active /\ app'.modal = app.modal
      /\ app'.theme = app.theme /\ app'.themeIdx = app.themeIdx /\ app.state = "Dashboard"
  BY <1>1 DEF Consistent, AppOK, AppFields, NavDetail
<1>5. AppOK(app')
  BY <1>1, <1>4 DEF Consistent, AppOK, AppStates
<1>6. OverlayOK(app', palette)
  BY <1>1, <1>4 DEF Consistent, OverlayOK, Plain
<1>7. PageOK(detail') /\ detail'.container = c /\ PageDrawn(detail', app.theme)
      /\ detail'.hist \cup detail'.events \subseteq {c}
  <2>1. CASE detail.container = c
    BY <1>1, <1>2, <1>3, <2>1 DEF SetContainer, Consistent, OfOne
  <2>2. CASE detail.container # c
    <3>1. /\ DOMAIN detail' = DetailFields /\ detail'.container = c /\ detail'.hist = {}
          /\ detail'.events = {} /\ detail'.paused = detail.paused
          /\ detail'.search = detail.search /\ detail'.drawn = NoDrawing
      BY <1>1, <1>2, <2>2 DEF SetContainer, Consistent, PageOK, DetailFields
    <3> QED
      BY <1>1, <1>3, <3>1 DEF Consistent, PageOK, PageDrawn
  <2> QED
    BY <2>1, <2>2
<1>8. OfOne(app', detail') /\ PageDrawn(detail', app'.theme)
  BY <1>3, <1>4, <1>7 DEF OfOne
<1>9. FocusOK(app', tbl) /\ TableDrawn(tbl, app'.theme)
  BY <1>1, <1>4 DEF Consistent, FocusOK
<1> QED
  BY <1>1, <1>5, <1>6, <1>7, <1>8, <1>9 DEF Consistent, AppInv

LEMMA DetailKeyKeeps ==
    ASSUME AppInv, NEW key, DetailKey(key)
    PROVE  AppInv'
<1>1. /\ Consistent(session, layout, app, palette, tbl, detail)
      /\ UNCHANGED <<session, layout, tbl, app, palette, themeMsgs, run>>
      /\ detail' = UpdateDetail(detail, key)
  BY DEF AppInv, DetailKey
<1> DEFINE s == IF detail.search THEN key # "enter" ELSE key = "/"
           p == IF ~detail.search /\ key = "p" THEN ~detail.paused ELSE detail.paused
<1>2. s \in BOOLEAN /\ p \in BOOLEAN
  <2>1. detail.paused \in BOOLEAN
    BY <1>1 DEF Consistent, PageOK
  <2> QED
    BY <2>1
<1>3. detail' = [detail EXCEPT !.search = s, !.paused = p, !.drawn = NoDrawing]
  BY <1>1 DEF UpdateDetail
<1> HIDE DEF s, p
<1>4. /\ DOMAIN detail' = DetailFields /\ detail'.container = detail.container
      /\ detail'.hist = detail.hist /\ detail'.events = detail.events
      /\ detail'.paused = p /\ detail'.search = s /\ detail'.drawn = NoDrawing
  BY <1>1, <1>3 DEF Consistent, PageOK, DetailFields
<1>5. PageOK(detail') /\ OfOne(app, detail') /\ PageDrawn(detail', app.theme)
  BY <1>1, <1>2, <1>4 DEF Consistent, PageOK, OfOne, PageDrawn
<1> QED
  BY <1>1, <1>5 DEF Consistent, AppInv

LEMMA TableKeyKeeps ==
    ASSUME AppInv, NEW key, TableKey(key)
    PROVE  AppInv'
<1>1. /\ Consistent(session, layout, app, palette, tbl, detail)
      /\ UNCHANGED <<session, layout, detail, app, palette, themeMsgs>>
  BY DEF AppInv, TableKey
<1>2. CASE run' = "panicked" /\ tbl' = tbl
  BY <1>1, <1>2 DEF AppInv, Consistent
<1>3. CASE /\ \E query \in SUBSET Containers : tbl' = UpdateView(tbl, key, query)
           /\ run' = run
  <2>1. Redrawn(layout.columns, tbl, tbl')
    BY <1>1, <1>3, UpdateViewOK DEF Consistent
  <2>2. FocusOK(app, tbl') /\ TableDrawn(tbl', app.theme) /\ TableOK(layout.columns, tbl')
    BY <1>1, <2>1 DEF Redrawn, FocusOK, TableDrawn, Consistent
  <2> QED
    BY <1>1, <1>3, <2>2 DEF Consistent, AppInv
<1> QED
  BY <1>2, <1>3 DEF TableKey

LEMMA AppKeeps ==
    ASSUME AppInv, [Next]_vars
    PROVE  AppInv'
<1>1. ASSUME UNCHANGED <<session, layout, app, palette, tbl, detail, themeMsgs>>,
             run' \in {"running", "quit", "panicked"}
      PROVE  AppInv'
  BY <1>1 DEF AppInv, Consistent
<1>2. CASE UNCHANGED vars
  <2>1. UNCHANGED <<session, layout, app, palette, tbl, detail, themeMsgs>> /\ run' = run
    BY <1>2 DEF vars, pageVars
  <2>2. run \in {"running", "quit", "panicked"}
    BY DEF AppInv
  <2> QED
    BY <1>1, <2>1, <2>2
<1>3. CASE Collect
  <2>1. UNCHANGED <<session, layout, app, palette, tbl, detail, themeMsgs>> /\ run' = run
    BY <1>3 DEF Collect, pageVars
  <2>2. run \in {"running", "quit", "panicked"}
    BY DEF AppInv
  <2> QED
    BY <1>1, <2>1, <2>2
<1>4. CASE \E batch \in session.batches, events \in session.events, elapsed \in session.elapsed :
                DataMsg(batch, events, elapsed)
  BY <1>4, DataKeeps
<1>5. CASE \E h \in session.heights : WindowSizeMsg(h)
  BY <1>5, WindowSizeKeeps
<1>6. CASE \E t \in themeMsgs : ThemeChangedMsg(t)
  BY <1>6, ThemeKeeps
<1>7. CASE View
  BY <1>7, ViewKeeps
<1>8. ASSUME NEW key, HandleKey(key) PROVE AppInv'
  <2>1. CASE PaletteKey(key)
    BY <2>1, PaletteKeeps
  <2>2. CASE ModalKey \/ (Plain /\ OpenOverlay(key)) \/ (Plain /\ Esc(key))
    BY <2>2, OverlayKeeps
  <2>3. CASE Quit(key)
    <3>1. UNCHANGED <<session, layout, app, palette, tbl, detail, themeMsgs>> /\ run' = "quit"
      BY <2>3 DEF Quit, pageVars
    <3> QED
      BY <1>1, <3>1
  <2>4. CASE CycleTheme(key)
    BY <2>4, ThemeKeeps
  <2>5. CASE SwitchTab(key)
    BY <2>5, SwitchTabKeeps
  <2>6. CASE Plain /\ NavDetail(key)
    BY <2>6, NavDetailKeeps
  <2>7. CASE DetailKey(key)
    BY <2>7, DetailKeyKeeps
  <2>8. CASE TableKey(key)
    BY <2>8, TableKeyKeeps
  <2>9. CASE ProcGraphKey(key)
    <3>1. UNCHANGED <<session, layout, app, palette, tbl, detail, themeMsgs>> /\ run' = run
      BY <2>9 DEF ProcGraphKey, pageVars
    <3>2. run \in {"running", "quit", "panicked"}
      BY DEF AppInv
    <3> QED
      BY <1>1, <3>1, <3>2
  <2> QED
    BY <1>8, <2>1, <2>2, <2>3, <2>4, <2>5, <2>6, <2>7, <2>8, <2>9 DEF HandleKey
<1> QED
  BY <1>2, <1>3, <1>4, <1>5, <1>6, <1>7, <1>8 DEF Next

LEMMA AppAlways == Spec => []AppInv
BY AppInit, AppKeeps, PTL DEF Spec

\* The keyboard has one owner: no sequence of keys, batches and commands leaves two
\* overlays open, or keys with a table whose tab is not shown.
THEOREM OneOwner == Spec => []KeyboardHasOneOwner
<1>1. AppInv => KeyboardHasOneOwner
  <2> SUFFICES ASSUME AppInv PROVE KeyboardHasOneOwner
    OBVIOUS
  <2>1. OverlayOK(app, palette) /\ FocusOK(app, tbl)
    BY DEF AppInv, Consistent
  <2>2. OverlaysExclusive
    BY <2>1, Zenon DEF OverlayOK, OverlaysExclusive
  <2>3. FocusFollowsTab
    BY <2>1, Zenon DEF FocusOK, FocusFollowsTab
  <2> QED
    BY <2>2, <2>3 DEF KeyboardHasOneOwner
<1> QED
  BY <1>1, AppAlways, PTL

\* The detail page never shows what is of another container than its own.
THEOREM PageOfOne == Spec => []DetailOfOne
<1>1. AppInv => DetailOfOne
  BY DEF AppInv, Consistent, OfOne, DetailOfOne
<1> QED
  BY <1>1, AppAlways, PTL

\* Every way to change what is shown drops the drawing that is kept.
THEOREM DrawingsCurrent == Spec => []DrawnIsCurrent
<1>1. AppInv => DrawnIsCurrent
  <2> SUFFICES ASSUME AppInv PROVE DrawnIsCurrent
    OBVIOUS
  <2>1. FocusOK(app, tbl) /\ TableDrawn(tbl, app.theme) /\ PageDrawn(detail, app.theme)
    BY DEF AppInv, Consistent
  <2>2. ASSUME Tabs[app.active] = "table", tbl.drawn # NoDrawing
        PROVE  tbl.drawn = DrawTable(tbl, app.theme)
    <3>1. tbl.focused = TRUE
      BY <2>1, <2>2 DEF FocusOK
    <3> QED
      BY <2>1, <2>2, <3>1, DrawTableIs DEF TableDrawn
  <2> QED
    BY <2>1, <2>2 DEF DrawnIsCurrent, PageDrawn
<1> QED
  BY <1>1, AppAlways, PTL

\* What the table shows, of the order its rows were last put in.
LEMMA VisibleExactHolds ==
    ASSUME AppInv
    PROVE  VisibleExact
<1> DEFINE S == MatchingOf(tbl.rows, tbl.filter)
           v == tbl.visible
           w == [i \in S |-> Weight(layout.columns, tbl.sortCol, tbl.sortAsc, tbl.rows[i])]
<1>1. TableOK(layout.columns, tbl)
  BY DEF AppInv, Consistent
<1>2. tbl.rows \in Seq(Rows) /\ tbl.sortAsc \in BOOLEAN
  BY <1>1 DEF TableOK, TableTyped
<1>3. S \subseteq DOMAIN tbl.rows /\ Matching(tbl) = S
  BY DEF MatchingOf, Matching
<1>4. v = OrderOf(layout.columns, tbl.rows, tbl.sortCol, tbl.sortAsc, S)
  BY <1>1 DEF TableOK, InOrder
<1> HIDE DEF S
<1>5. Sorts(S, ByNumber(w, S), v)
  BY <1>2, <1>3, <1>4, OrderSorts
<1>6. /\ v \in Seq(S) /\ DOMAIN v = 1 .. Len(v) /\ Len(v) \in Nat
      /\ \A k, l \in 1 .. Len(v) : v[k] = v[l] => k = l
      /\ \A x \in S : \E k \in 1 .. Len(v) : v[k] = x
      /\ \A k, l \in 1 .. Len(v) : k < l => <<v[k], v[l]>> \in ByNumber(w, S)
  BY <1>5 DEF Sorts
<1> HIDE DEF v
<1>7. IsInjective(v) /\ Range(v) = Matching(tbl)
  <2>1. IsInjective(v)
    BY <1>6 DEF IsInjective
  <2>2. \A k \in DOMAIN v : v[k] \in S
    BY <1>6
  <2>3. Range(v) = S
    BY <1>6, <2>2 DEF Range
  <2> QED
    BY <1>3, <2>1, <2>3
<1>8. ASSUME Sortable(tbl.sortCol), NEW i \in 1 .. Len(v) - 1
      PROVE  IF tbl.sortAsc
             THEN ~SortLess(layout.columns[tbl.sortCol], tbl.rows[v[i + 1]], tbl.rows[v[i]])
             ELSE ~SortLess(layout.columns[tbl.sortCol], tbl.rows[v[i]], tbl.rows[v[i + 1]])
  <2> DEFINE x == v[i]
             y == v[i + 1]
  <2>1. i \in 1 .. Len(v) /\ i + 1 \in 1 .. Len(v) /\ i < i + 1
    BY <1>6
  <2>2. <<x, y>> \in ByNumber(w, S) /\ x \in S /\ y \in S
    BY <1>6, <2>1
  <2> HIDE DEF x, y
  <2>3. tbl.rows[x] \in Rows /\ tbl.rows[y] \in Rows
    BY <1>2, <1>3, <2>2
  <2>4. /\ w[x] = Weight(layout.columns, tbl.sortCol, tbl.sortAsc, tbl.rows[x])
        /\ w[y] = Weight(layout.columns, tbl.sortCol, tbl.sortAsc, tbl.rows[y])
    BY <2>2
  <2> HIDE DEF w
  <2> DEFINE cs == layout.columns
             c == tbl.sortCol
             up == tbl.sortAsc
             a == tbl.rows[x]
             b == tbl.rows[y]
  <2>5. /\ up \in BOOLEAN /\ a \in Rows /\ b \in Rows
        /\ w[x] = Weight(cs, c, up, a) /\ w[y] = Weight(cs, c, up, b)
    BY <1>2, <2>3, <2>4, Zenon
  <2>6. c \in DOMAIN cs /\ cs[c] # "unsortable"
    BY <1>8 DEF Sortable, Columns
  <2>7. w[x] < w[y] \/ ~(w[y] < w[x])
    BY <2>2 DEF ByNumber
  <2> HIDE DEF cs, c, up, a, b
  <2>8. w[x] \in Int /\ w[y] \in Int
    BY <2>5, WeightIs
  <2>9. ~(w[y] < w[x])
    BY <2>7, <2>8
  <2>10. w[y] < w[x] <=> IF up THEN SortLess(cs[c], b, a) ELSE SortLess(cs[c], a, b)
    BY <2>5, <2>6, WeightIs
  <2> QED
    BY <2>9, <2>10, Zenon DEF x, y, cs, c, up, a, b
<1> QED
  BY <1>7, <1>8 DEF VisibleExact, Columns, v

\* No selection, cursor or list of rows is out of date: evictions, batches that
\* shrink a table, filters and sorts all correct the indices into what they change.
THEOREM IndicesValid == Spec => []IndicesCurrent
<1>1. Init => GraphInv /\ SelectionInv
  BY GraphStart, SelectionStart
<1>2. GraphInv /\ SelectionInv /\ [Next]_vars => GraphInv' /\ SelectionInv'
  BY GraphStep, SelectionStep
<1>3. AppInv /\ GraphInv /\ SelectionInv => IndicesCurrent
  <2> SUFFICES ASSUME AppInv, GraphInv, SelectionInv PROVE IndicesCurrent
    OBVIOUS
  <2>1. SelectionInRange
    <3>1. Sound(g) /\ cgroupSel \in Nat
      BY DEF GraphInv, SelectionInv
    <3>2. CgroupKeys = KeysOf(g) /\ LinesAt(cgroupSel) = LinesOf(g, cgroupSel)
      BY <3>1, ListsAre
    <3> QED
      BY <3>2 DEF SelectionInv, Valid, SelectionInRange
  <2>2. CursorInRange
    BY DEF AppInv, Consistent, TableOK, CursorValid, CursorInRange
  <2>3. VisibleExact
    BY VisibleExactHolds
  <2> QED
    BY <2>1, <2>2, <2>3 DEF IndicesCurrent
<1> QED
  BY <1>1, <1>2, <1>3, AppAlways, PTL DEF Spec

-----------------------------------------------------------------------------
(* The event log.                                                          *)

\* What an entry adds to the count of a text.
Value(e, t) == IF e.text = t THEN e.count ELSE 0

\* f counts a text in the first entries of q, up to each of them.
SumsTo(q, t, f) ==
    /\ f \in [0 .. Len(q) -> Nat] /\ f[0] = 0
    /\ \A i \in 1 .. Len(q) : f[i] = f[i - 1] + Value(q[i], t)

LEMMA ValueIs ==
    ASSUME NEW e \in LogEntries, NEW t
    PROVE  Value(e, t) \in Nat
BY DEF LogEntries, Value

\* Between m and n, q counts o further on what p counts.
Alike(q, p, t, m, n, o) == \A i \in m + 1 .. n : Value(q[i + o], t) = Value(p[i], t)

\* Between m and n, f grows o further on as h does.
SameRise(f, h, m, n, o) == f[n + o] - f[m + o] = h[n] - h[m]

GrowAlike(f, h, m, n, o) ==
    /\ \A i \in m .. n : f[i + o] \in Int /\ h[i] \in Int
    /\ \A i \in m + 1 .. n : f[i + o] - f[(i - 1) + o] = h[i] - h[i - 1]

\* Two functions that grow alike between m and n grow by the same.
LEMMA SameGrowth ==
    ASSUME NEW m \in Nat, NEW n \in Nat, m <= n, NEW o \in Nat, NEW f, NEW h,
           GrowAlike(f, h, m, n, o)
    PROVE  SameRise(f, h, m, n, o)
<1>0. /\ \A i \in m .. n : f[i + o] \in Int /\ h[i] \in Int
      /\ \A i \in m + 1 .. n : f[i + o] - f[(i - 1) + o] = h[i] - h[i - 1]
  BY DEF GrowAlike
<1> DEFINE T == {i \in m .. n : ~(f[i + o] - f[m + o] = h[i] - h[m])}
<1>1. SUFFICES ASSUME T # {} PROVE FALSE
  <2>1. n \in m .. n
    OBVIOUS
  <2> QED
    BY <2>1 DEF SameRise
<1>2. PICK i \in T : \A y \in T : i <= y
  <2>1. T \subseteq Nat
    OBVIOUS
  <2> HIDE DEF T
  <2> QED
    BY <1>1, <2>1, LeastNat
<1>3. i \in m .. n /\ ~(f[i + o] - f[m + o] = h[i] - h[m])
  BY <1>2
<1>4. m \in m .. n /\ f[m + o] \in Int /\ h[m] \in Int
  BY <1>0
<1>5. i # m
  BY <1>3, <1>4
<1>6. i - 1 \in m .. n /\ i \in m + 1 .. n /\ ~(i <= i - 1)
  BY <1>3, <1>5
<1>7. f[(i - 1) + o] - f[m + o] = h[i - 1] - h[m]
  BY <1>2, <1>6
<1>8. f[i + o] - f[(i - 1) + o] = h[i] - h[i - 1]
  BY <1>0, <1>6
<1>9. f[i + o] \in Int /\ f[(i - 1) + o] \in Int /\ h[i] \in Int /\ h[i - 1] \in Int
  BY <1>0, <1>3, <1>6
<1> HIDE DEF T
<1> QED
  BY <1>3, <1>4, <1>7, <1>8, <1>9

\* Counted is the last of the sums.
LEMMA CountIs ==
    ASSUME NEW q \in Seq(LogEntries), NEW t
    PROVE  \E f : SumsTo(q, t, f) /\ Counted(q, t) = f[Len(q)]
<1> DEFINE n == Len(q)
           step == [i \in Nat |-> [x \in Nat |-> IF i \in 1 .. n THEN x + Value(q[i], t) ELSE x]]
           is(f) == f = [i \in 0 .. n |-> IF i = 0 THEN 0
                                         ELSE f[i - 1] + IF q[i].text = t THEN q[i].count ELSE 0]
           f == CHOOSE x : is(x)
<1>1. n \in Nat /\ \A i \in 1 .. n : q[i] \in LogEntries
  OBVIOUS
<1>2. \A i \in 1 .. n : Value(q[i], t) \in Nat
  BY <1>1, ValueIs
<1>3. step \in [Nat -> [Nat -> Nat]]
  BY <1>2
<1>4. PICK h : Steps(h, 0, n, Nat, 0, step)
  <2>1. 0 \in Nat /\ 0 <= n
    BY <1>1
  <2> HIDE DEF step, n
  <2> QED
    BY <1>1, <1>3, <2>1, RecursionExists
<1>5. h \in [0 .. n -> Nat] /\ h[0] = 0 /\ \A i \in 1 .. n : h[i] = h[i - 1] + Value(q[i], t)
  <2>1. h \in [0 .. n -> Nat] /\ h[0] = 0 /\ \A i \in 0 .. n : i # 0 => h[i] = step[i][h[i - 1]]
    BY <1>4 DEF Steps
  <2>2. ASSUME NEW i \in 1 .. n PROVE h[i] = h[i - 1] + Value(q[i], t)
    <3>1. i \in 0 .. n /\ i # 0 /\ i - 1 \in 0 .. n /\ i \in Nat
      BY <1>1
    <3>2. h[i] = step[i][h[i - 1]] /\ h[i - 1] \in Nat
      BY <2>1, <3>1
    <3> QED
      BY <3>1, <3>2
  <2> QED
    BY <2>1, <2>2
<1> HIDE DEF step
<1>6. is(h)
  <2>1. ASSUME NEW i \in 0 .. n
        PROVE  h[i] = IF i = 0 THEN 0
                      ELSE h[i - 1] + IF q[i].text = t THEN q[i].count ELSE 0
    <3>1. CASE i = 0
      BY <1>5, <3>1
    <3>2. CASE i # 0
      <4>1. i \in 1 .. n
        BY <1>1, <3>2
      <4> QED
        BY <1>5, <3>2, <4>1 DEF Value
    <3> QED
      BY <3>1, <3>2
  <2> QED
    BY <1>5, <2>1
<1>7. is(f)
  BY <1>6
<1> HIDE DEF f
<1>8. f = h
  <2> DEFINE T == {i \in 0 .. n : f[i] # h[i]}
  <2>1. SUFFICES ASSUME T # {} PROVE FALSE
    <3>1. f = [i \in 0 .. n |-> f[i]] /\ h = [i \in 0 .. n |-> h[i]]
      BY <1>5, <1>7
    <3>2. T = {} => \A i \in 0 .. n : f[i] = h[i]
      OBVIOUS
    <3> QED
      BY <3>1, <3>2
  <2>2. PICK i \in T : \A y \in T : i <= y
    <3>1. T \subseteq Nat
      BY <1>1
    <3> HIDE DEF T
    <3> QED
      BY <2>1, <3>1, LeastNat
  <2>3. i \in 0 .. n /\ f[i] # h[i]
    BY <2>2
  <2>4. i # 0
    BY <1>5, <1>7, <2>3
  <2>5. i - 1 \in 0 .. n /\ ~(i <= i - 1)
    BY <1>1, <2>3, <2>4
  <2>6. f[i - 1] = h[i - 1]
    BY <2>2, <2>5
  <2> HIDE DEF T
  <2>7. /\ f[i] = f[i - 1] + IF q[i].text = t THEN q[i].count ELSE 0
        /\ h[i] = h[i - 1] + IF q[i].text = t THEN q[i].count ELSE 0
    BY <1>6, <1>7, <2>3, <2>4
  <2> QED
    BY <2>3, <2>6, <2>7
<1>9. Counted(q, t) = f[n]
  BY DEF Counted, f
<1> QED
  BY <1>5, <1>8, <1>9 DEF SumsTo

LEMMA CountedType ==
    ASSUME NEW q \in Seq(LogEntries), NEW t
    PROVE  Counted(q, t) \in Nat
<1>1. PICK f : SumsTo(q, t, f) /\ Counted(q, t) = f[Len(q)]
  BY CountIs
<1>2. Len(q) \in 0 .. Len(q)
  OBVIOUS
<1> QED
  BY <1>1, <1>2 DEF SumsTo

\* Entries that count the same where q and p meet, o further on in q.
LEMMA SameCounts ==
    ASSUME NEW q \in Seq(LogEntries), NEW p \in Seq(LogEntries), NEW t, NEW f, NEW h,
           SumsTo(q, t, f), SumsTo(p, t, h), NEW m \in Nat, NEW n \in Nat, m <= n, NEW o \in Nat,
           n + o <= Len(q), n <= Len(p),
           Alike(q, p, t, m, n, o)
    PROVE  SameRise(f, h, m, n, o)
<1>1. \A i \in m .. n : f[i + o] \in Int /\ h[i] \in Int
  <2> SUFFICES ASSUME NEW i \in m .. n PROVE f[i + o] \in Int /\ h[i] \in Int
    OBVIOUS
  <2>1. i + o \in 0 .. Len(q) /\ i \in 0 .. Len(p)
    OBVIOUS
  <2>2. f[i + o] \in Nat /\ h[i] \in Nat
    BY <2>1 DEF SumsTo
  <2> QED
    BY <2>2
<1>2. ASSUME NEW i \in m + 1 .. n PROVE f[i + o] - f[(i - 1) + o] = h[i] - h[i - 1]
  <2>1. /\ i + o \in 1 .. Len(q) /\ (i + o) - 1 = (i - 1) + o /\ i \in 1 .. Len(p)
        /\ i \in m .. n /\ i - 1 \in m .. n
    OBVIOUS
  <2>2. f[i + o] = f[(i + o) - 1] + Value(q[i + o], t) /\ h[i] = h[i - 1] + Value(p[i], t)
    BY <2>1 DEF SumsTo
  <2>3. Value(p[i], t) \in Nat
    BY <2>1, ValueIs
  <2>4. f[(i - 1) + o] \in Int /\ h[i - 1] \in Int
    BY <1>1, <2>1
  <2>5. f[i + o] = f[(i - 1) + o] + Value(p[i], t)
    BY <1>2, <2>1, <2>2 DEF Alike
  <2>6. h[i] = h[i - 1] + Value(p[i], t)
    BY <2>2
  <2> QED
    <3> DEFINE a == f[i + o]
               b == f[(i - 1) + o]
               c == h[i]
               d == h[i - 1]
               v == Value(p[i], t)
    <3>1. a = b + v /\ c = d + v /\ b \in Int /\ d \in Int /\ v \in Nat
      BY <2>3, <2>4, <2>5, <2>6, Zenon
    <3> HIDE DEF a, b, c, d, v
    <3>2. a - b = c - d
      BY <3>1
    <3> QED
      BY <3>2, Zenon DEF a, b, c, d
<1>3. GrowAlike(f, h, m, n, o)
  BY <1>1, <1>2 DEF GrowAlike
<1> QED
  BY <1>3, SameGrowth

\* An entry at the end adds what it counts.
LEMMA CountedAppend ==
    ASSUME NEW q \in Seq(LogEntries), NEW e \in LogEntries, NEW t
    PROVE  Counted(Append(q, e), t) = Counted(q, t) + Value(e, t)
<1> DEFINE p == Append(q, e)
           n == Len(q)
<1>1. /\ p \in Seq(LogEntries) /\ Len(p) = n + 1 /\ n \in Nat
      /\ p[n + 1] = e /\ \A i \in 1 .. n : p[i] = q[i]
  OBVIOUS
<1>2. PICK f : SumsTo(q, t, f) /\ Counted(q, t) = f[n]
  BY CountIs
<1>3. PICK h : SumsTo(p, t, h) /\ Counted(p, t) = h[n + 1]
  BY <1>1, CountIs
<1> HIDE DEF p, n
<1>4. SameRise(h, f, 0, n, 0)
  <2>1. Alike(p, q, t, 0, n, 0)
    BY <1>1 DEF Alike
  <2>2. 0 \in Nat /\ 0 <= n /\ n + 0 <= Len(p) /\ n <= Len(q)
    BY <1>1 DEF n
  <2> QED
    BY <1>1, <1>2, <1>3, <2>1, <2>2, SameCounts
<1>5. h[n + 1] = h[n] + Value(e, t)
  <2>1. n + 1 \in 1 .. Len(p) /\ (n + 1) - 1 = n
    BY <1>1
  <2> QED
    BY <1>1, <1>3, <2>1 DEF SumsTo
<1>6. h[0] = 0 /\ f[0] = 0 /\ h[n] \in Nat /\ f[n] \in Nat
  <2>1. n \in 0 .. Len(p) /\ n \in 0 .. Len(q)
    BY <1>1 DEF n
  <2> QED
    BY <1>2, <1>3, <2>1 DEF SumsTo
<1>7. h[n] = f[n]
  <2>1. n + 0 = n /\ 0 + 0 = 0
    BY <1>1
  <2> QED
    BY <1>4, <1>6, <2>1 DEF SameRise
<1> QED
  BY <1>2, <1>3, <1>5, <1>7 DEF p

\* Entries that count the same, one by one, count the same together.
LEMMA CountedSame ==
    ASSUME NEW q \in Seq(LogEntries), NEW p \in Seq(LogEntries), NEW t, Len(p) = Len(q),
           \A i \in 1 .. Len(q) : Value(p[i], t) = Value(q[i], t)
    PROVE  Counted(p, t) = Counted(q, t)
<1> DEFINE n == Len(q)
<1>1. PICK f : SumsTo(q, t, f) /\ Counted(q, t) = f[n]
  BY CountIs
<1>2. PICK h : SumsTo(p, t, h) /\ Counted(p, t) = h[n]
  BY CountIs
<1>3. n \in Nat /\ n = Len(q)
  OBVIOUS
<1> HIDE DEF n
<1>4. SameRise(h, f, 0, n, 0)
  <2>1. Alike(p, q, t, 0, n, 0)
    BY <1>3 DEF Alike
  <2>2. 0 \in Nat /\ 0 <= n /\ n + 0 <= Len(p) /\ n <= Len(q)
    BY <1>3
  <2> QED
    BY <1>1, <1>2, <1>3, <2>1, <2>2, SameCounts
<1>5. h[0] = 0 /\ f[0] = 0 /\ h[n] \in Nat /\ f[n] \in Nat
  <2>1. n \in 0 .. Len(p) /\ n \in 0 .. Len(q)
    BY <1>3
  <2> QED
    BY <1>1, <1>2, <2>1 DEF SumsTo
<1>6. n + 0 = n /\ 0 + 0 = 0
  BY <1>3
<1> QED
  BY <1>1, <1>2, <1>4, <1>5, <1>6 DEF SameRise

\* Cutting a log in two loses no count.
LEMMA CountedSplit ==
    ASSUME NEW q \in Seq(LogEntries), NEW o \in 0 .. Len(q), NEW t
    PROVE  /\ SubSeq(q, 1, o) \in Seq(LogEntries) /\ SubSeq(q, o + 1, Len(q)) \in Seq(LogEntries)
           /\ Len(SubSeq(q, o + 1, Len(q))) = Len(q) - o
           /\ Counted(q, t) = Counted(SubSeq(q, 1, o), t) + Counted(SubSeq(q, o + 1, Len(q)), t)
<1> DEFINE a == SubSeq(q, 1, o)
           b == SubSeq(q, o + 1, Len(q))
           n == Len(q)
<1>1. /\ a \in Seq(LogEntries) /\ Len(a) = o /\ \A i \in 1 .. o : a[i] = q[i]
  OBVIOUS
<1>2. /\ b \in Seq(LogEntries) /\ Len(b) = n - o /\ \A i \in 1 .. n - o : b[i] = q[i + o]
  OBVIOUS
<1>3. n \in Nat /\ n = Len(q) /\ o \in Nat /\ o <= n /\ n - o \in Nat /\ (n - o) + o = n
  OBVIOUS
<1>4. PICK f : SumsTo(q, t, f) /\ Counted(q, t) = f[n]
  BY CountIs
<1>5. PICK x : SumsTo(a, t, x) /\ Counted(a, t) = x[o]
  BY <1>1, CountIs
<1>6. PICK y : SumsTo(b, t, y) /\ Counted(b, t) = y[n - o]
  BY <1>2, CountIs
<1> HIDE DEF a, b, n
<1>7. SameRise(f, x, 0, o, 0)
  <2>1. Alike(q, a, t, 0, o, 0)
    BY <1>1 DEF Alike
  <2>2. 0 \in Nat /\ 0 <= o /\ o + 0 <= Len(q) /\ o <= Len(a)
    BY <1>1, <1>3
  <2> QED
    BY <1>1, <1>3, <1>4, <1>5, <2>1, <2>2, SameCounts
<1>8. SameRise(f, y, 0, n - o, o)
  <2>1. Alike(q, b, t, 0, n - o, o)
    BY <1>2 DEF Alike
  <2>2. 0 \in Nat /\ 0 <= n - o /\ (n - o) + o <= Len(q) /\ n - o <= Len(b)
    BY <1>2, <1>3
  <2> QED
    BY <1>2, <1>3, <1>4, <1>6, <2>1, <2>2, SameCounts
<1>9. /\ f[0] = 0 /\ x[0] = 0 /\ y[0] = 0
      /\ f[o] \in Nat /\ f[n] \in Nat /\ x[o] \in Nat /\ y[n - o] \in Nat
  <2>1. o \in 0 .. Len(q) /\ n \in 0 .. Len(q) /\ o \in 0 .. Len(a) /\ n - o \in 0 .. Len(b)
    BY <1>1, <1>2, <1>3
  <2> QED
    BY <1>4, <1>5, <1>6, <2>1 DEF SumsTo
<1>10. o + 0 = o /\ 0 + 0 = 0 /\ 0 + o = o
  BY <1>3
<1>11. f[n] = x[o] + y[n - o]
  <2>1. f[o] - f[0] = x[o] - x[0] /\ f[n] - f[o] = y[n - o] - y[0]
    BY <1>3, <1>7, <1>8, <1>10 DEF SameRise
  <2> QED
    BY <1>9, <2>1
<1> QED
  BY <1>1, <1>2, <1>4, <1>5, <1>6, <1>11 DEF a, b, n

\* Replacing an entry by one that counts v more, adds v.
LEMMA CountedReplace ==
    ASSUME NEW q \in Seq(LogEntries), NEW k \in 1 .. Len(q), NEW r \in LogEntries, NEW t,
           NEW v \in Nat, Value(r, t) = Value(q[k], t) + v
    PROVE  /\ [q EXCEPT ![k] = r] \in Seq(LogEntries)
           /\ Counted([q EXCEPT ![k] = r], t) = Counted(q, t) + v
<1> DEFINE p == [q EXCEPT ![k] = r]
           n == Len(q)
<1>1. /\ p \in Seq(LogEntries) /\ Len(p) = n /\ p[k] = r
      /\ \A i \in 1 .. n : i # k => p[i] = q[i]
  OBVIOUS
<1>2. n \in Nat /\ n = Len(q) /\ k \in Nat /\ 1 <= k /\ k <= n /\ k - 1 \in Nat
  OBVIOUS
<1>3. PICK f : SumsTo(q, t, f) /\ Counted(q, t) = f[n]
  BY CountIs
<1> HIDE DEF p, n
<1>4. PICK h : SumsTo(p, t, h) /\ Counted(p, t) = h[n]
  BY <1>1, CountIs
<1>5. SameRise(h, f, 0, k - 1, 0)
  <2>1. Alike(p, q, t, 0, k - 1, 0)
    <3> SUFFICES ASSUME NEW i \in 0 + 1 .. k - 1 PROVE Value(p[i + 0], t) = Value(q[i], t)
      BY DEF Alike
    <3>1. i \in 1 .. n /\ i # k /\ i + 0 = i
      BY <1>2
    <3> QED
      BY <1>1, <3>1
  <2>2. 0 \in Nat /\ 0 <= k - 1 /\ (k - 1) + 0 <= Len(p) /\ k - 1 <= Len(q)
    BY <1>1, <1>2
  <2> QED
    BY <1>1, <1>2, <1>3, <1>4, <2>1, <2>2, SameCounts
<1>6. SameRise(h, f, k, n, 0)
  <2>1. Alike(p, q, t, k, n, 0)
    <3> SUFFICES ASSUME NEW i \in k + 1 .. n PROVE Value(p[i + 0], t) = Value(q[i], t)
      BY DEF Alike
    <3>1. i \in 1 .. n /\ i # k /\ i + 0 = i
      BY <1>2
    <3> QED
      BY <1>1, <3>1
  <2>2. 0 \in Nat /\ n + 0 <= Len(p) /\ n <= Len(q)
    BY <1>1, <1>2
  <2> QED
    BY <1>1, <1>2, <1>3, <1>4, <2>1, <2>2, SameCounts
<1>7. h[k] = h[k - 1] + Value(r, t) /\ f[k] = f[k - 1] + Value(q[k], t)
  BY <1>1, <1>2, <1>3, <1>4 DEF SumsTo
<1>8. /\ h[0] = 0 /\ f[0] = 0 /\ h[k - 1] \in Nat /\ f[k - 1] \in Nat
      /\ h[k] \in Nat /\ f[k] \in Nat /\ h[n] \in Nat /\ f[n] \in Nat
  <2>1. /\ n \in 0 .. Len(p) /\ n \in 0 .. Len(q) /\ k \in 0 .. Len(p) /\ k \in 0 .. Len(q)
        /\ k - 1 \in 0 .. Len(p) /\ k - 1 \in 0 .. Len(q)
    BY <1>1, <1>2
  <2> QED
    BY <1>3, <1>4, <2>1 DEF SumsTo
<1>9. (k - 1) + 0 = k - 1 /\ 0 + 0 = 0 /\ n + 0 = n /\ k + 0 = k
  BY <1>2
<1>10. Value(q[k], t) \in Nat
  BY ValueIs
<1>11. h[n] = f[n] + v
  <2>1. h[k - 1] - h[0] = f[k - 1] - f[0] /\ h[n] - h[k] = f[n] - f[k]
    BY <1>5, <1>6, <1>9 DEF SameRise
  <2>2. h[k - 1] = f[k - 1]
    BY <1>8, <2>1
  <2>3. h[k] = f[k] + v
    BY <1>7, <1>8, <1>10, <2>2
  <2>4. h[n] - (f[k] + v) = f[n] - f[k]
    BY <2>1, <2>3
  <2>5. \A a, b, c \in Nat : a - (b + v) = c - b => a = c + v
    OBVIOUS
  <2> QED
    BY <1>8, <2>4, <2>5
<1> QED
  BY <1>1, <1>3, <1>4, <1>11 DEF p

LEMMA MaxIs ==
    ASSUME NEW n \in Nat, NEW S, S \subseteq 1 .. n, S # {}
    PROVE  Max(S) \in S
<1> DEFINE T == {n - x : x \in S}
<1>1. PICK z \in T : \A y \in T : z <= y
  <2>1. T \subseteq Nat
    <3>1. \A x \in S : n - x \in Nat
      OBVIOUS
    <3> QED
      BY <3>1
  <2>2. T # {}
    OBVIOUS
  <2> HIDE DEF T
  <2> QED
    BY <2>1, <2>2, LeastNat
<1>2. PICK x \in S : z = n - x
  BY <1>1
<1>3. ASSUME NEW y \in S PROVE x >= y
  <2>1. n - x <= n - y
    BY <1>1, <1>2
  <2> QED
    BY <2>1
<1> QED
  BY <1>2, <1>3 DEF Max

\* An event joins an entry or becomes one: its text counts as many more, the others
\* as many as before.
LEMMA MergeCounts ==
    ASSUME NEW q \in Seq(LogEntries), NEW e \in LogEntries
    PROVE  /\ Merge(q, e) \in Seq(LogEntries)
           /\ \A t : Counted(Merge(q, e), t) = Counted(q, t) + Value(e, t)
<1> DEFINE hits == Hits(q, e)
           k == Max(hits)
           r == Joined(q[k], e)
<1>1. CASE hits = {}
  <2>1. Merge(q, e) = Append(q, e)
    BY <1>1 DEF Merge
  <2> QED
    BY <2>1, CountedAppend
<1>2. CASE hits # {}
  <2>1. k \in 1 .. Len(q) /\ q[k].text = e.text
    <3>1. hits \subseteq 1 .. Len(q) /\ Len(q) \in Nat
      BY DEF Hits
    <3>2. \A i \in hits : q[i].text = e.text
      BY DEF Hits
    <3> HIDE DEF hits
    <3> QED
      BY <1>2, <3>1, <3>2, MaxIs
  <2>2. Merge(q, e) = [i \in DOMAIN q |-> IF i = k THEN Joined(q[i], e) ELSE q[i]]
    BY <1>2 DEF Merge
  <2> HIDE DEF k
  <2>3. q[k] \in LogEntries
    BY <2>1
  <2>4. r \in LogEntries /\ r.text = q[k].text /\ r.count = q[k].count + e.count
    <3>1. /\ q[k].count \in Nat /\ e.count \in Nat /\ e.age \in 0 .. TooOld
          /\ q[k].text \in EventTexts
      BY <2>3 DEF LogEntries
    <3>2. q[k].count + e.count \in Nat
      BY <3>1
    <3>3. r = [text |-> q[k].text, age |-> e.age, count |-> q[k].count + e.count]
      <4> DEFINE x == q[k]
                 n == x.count + e.count
      <4>1. x = [text |-> x.text, age |-> x.age, count |-> x.count]
        BY <2>3 DEF LogEntries
      <4>2. r = [x EXCEPT !.count = n, !.age = e.age]
        BY DEF Joined
      <4> HIDE DEF x, n, r
      <4>3. r = [text |-> x.text, age |-> e.age, count |-> n]
        BY <4>1, <4>2
      <4> QED
        BY <4>3 DEF x, n
    <3> HIDE DEF r
    <3> QED
      BY <3>1, <3>2, <3>3 DEF LogEntries
  <2>5. Merge(q, e) = [q EXCEPT ![k] = r]
    BY <2>1, <2>2
  <2> HIDE DEF r
  <2>6. ASSUME NEW t PROVE Value(r, t) = Value(q[k], t) + Value(e, t) /\ Value(e, t) \in Nat
    <3>1. q[k].count \in Nat /\ e.count \in Nat
      BY <2>3 DEF LogEntries
    <3> QED
      BY <2>1, <2>4, <3>1 DEF Value
  <2>7. \A t : /\ Merge(q, e) \in Seq(LogEntries)
               /\ Counted(Merge(q, e), t) = Counted(q, t) + Value(e, t)
    <3> SUFFICES ASSUME NEW t PROVE /\ Merge(q, e) \in Seq(LogEntries)
                                    /\ Counted(Merge(q, e), t) = Counted(q, t) + Value(e, t)
      OBVIOUS
    <3> DEFINE v == Value(e, t)
    <3>1. Value(r, t) = Value(q[k], t) + v /\ v \in Nat
      BY <2>6
    <3> HIDE DEF v
    <3>2. /\ [q EXCEPT ![k] = r] \in Seq(LogEntries)
          /\ Counted([q EXCEPT ![k] = r], t) = Counted(q, t) + v
      BY <2>1, <2>4, <3>1, CountedReplace
    <3> QED
      BY <2>5, <3>2 DEF v
  <2> QED
    BY <2>7
<1> QED
  BY <1>1, <1>2

\* Growing older changes no count.
LEMMA OlderCounts ==
    ASSUME NEW q \in Seq(LogEntries), NEW elapsed \in Nat
    PROVE  /\ Older(q, elapsed) \in Seq(LogEntries)
           /\ \A t : Counted(Older(q, elapsed), t) = Counted(q, t)
<1> DEFINE aged(e) == [e EXCEPT !.age = IF @ + elapsed > TooOld THEN TooOld ELSE @ + elapsed]
           p == Older(q, elapsed)
<1>1. TooOld \in Nat
  BY ViewsAssumption DEF TooOld
<1>2. ASSUME NEW e \in LogEntries
      PROVE  aged(e) \in LogEntries /\ aged(e).text = e.text /\ aged(e).count = e.count
  <2>1. e.age \in 0 .. TooOld
    BY DEF LogEntries
  <2>2. (IF e.age + elapsed > TooOld THEN TooOld ELSE e.age + elapsed) \in 0 .. TooOld
    BY <1>1, <2>1
  <2> QED
    BY <2>2 DEF LogEntries
<1>3. p = [i \in 1 .. Len(q) |-> aged(q[i])] /\ Len(q) \in Nat
  BY DEF Older
<1> HIDE DEF aged, p
<1>4. p \in Seq(LogEntries) /\ Len(p) = Len(q) /\ \A i \in 1 .. Len(q) : p[i] = aged(q[i])
  <2>1. \A i \in 1 .. Len(q) : aged(q[i]) \in LogEntries
    BY <1>2
  <2> QED
    BY <1>3, <2>1
<1>5. \A t : \A i \in 1 .. Len(q) : Value(p[i], t) = Value(q[i], t)
  BY <1>2, <1>4 DEF Value
<1>6. \A t : Counted(p, t) = Counted(q, t)
  BY <1>4, <1>5, CountedSame
<1> QED
  BY <1>4, <1>6 DEF p

\* The events of a batch as the log takes them.
Occurring(events) == [i \in DOMAIN events |-> Occurred(events[i])]

LEMMA OccurringIs ==
    ASSUME NEW events \in Seq(LogEvents)
    PROVE  /\ Occurring(events) \in Seq(LogEntries) /\ Len(Occurring(events)) = Len(events)
           /\ \A i \in 1 .. Len(events) : Occurring(events)[i] = Occurred(events[i])
           /\ \A t : Reported(events, t) = Counted(Occurring(events), t)
<1> DEFINE n == Len(events)
           known(e) == IF e.count = 0 THEN [e EXCEPT !.count = 1] ELSE e
<1>1. n \in Nat /\ DOMAIN events = 1 .. n /\ \A i \in 1 .. n : events[i] \in LogEvents
  OBVIOUS
<1>2. ASSUME NEW e \in LogEvents
      PROVE  Occurred(e) \in LogEntries /\ Occurred(e) = known(e)
  <2>1. e.text \in EventTexts /\ e.age \in 0 .. TooOld /\ e.count \in Nat
    BY ViewsAssumption DEF LogEvents, TooOld
  <2>2. e = [text |-> e.text, age |-> e.age, count |-> e.count]
    BY DEF LogEvents
  <2>3. Occurred(e) = [text |-> e.text, age |-> e.age, count |-> IF e.count = 0 THEN 1 ELSE e.count]
    BY <2>2 DEF Occurred
  <2>4. known(e) = Occurred(e)
    BY <2>2, <2>3
  <2>5. (IF e.count = 0 THEN 1 ELSE e.count) \in Nat
    BY <2>1
  <2> QED
    BY <2>1, <2>3, <2>4, <2>5 DEF LogEntries
<1>3. /\ Occurring(events) = [i \in 1 .. n |-> Occurred(events[i])]
      /\ \A i \in 1 .. n : Occurred(events[i]) \in LogEntries
  BY <1>1, <1>2 DEF Occurring
<1>4. [i \in DOMAIN events |-> known(events[i])] = Occurring(events)
  BY <1>1, <1>2, <1>3
<1>5. \A t : Reported(events, t) = Counted([i \in DOMAIN events |-> known(events[i])], t)
  BY DEF Reported
<1> HIDE DEF known
<1> QED
  BY <1>1, <1>3, <1>4, <1>5

\* Each event of a batch counts once.
LEMMA MergeAllCounts ==
    ASSUME NEW q \in Seq(LogEntries), NEW events \in Seq(LogEvents)
    PROVE  /\ MergeAll(q, events) \in Seq(LogEntries)
           /\ \A t : Counted(MergeAll(q, events), t) = Counted(q, t) + Reported(events, t)
<1> DEFINE n == Len(events)
           items == Occurring(events)
           X == Seq(LogEntries)
           step == [i \in Nat |-> [x \in X |-> IF i \in 1 .. n THEN Merge(x, items[i]) ELSE x]]
           is(f) == f = [i \in 0 .. n |-> IF i = 0 THEN q ELSE Merge(f[i - 1], items[i])]
           f == CHOOSE x : is(x)
<1>0. /\ items \in Seq(LogEntries) /\ Len(items) = n
      /\ \A i \in 1 .. n : items[i] = Occurred(events[i])
      /\ \A t : Reported(events, t) = Counted(items, t)
  BY OccurringIs
<1> HIDE DEF items
<1>1. n \in Nat /\ \A i \in 1 .. n : items[i] \in LogEntries
  BY <1>0
<1>2. step \in [Nat -> [X -> X]]
  BY <1>1, MergeCounts
<1>3. PICK h : Steps(h, 0, n, X, q, step)
  <2>1. 0 \in Nat /\ 0 <= n /\ q \in X
    BY <1>1
  <2> HIDE DEF step, n, X
  <2> QED
    BY <1>1, <1>2, <2>1, RecursionExists
<1>4. is(h)
  <2>1. h \in [0 .. n -> X] /\ h[0] = q /\ \A i \in 0 .. n : i # 0 => h[i] = step[i][h[i - 1]]
    BY <1>3 DEF Steps
  <2>2. ASSUME NEW i \in 0 .. n
        PROVE  h[i] = IF i = 0 THEN q ELSE Merge(h[i - 1], items[i])
    <3>1. CASE i = 0
      BY <2>1, <3>1
    <3>2. CASE i # 0
      <4>1. i \in Nat /\ i \in 1 .. n /\ i - 1 \in 0 .. n
        BY <1>1, <3>2
      <4>2. h[i] = step[i][h[i - 1]] /\ h[i - 1] \in X
        BY <2>1, <3>2, <4>1
      <4> QED
        BY <3>2, <4>1, <4>2
    <3> QED
      BY <3>1, <3>2
  <2> QED
    BY <2>1, <2>2
<1> HIDE DEF step
<1>5. is(f)
  BY <1>4
<1>6. MergeAll(q, events) = f[n]
  <2> DEFINE g1 == CHOOSE x : x = [i \in 0 .. n |-> IF i = 0 THEN q
                                                    ELSE Merge(x[i - 1], Occurred(events[i]))]
  <2>1. MergeAll(q, events) = g1[n]
    BY DEF MergeAll
  <2>2. \A x : [i \in 0 .. n |-> IF i = 0 THEN q ELSE Merge(x[i - 1], Occurred(events[i]))]
               = [i \in 0 .. n |-> IF i = 0 THEN q ELSE Merge(x[i - 1], items[i])]
    <3> SUFFICES ASSUME NEW x, NEW i \in 0 .. n
                 PROVE  (IF i = 0 THEN q ELSE Merge(x[i - 1], Occurred(events[i])))
                         = (IF i = 0 THEN q ELSE Merge(x[i - 1], items[i]))
      OBVIOUS
    <3>1. i = 0 \/ i \in 1 .. n
      BY <1>1
    <3> QED
      BY <1>0, <3>1
  <2>3. g1 = f
    BY <2>2
  <2> QED
    BY <2>1, <2>3
<1> HIDE DEF f
<1>7. f[0] = q /\ \A i \in 1 .. n : f[i] = Merge(f[i - 1], items[i])
  BY <1>1, <1>5
<1> DEFINE T(t, s) == {i \in 0 .. n : ~(f[i] \in X /\ Counted(f[i], t) = Counted(q, t) + s[i])}
<1>8. ASSUME NEW t
      PROVE  f[n] \in X /\ Counted(f[n], t) = Counted(q, t) + Counted(items, t)
  <2>1. PICK s : SumsTo(items, t, s) /\ Counted(items, t) = s[n]
    BY <1>0, CountIs
  <2>2. s[0] = 0 /\ \A i \in 1 .. n : s[i] = s[i - 1] + Value(items[i], t) /\ s[i - 1] \in Nat
    <3>1. \A i \in 1 .. n : i - 1 \in 0 .. n
      BY <1>1
    <3> QED
      BY <1>0, <2>1, <3>1 DEF SumsTo
  <2>3. SUFFICES ASSUME T(t, s) # {} PROVE FALSE
    <3>1. n \in 0 .. n
      BY <1>1
    <3> QED
      BY <2>1, <3>1
  <2>4. PICK i \in T(t, s) : \A y \in T(t, s) : i <= y
    <3>1. T(t, s) \subseteq Nat
      BY <1>1
    <3> HIDE DEF T
    <3> QED
      BY <2>3, <3>1, LeastNat
  <2>5. i \in 0 .. n /\ ~(f[i] \in X /\ Counted(f[i], t) = Counted(q, t) + s[i])
    BY <2>4
  <2>6. Counted(q, t) \in Nat
    BY CountedType
  <2>7. i # 0
    BY <1>7, <2>2, <2>5, <2>6
  <2>8. i \in 1 .. n /\ i - 1 \in 0 .. n /\ ~(i <= i - 1)
    BY <1>1, <2>5, <2>7
  <2>9. f[i - 1] \in X /\ Counted(f[i - 1], t) = Counted(q, t) + s[i - 1]
    BY <2>4, <2>8
  <2> HIDE DEF T
  <2>10. f[i] = Merge(f[i - 1], items[i]) /\ items[i] \in LogEntries
    BY <1>1, <1>7, <2>8
  <2>11. f[i] \in X /\ Counted(f[i], t) = Counted(f[i - 1], t) + Value(items[i], t)
    <3> DEFINE x == f[i - 1]
               e == items[i]
    <3>1. x \in Seq(LogEntries) /\ e \in LogEntries
      BY <2>9, <2>10
    <3> HIDE DEF x, e
    <3>2. Merge(x, e) \in Seq(LogEntries) /\ Counted(Merge(x, e), t) = Counted(x, t) + Value(e, t)
      BY <3>1, MergeCounts
    <3> QED
      BY <2>10, <3>2 DEF x, e
  <2>12. s[i] = s[i - 1] + Value(items[i], t) /\ s[i - 1] \in Nat /\ Value(items[i], t) \in Nat
    BY <2>2, <2>8, <2>10, ValueIs
  <2>13. Counted(f[i], t) = Counted(q, t) + s[i]
    BY <2>6, <2>9, <2>11, <2>12
  <2> QED
    BY <2>5, <2>11, <2>13
<1> QED
  BY <1>0, <1>6, <1>8

\* The log after a batch.
LogOK(q, r, c) ==
    /\ q \in Seq(LogEntries) /\ Len(q) <= MaxLog
    /\ r \in [EventTexts -> Nat] /\ c \in [EventTexts -> Nat]
    /\ \A t \in EventTexts : r[t] = Counted(q, t) + c[t]

LogInv == LogOK(log, received, cut)

LEMMA DataLog ==
    ASSUME LogInv, NEW events \in Seq(LogEvents), NEW elapsed \in Nat, SetLogData(events, elapsed)
    PROVE  LogInv'
<1> DEFINE old == Older(log, elapsed)
           merged == MergeAll(old, events)
           over == IF Len(merged) > MaxLog THEN Len(merged) - MaxLog ELSE 0
           a == SubSeq(merged, 1, over)
           b == SubSeq(merged, over + 1, Len(merged))
<1>1. /\ log \in Seq(LogEntries) /\ received \in [EventTexts -> Nat] /\ cut \in [EventTexts -> Nat]
      /\ \A t \in EventTexts : received[t] = Counted(log, t) + cut[t]
  BY DEF LogInv, LogOK
<1>2. old \in Seq(LogEntries) /\ \A t : Counted(old, t) = Counted(log, t)
  BY <1>1, OlderCounts
<1>3. /\ log' = b
      /\ received' = [t \in EventTexts |-> received[t] + Reported(events, t)]
      /\ cut' = [t \in EventTexts |-> cut[t] + Counted(a, t)]
  BY DEF SetLogData
<1> HIDE DEF old
<1>4. /\ merged \in Seq(LogEntries)
      /\ \A t : Counted(merged, t) = Counted(old, t) + Reported(events, t)
  BY <1>2, MergeAllCounts
<1> HIDE DEF merged
<1>5. over \in 0 .. Len(merged) /\ Len(merged) - over <= MaxLog
  BY <1>4, ViewsAssumption
<1> HIDE DEF over
<1>6. /\ a \in Seq(LogEntries) /\ b \in Seq(LogEntries) /\ Len(b) = Len(merged) - over
      /\ \A t : Counted(merged, t) = Counted(a, t) + Counted(b, t)
  BY <1>4, <1>5, CountedSplit
<1> HIDE DEF a, b
<1>7. ASSUME NEW t \in EventTexts
      PROVE  /\ received[t] + Reported(events, t) \in Nat /\ cut[t] + Counted(a, t) \in Nat
             /\ received[t] + Reported(events, t) = Counted(b, t) + (cut[t] + Counted(a, t))
  <2>1. /\ received[t] \in Nat /\ cut[t] \in Nat /\ Counted(log, t) \in Nat
        /\ Reported(events, t) \in Nat /\ Counted(a, t) \in Nat /\ Counted(b, t) \in Nat
    BY <1>1, <1>6, CountedType, OccurringIs
  <2>2. Counted(log, t) + Reported(events, t) = Counted(a, t) + Counted(b, t)
    BY <1>2, <1>4, <1>6
  <2>3. received[t] = Counted(log, t) + cut[t]
    BY <1>1
  <2> DEFINE l == Counted(log, t)
             n == Reported(events, t)
             x == Counted(a, t)
             y == Counted(b, t)
  <2>4. l \in Nat /\ n \in Nat /\ x \in Nat /\ y \in Nat /\ l + n = x + y
    BY <2>1, <2>2
  <2> HIDE DEF l, n, x, y
  <2>5. \A c \in Nat : (l + c) + n = y + (c + x) /\ (l + c) + n \in Nat /\ c + x \in Nat
    BY <2>4
  <2> QED
    BY <2>1, <2>3, <2>5 DEF l, n, x, y
<1>8. LogOK(log', received', cut')
  BY <1>3, <1>5, <1>6, <1>7 DEF LogOK
<1> QED
  BY <1>8 DEF LogInv

LEMMA LogStart == Init => LogInv
<1> SUFFICES ASSUME Init PROVE LogInv
  OBVIOUS
<1>1. /\ log = <<>> /\ received = [t \in EventTexts |-> 0] /\ cut = [t \in EventTexts |-> 0]
  BY DEF Init
<1>2. <<>> \in Seq(LogEntries) /\ Len(<<>>) = 0 /\ 0 <= MaxLog
  BY ViewsAssumption
<1>3. \A t : Counted(<<>>, t) = 0
  <2> SUFFICES ASSUME NEW t PROVE Counted(<<>>, t) = 0
    OBVIOUS
  <2>1. PICK f : SumsTo(<<>>, t, f) /\ Counted(<<>>, t) = f[Len(<<>>)]
    BY <1>2, CountIs
  <2> QED
    BY <1>2, <2>1 DEF SumsTo
<1> QED
  BY <1>1, <1>2, <1>3 DEF LogInv, LogOK

-----------------------------------------------------------------------------
(* The sparklines.                                                         *)

\* The order names each container with sparklines once.
Sparks ==
    {gs \in [of : SUBSET Containers, order : Seq(Containers)] :
        /\ IsFiniteSet(gs.of) /\ Cardinality(gs.of) <= MaxGraphs
        /\ IsInjective(gs.order) /\ Range(gs.order) = gs.of}

LEMMA SparksAre ==
    ASSUME NEW S, S \subseteq Containers, IsFiniteSet(S), Cardinality(S) <= MaxGraphs,
           NEW q \in Seq(Containers), IsInjective(q), Range(q) = S
    PROVE  [of |-> S, order |-> q] \in Sparks
<1> DEFINE gs == [of |-> S, order |-> q]
<1>1. gs \in [of : SUBSET Containers, order : Seq(Containers)] /\ gs.of = S /\ gs.order = q
  OBVIOUS
<1> HIDE DEF gs
<1> QED
  BY <1>1 DEF Sparks, gs

LEMMA GetOrCreateOK ==
    ASSUME NEW gs \in Sparks, NEW c \in Containers
    PROVE  GetOrCreate(gs, c) \in Sparks
<1> DEFINE of == gs.of
           order == gs.order
<1>1. /\ of \subseteq Containers /\ order \in Seq(Containers) /\ IsFiniteSet(of)
      /\ Cardinality(of) <= MaxGraphs /\ IsInjective(order) /\ Range(order) = of
  BY DEF Sparks
<1>2. Cardinality(of) \in Nat /\ MaxGraphs \in Nat \ {0}
  BY <1>1, FS_CardinalityType, ViewsAssumption
<1>3. CASE c \in of
  BY <1>3 DEF GetOrCreate
<1>4. CASE c \notin of /\ Cardinality(of) >= MaxGraphs
  <2> DEFINE h == Head(order)
             less == of \ {h}
             rest == Tail(order)
  <2>1. GetOrCreate(gs, c) = [of |-> less \cup {c}, order |-> Append(rest, c)]
    BY <1>4 DEF GetOrCreate
  <2> HIDE DEF of, order
  <2>2. order # <<>>
    <3> SUFFICES ASSUME order = <<>> PROVE FALSE
      OBVIOUS
    <3>1. of = {}
      BY <1>1 DEF Range
    <3>2. Cardinality(of) = 0
      BY <3>1, FS_EmptySet
    <3> QED
      BY <1>2, <1>4, <3>2
  <2>3. /\ IsInjective(rest) /\ rest \in Seq(Containers) /\ Range(rest) = less /\ h \in of
    BY <1>1, <2>2, TailOnce
  <2>4. IsFiniteSet(less) /\ Cardinality(less) = Cardinality(of) - 1
    BY <1>1, <2>3, FS_RemoveElement
  <2>5. c \notin less /\ less \subseteq Containers
    BY <1>1, <1>4
  <2> HIDE DEF h, less, rest
  <2>6. IsInjective(Append(rest, c)) /\ Range(Append(rest, c)) = less \cup {c}
    BY <2>3, <2>5, AppendOnce
  <2>7. Append(rest, c) \in Seq(Containers)
    BY <2>3
  <2>8. IsFiniteSet(less \cup {c}) /\ Cardinality(less \cup {c}) = Cardinality(less) + 1
    BY <2>4, <2>5, FS_AddElement
  <2>9. Cardinality(less \cup {c}) <= MaxGraphs
    BY <1>1, <1>2, <2>4, <2>8
  <2>10. less \cup {c} \subseteq Containers
    BY <2>5
  <2> QED
    BY <2>1, <2>6, <2>7, <2>8, <2>9, <2>10, SparksAre
<1>5. CASE c \notin of /\ ~(Cardinality(of) >= MaxGraphs)
  <2>1. GetOrCreate(gs, c) = [of |-> of \cup {c}, order |-> Append(order, c)]
    BY <1>5 DEF GetOrCreate
  <2> HIDE DEF of, order
  <2>2. IsInjective(Append(order, c)) /\ Range(Append(order, c)) = of \cup {c}
    BY <1>1, <1>5, AppendOnce
  <2>3. Append(order, c) \in Seq(Containers)
    BY <1>1
  <2>4. IsFiniteSet(of \cup {c}) /\ Cardinality(of \cup {c}) = Cardinality(of) + 1
    BY <1>1, <1>5, FS_AddElement
  <2>5. Cardinality(of \cup {c}) <= MaxGraphs
    BY <1>2, <1>5, <2>4
  <2>6. of \cup {c} \subseteq Containers
    BY <1>1
  <2> QED
    BY <2>1, <2>2, <2>3, <2>4, <2>5, <2>6, SparksAre
<1> QED
  BY <1>3, <1>4, <1>5

\* So for all the samples of a batch.
LEMMA SetGraphsDataOK ==
    ASSUME NEW gs \in Sparks, NEW s \in Sessions, NEW batch \in s.batches
    PROVE  SetGraphsData(gs, batch) \in Sparks
<1> DEFINE samples == batch.cpu \o batch.mem \o batch.io \o batch.net
           n == Len(samples)
           step == [i \in Nat |-> [x \in Sparks |-> IF i \in 1 .. n THEN GetOrCreate(x, samples[i])
                                                    ELSE x]]
           is(f) == f = [i \in 0 .. n |-> IF i = 0 THEN gs ELSE GetOrCreate(f[i - 1], samples[i])]
           f == CHOOSE x : is(x)
<1>1. n \in Nat /\ \A i \in 1 .. n : samples[i] \in Containers
  <2>1. samples \in Seq(Containers)
    BY BatchIs
  <2> HIDE DEF samples
  <2> QED
    BY <2>1
<1>2. SetGraphsData(gs, batch) = f[n]
  BY DEF SetGraphsData
<1> HIDE DEF samples
<1>3. step \in [Nat -> [Sparks -> Sparks]]
  BY <1>1, GetOrCreateOK
<1>4. PICK h : Steps(h, 0, n, Sparks, gs, step)
  <2>1. 0 \in Nat /\ 0 <= n
    BY <1>1
  <2> HIDE DEF step, n
  <2> QED
    BY <1>1, <1>3, <2>1, RecursionExists
<1>5. is(h)
  <2>1. h \in [0 .. n -> Sparks] /\ h[0] = gs /\ \A i \in 0 .. n : i # 0 => h[i] = step[i][h[i - 1]]
    BY <1>4 DEF Steps
  <2>2. ASSUME NEW i \in 0 .. n
        PROVE  h[i] = IF i = 0 THEN gs ELSE GetOrCreate(h[i - 1], samples[i])
    <3>1. CASE i = 0
      BY <2>1, <3>1
    <3>2. CASE i # 0
      <4>1. i \in Nat /\ i \in 1 .. n /\ i - 1 \in 0 .. n
        BY <1>1, <3>2
      <4>2. h[i] = step[i][h[i - 1]] /\ h[i - 1] \in Sparks
        BY <2>1, <3>2, <4>1
      <4> QED
        BY <3>2, <4>1, <4>2
    <3> QED
      BY <3>1, <3>2
  <2> QED
    BY <2>1, <2>2
<1> HIDE DEF step
<1>6. is(f)
  BY <1>5
<1> HIDE DEF f
<1>7. f[0] = gs /\ \A i \in 1 .. n : f[i] = GetOrCreate(f[i - 1], samples[i])
  BY <1>1, <1>6
<1> DEFINE T == {i \in 0 .. n : f[i] \notin Sparks}
<1>8. SUFFICES ASSUME T # {} PROVE FALSE
  <2>1. n \in 0 .. n
    BY <1>1
  <2> QED
    BY <1>2, <2>1
<1>9. PICK i \in T : \A y \in T : i <= y
  <2>1. T \subseteq Nat
    BY <1>1
  <2> HIDE DEF T
  <2> QED
    BY <1>8, <2>1, LeastNat
<1>10. i \in 0 .. n /\ f[i] \notin Sparks
  BY <1>9
<1>11. i \in 1 .. n /\ i - 1 \in 0 .. n /\ ~(i <= i - 1)
  BY <1>1, <1>7, <1>10
<1>12. f[i - 1] \in Sparks
  BY <1>9, <1>11
<1>13. f[i] \in Sparks
  BY <1>1, <1>7, <1>11, <1>12, GetOrCreateOK
<1> QED
  BY <1>10, <1>13

-----------------------------------------------------------------------------
(* Only a batch changes the log and the sparklines.                        *)

LEMMA OnlyBatch ==
    ASSUME [Next]_vars
    PROVE  \/ UNCHANGED dataVars
           \/ \E batch \in session.batches, events \in session.events, elapsed \in session.elapsed :
                 SetLogData(events, elapsed) /\ graphs' = SetGraphsData(graphs, batch)
<1>1. CASE Collect
  BY <1>1 DEF Collect
<1>2. ASSUME NEW batch \in session.batches, NEW events \in session.events,
             NEW elapsed \in session.elapsed, DataMsg(batch, events, elapsed)
      PROVE  SetLogData(events, elapsed) /\ graphs' = SetGraphsData(graphs, batch)
  BY <1>2 DEF DataMsg
<1>3. ASSUME NEW h, WindowSizeMsg(h)
      PROVE  UNCHANGED dataVars
  BY <1>3 DEF WindowSizeMsg
<1>4. ASSUME NEW t, ThemeChangedMsg(t)
      PROVE  UNCHANGED dataVars
  BY <1>4 DEF ThemeChangedMsg, ApplyTheme
<1>5. CASE View
  BY <1>5 DEF View
<1>6. ASSUME NEW key, HandleKey(key)
      PROVE  UNCHANGED dataVars
  <2>1. CASE ProcGraphKey(key)
    BY <2>1 DEF ProcGraphKey
  <2>2. CASE CycleTheme(key)
    BY <2>2 DEF CycleTheme, ApplyTheme
  <2>3. CASE PaletteKey(key) \/ ModalKey \/ Quit(key) \/ OpenOverlay(key) \/ Esc(key)
    BY <2>3 DEF PaletteKey, ModalKey, Quit, OpenOverlay, Esc
  <2>4. CASE SwitchTab(key) \/ NavDetail(key) \/ DetailKey(key) \/ TableKey(key)
    BY <2>4 DEF SwitchTab, NavDetail, DetailKey, TableKey
  <2> QED
    BY <1>6, <2>1, <2>2, <2>3, <2>4 DEF HandleKey
<1>7. CASE UNCHANGED vars
  BY <1>7 DEF vars
<1> QED
  BY <1>1, <1>2, <1>3, <1>4, <1>5, <1>6, <1>7 DEF Next

DataInv == session \in Sessions /\ LogInv /\ graphs \in Sparks

LEMMA DataStart == Init => DataInv
<1> SUFFICES ASSUME Init PROVE DataInv
  OBVIOUS
<1>1. graphs = [of |-> {}, order |-> <<>>] /\ session \in Sessions
  BY DEF Init, NewGraphs
<1>2. IsFiniteSet({}) /\ Cardinality({}) = 0 /\ 0 <= MaxGraphs
  BY FS_EmptySet, ViewsAssumption
<1>3. <<>> \in Seq(Containers) /\ IsInjective(<<>>) /\ Range(<<>>) = {}
  BY DEF IsInjective, Range
<1>4. graphs \in Sparks
  BY <1>1, <1>2, <1>3 DEF Sparks
<1> QED
  BY <1>1, <1>4, LogStart DEF DataInv

LEMMA DataStep == DataInv /\ [Next]_vars => DataInv'
<1> SUFFICES ASSUME DataInv, [Next]_vars PROVE DataInv'
  OBVIOUS
<1>1. session' = session /\ session \in Sessions
  BY OnlyCollection DEF DataInv
<1>2. CASE UNCHANGED dataVars
  BY <1>1, <1>2 DEF dataVars, DataInv, LogInv
<1>3. ASSUME NEW batch \in session.batches, NEW events \in session.events,
             NEW elapsed \in session.elapsed,
             SetLogData(events, elapsed), graphs' = SetGraphsData(graphs, batch)
      PROVE  DataInv'
  <2>1. events \in Seq(LogEvents) /\ elapsed \in Nat
    BY <1>1, TuiAssumption
  <2>2. LogInv'
    BY <1>3, <2>1, DataLog DEF DataInv
  <2>3. graphs' \in Sparks
    BY <1>1, <1>3, SetGraphsDataOK DEF DataInv
  <2> QED
    BY <1>1, <2>2, <2>3 DEF DataInv
<1> QED
  BY <1>2, <1>3, OnlyBatch

\* No event is lost between the log's merging and its limit: what was received of a
\* text is what the entries count and what was cut off with the oldest of them.
THEOREM NoEventLost == Spec => []EventsConserved
<1>1. DataInv => EventsConserved
  BY DEF DataInv, LogInv, LogOK, EventsConserved
<1> QED
  BY DataStart, DataStep, <1>1, PTL DEF Spec

\* The state of the whole interface keeps its types, the sparklines' order among
\* them, which the eviction of the oldest indexes.
THEOREM UiTyped == Spec => []TypeOK
<1>1. Init => GraphInv /\ SelectionInv /\ DataInv
  BY GraphStart, SelectionStart, DataStart
<1>2. GraphInv /\ SelectionInv /\ DataInv /\ [Next]_vars => GraphInv' /\ SelectionInv' /\ DataInv'
  BY GraphStep, SelectionStep, DataStep
<1>3. AppInv /\ GraphInv /\ SelectionInv /\ DataInv => TypeOK
  <2> SUFFICES ASSUME AppInv, GraphInv, SelectionInv, DataInv PROVE TypeOK
    OBVIOUS
  <2>1. GraphTypeOK
    <3>1. g \in Graph /\ Nodes(g) \subseteq Processes
      BY DEF GraphInv, Sound, Indexed, Family
    <3> QED
      BY <3>1, GraphFields DEF GraphTypeOK, Node
  <2>2. ProcGraphTypeOK
    BY <2>1 DEF SelectionInv, ProcGraphTypeOK
  <2>3. TableTypeOK
    <3>1. layout \in TableViews /\ TableTyped(layout.columns, tbl) /\ InOrder(layout.columns, tbl)
      BY DEF AppInv, Consistent, TableOK
    <3>2. tbl.visible \in Seq(DOMAIN tbl.rows)
      BY <3>1, VisibleIs
    <3>3. /\ tbl.rows \in Seq([name : Containers, place : 1 .. Len(ContainerNames)])
          /\ tbl.cursor \in Nat /\ tbl.offset \in Nat /\ tbl.height \in Heights
          /\ tbl.sortCol \in 0 .. Len(Columns) /\ tbl.filter \subseteq Containers
      BY <3>1 DEF TableTyped, Rows, Columns
    <3>4. tbl.sortAsc \in BOOLEAN /\ tbl.focused \in BOOLEAN /\ tbl.search \in BOOLEAN
      BY <3>1, Zenon DEF TableTyped
    <3> QED
      BY <3>1, <3>2, <3>3, <3>4, Zenon DEF TableTypeOK
  <2>4. GraphsIndexed /\ graphs.of \subseteq Containers /\ graphs.order \in Seq(Containers)
    BY DEF DataInv, Sparks, GraphsIndexed
  <2>5. /\ log \in Seq(LogEntries)
        /\ received \in [EventTexts -> Nat] /\ cut \in [EventTexts -> Nat]
    BY DEF DataInv, LogInv, LogOK
  <2>6. PageOK(detail) /\ AppOK(app) /\ PaletteOK(palette)
    BY DEF AppInv, Consistent
  <2>7. ViewsTypeOK
    BY <2>3, <2>4, <2>5, <2>6, Zenon DEF PageOK, ViewsTypeOK
  <2>8. themeMsgs \subseteq Range(Themes) /\ run \in {"running", "quit", "panicked"}
    BY DEF AppInv
  <2> QED
    BY <2>2, <2>6, <2>7, <2>8, Zenon DEF AppOK, PaletteOK, TypeOK
<1> QED
  BY <1>1, <1>2, <1>3, AppAlways, PTL DEF Spec
=============================================================================
