---------------------------- MODULE ProcGraphView ----------------------------
(***************************************************************************)
(* The process-graph view (internal/tui/views/procgraph) on the graph that *)
(* collectReal feeds (internal/tui/app/collect.go).  A collection ingests  *)
(* fork and exec events, then correlates security events, then takes a     *)
(* snapshot that the view receives; between two snapshots the view keeps   *)
(* the last one and handles keys.  The snapshot is the graph itself here:  *)
(* keys and the ingestion of the next batch do not touch the same state,   *)
(* so that keys pressed while a batch is ingested may be taken before it.  *)
(***************************************************************************)
EXTENDS ProcessGraph, Subsequences

CONSTANT Names          \* the names of containers in their order

VARIABLES phase,        \* ingest (forks and execs), correlate, view
          cgroupSel, treeSel, activePanel

viewVars == <<cgroupSel, treeSel, activePanel>>
procGraphVars == <<g, phase, viewVars>>

Panels == <<"cgroup", "tree", "detail">>

ASSUME ViewAssumption ==
    /\ Names \in Seq(Range(Names)) /\ AllNames \subseteq Range(Names)
    \* The PIDs are the host's: containers with a PID in common, that of a stub
    \* say, have different names.
    /\ \A j, k \in Processes :
          j.pid = k.pid /\ NamesOf[j.cg] \cap NamesOf[k.cg] # {} => j = k

ProcGraphInit ==
    /\ g = New /\ phase = "ingest"
    /\ cgroupSel = 0 /\ treeSel = 0 /\ activePanel = 2

-----------------------------------------------------------------------------
(* rebuildCgroupList and rebuildTree.                                      *)

\* cgroupKeyFor: a process goes with the container its own events named last,
\* whichever cgroup it is of.
Of(c) == {k \in Nodes(g) : g.nodes[k].name = c}

CgroupKeys == Picked(Names, {i \in DOMAIN Names : Of(Names[i]) # {}})

\* Mutation: a process with a parent is drawn under it, known or not.
IsChild_AnyParent(c, k) == g.nodes[k].ppid \notin {0, Init1, k.pid}

\* The container's process that is drawn above k, if it has it: PIDs are looked
\* up among the container's processes.
Above(c, k) == {j \in Of(c) : j.pid = g.nodes[k].ppid}

\* The process has its parent in the container and is drawn under it.
IsChild(c, k) == g.nodes[k].ppid \notin {0, Init1, k.pid} /\ Above(c, k) # {}

\* The walk from the roots, one level after the other.
Level(c) ==
    LET level[d \in 0 .. MaxNodes - 1] ==
            IF d = 0 THEN {k \in Of(c) : ~IsChild(c, k)}
            ELSE {k \in Of(c) : IsChild(c, k) /\ Above(c, k) \cap level[d - 1] # {}}
    IN level

TreeLines(c) == UNION {Level(c)[d] : d \in 0 .. MaxNodes - 1}

\* The lines of the tree panel: none when there is nothing to select.
LinesAt(sel) ==
    IF sel < Len(CgroupKeys) THEN Cardinality(TreeLines(CgroupKeys[sel + 1])) ELSE 0

\* Mutation: the selection is kept as it is.
RebuildCgroupList_Unclamped(sel) == sel

\* The selected container when the list has changed.
RebuildCgroupList(sel) == IF sel >= Len(CgroupKeys) THEN 0 ELSE sel

\* The selected line when the tree has changed; without containers the tree is
\* left alone.
RebuildTree(sel, tree) ==
    IF CgroupKeys # <<>> /\ tree >= LinesAt(sel) THEN 0 ELSE tree

-----------------------------------------------------------------------------
(* A collection.                                                           *)

IngestFork(k, name, withSid) ==
    /\ phase = "ingest" /\ AddFork(k, name, withSid)
    /\ UNCHANGED <<phase, viewVars>>

IngestExec(k, ppid, name, withSid) ==
    /\ phase = "ingest" /\ AddExec(k, ppid, name, withSid)
    /\ UNCHANGED <<phase, viewVars>>

\* The package's MarkExit, which no event of this program calls yet.
Exit(k) ==
    /\ phase = "ingest" /\ MarkExit(k)
    /\ UNCHANGED <<phase, viewVars>>

\* The exec events are read: the buffered security events are next.
Drain ==
    /\ phase = "ingest"
    /\ phase' = "correlate"
    /\ UNCHANGED <<g, viewVars>>

Correlate(k) ==
    /\ phase = "correlate" /\ CorrelateEvent(k)
    /\ UNCHANGED <<phase, viewVars>>

\* Snapshot, and SetData when the batch reaches the view.
SetData ==
    /\ phase = "correlate"
    /\ phase' = "view"
    /\ cgroupSel' = RebuildCgroupList(cgroupSel)
    /\ treeSel' = RebuildTree(cgroupSel', treeSel)
    /\ UNCHANGED <<g, activePanel>>

\* The next collection begins.
NextBatch ==
    /\ phase = "view"
    /\ phase' = "ingest"
    /\ UNCHANGED <<g, viewVars>>

-----------------------------------------------------------------------------
(* Keys.                                                                   *)

OnContainers == Panels[activePanel] = "cgroup"

SelectContainer(sel) ==
    /\ cgroupSel' = sel
    /\ treeSel' = RebuildTree(sel, treeSel)

NavUp ==
    /\ phase = "view"
    /\ IF OnContainers
       THEN cgroupSel > 0 /\ SelectContainer(cgroupSel - 1)
       ELSE treeSel > 0 /\ treeSel' = treeSel - 1 /\ UNCHANGED cgroupSel
    /\ UNCHANGED <<g, phase, activePanel>>

NavDown ==
    /\ phase = "view"
    /\ IF OnContainers
       THEN cgroupSel + 1 < Len(CgroupKeys) /\ SelectContainer(cgroupSel + 1)
       ELSE treeSel + 1 < LinesAt(cgroupSel) /\ treeSel' = treeSel + 1 /\ UNCHANGED cgroupSel
    /\ UNCHANGED <<g, phase, activePanel>>

NavTop ==
    /\ phase = "view"
    /\ IF OnContainers THEN SelectContainer(0) ELSE treeSel' = 0 /\ UNCHANGED cgroupSel
    /\ UNCHANGED <<g, phase, activePanel>>

NavBottom ==
    /\ phase = "view"
    /\ Panels[activePanel] = "tree" /\ LinesAt(cgroupSel) > 0
    /\ treeSel' = LinesAt(cgroupSel) - 1
    /\ UNCHANGED <<g, phase, cgroupSel, activePanel>>

SwitchPanel ==
    /\ phase = "view"
    /\ activePanel' \in {activePanel - 1, activePanel + 1} \cap DOMAIN Panels
    /\ UNCHANGED <<g, phase, cgroupSel, treeSel>>

-----------------------------------------------------------------------------

\* Everything of one process, and of the collection, that is not the delivery
\* of the batch.
Collection(procs) ==
    \/ \E k \in procs, withSid \in BOOLEAN : \E name \in NamesOf[k.cg] :
            \/ IngestFork(k, name, withSid)
            \/ \E ppid \in ExecParents(k) : IngestExec(k, ppid, name, withSid)
    \/ \E k \in procs : Exit(k) \/ Correlate(k)
    \/ Drain \/ NextBatch

-----------------------------------------------------------------------------
(* Properties.                                                             *)

ProcGraphTypeOK ==
    /\ GraphTypeOK
    /\ phase \in {"ingest", "correlate", "view"}
    /\ cgroupSel \in Nat /\ treeSel \in Nat /\ activePanel \in DOMAIN Panels

\* rebuildTree and the renderers index the lists by the selections: these are
\* within the lists whenever the lists are not empty, although evictions make
\* containers and lines disappear behind the user's back.
SelectionInRange ==
    phase = "view" /\ CgroupKeys # <<>> =>
        /\ cgroupSel < Len(CgroupKeys)
        /\ treeSel < LinesAt(cgroupSel)

\* The tree of a container starts at the snapshot's roots, and at the processes
\* whose parent is tracked under another name, and shows every process of it that
\* is tracked, whichever parents were evicted, never seen or named differently
\* (rebuildTree follows PPIDs, and only from the roots down).
EveryProcessShown ==
    phase = "view" => \A c \in Range(Names) :
        /\ Level(c)[0] = {k \in Of(c) : \/ k \in Roots(g)
                                        \/ Key(k.cg, g.nodes[k].ppid) \notin Of(c)}
        /\ TreeLines(c) = Of(c)

\* What the process view shows is true and complete, whichever events were lost,
\* repeated or late: no false ancestor (AncestryTrue), no process left out.
ProcessTreeTrue == AncestryTrue /\ EveryProcessShown
=============================================================================
