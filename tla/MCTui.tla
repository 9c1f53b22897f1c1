-------------------------------- MODULE MCTui --------------------------------
(***************************************************************************)
(* A small instance of the terminal UI for TLC, with five sessions: a user *)
(* who works in a table, one who opens the overlays, one who opens the     *)
(* pages of containers, one who lets the event log run and one who walks   *)
(* the process tree.                                                       *)
(***************************************************************************)
EXTENDS Tui

\* A container with a chain of three processes from its init on, which events name
\* by its cgroup until the resolver knows it, and a second cgroup with one process,
\* whose container has the same name.
MCProcesses == {Key("a", 1), Key("a", 2), Key("a", 3), Key("b", 4)}
MCParentOf == [k \in MCProcesses |-> IF k.pid \in {2, 3} THEN k.pid - 1 ELSE 0]
MCSidOf == [k \in MCProcesses |-> IF k.pid \in {2, 3} THEN 2 ELSE 0]
MCNamesOf == [c \in {"a", "b"} |-> IF c = "a" THEN {"cgroup:a", "web"} ELSE {"web"}]
MCNames == <<"cgroup:a", "web">>

MCContainerNames == <<"a", "b", "c">>
MCTabs == <<"overview", "table", "procgraph">>
MCThemes == <<"dark", "light">>
MCEventTexts == {[container |-> "a", what |-> "oom"], [container |-> "b", what |-> "oom"]}

\* The same containers from every collector, or less and another order from some.
Alike(list) == [cpu |-> list, mem |-> list, io |-> list, net |-> list, sys |-> list]
Uneven == [Alike(<<"a">>) EXCEPT !.mem = <<"b", "a">>, !.net = <<"c">>]

Occurrence(t, age) == [text |-> t, age |-> age, count |-> 0]
Events == {Occurrence(t, age) : t \in MCEventTexts, age \in 0 .. 1}
Twice == [Occurrence([container |-> "a", what |-> "oom"], 0) EXCEPT !.count = 2]
Quiet == [keys |-> {}, batches |-> {NoBatch}, events |-> {<<>>}, elapsed |-> {0},
          maxEvents |-> 0, procs |-> {}, heights |-> {1}, layouts |-> {Cpu}]

TableSession ==
    [Quiet EXCEPT !.keys = TableKeys \cup {"2", "/", "char", "enter"},
                  !.batches = {NoBatch, Alike(<<"b", "a">>), Alike(<<"c", "a", "b">>)},
                  !.heights = {2}, !.layouts = {Syscall}]
OverlaySession ==
    [Quiet EXCEPT !.keys = {"q", "?", ":", "esc", "T", "tab", "shift+tab", "enter", "up", "down",
                            "char"},
                  !.batches = {Alike(<<"a">>)}, !.heights = {1, 2}]
PageSession ==
    [Quiet EXCEPT !.keys = {"2", "?", "esc", "enter", "p", "down"},
                  !.batches = {Alike(<<"a">>), Uneven},
                  !.events = {<<>>} \cup {<<Occurrence(t, 0)>> : t \in MCEventTexts}, !.maxEvents = 2]
LogSession ==
    [Quiet EXCEPT !.events = {<<>>, <<Twice>>} \cup SeqOf(Events, 2), !.elapsed = 0 .. 3, !.maxEvents = 4]
ProcessSession ==
    [Quiet EXCEPT !.keys = {"3", "up", "down", "g", "G", "left"}, !.procs = MCProcesses]
MCSessions == {TableSession, OverlaySession, PageSession, LogSession, ProcessSession}
=============================================================================
