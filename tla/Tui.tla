--------------------------------- MODULE Tui ---------------------------------
(***************************************************************************)
(* The root model of the terminal UI (internal/tui/app): its state         *)
(* machine, the tab bar, the help modal and the command palette over the   *)
(* views, the keys, the batches and the drawing.  Update runs on one       *)
(* goroutine and takes whole messages; the one collection in flight is     *)
(* re-issued by the handler of its batch (phase, of ProcGraphView), so     *)
(* batches, keys and redraws come in any order.                            *)
(*                                                                         *)
(* One of the five table tabs is followed (layout); they share no state.   *)
(* A session bounds what a user and the node do in a behaviour: the keys   *)
(* pressed, and the containers, events, processes and window heights seen. *)
(* Outside the running phase of a collection keys touch nothing it does.   *)
(***************************************************************************)
EXTENDS ProcGraphView, TuiViews

CONSTANTS Tabs,         \* what the tabs show, the first one being the overview
          Themes,       \* theme.Names()
          Sessions      \* what is pressed and seen in a behaviour

ASSUME TuiAssumption ==
    /\ Tabs \in Seq(STRING) /\ Len(Tabs) > 0 /\ Tabs[1] = "overview" /\ IsInjective(Tabs)
    /\ Themes \in Seq(STRING) /\ Len(Themes) > 0 /\ IsInjective(Themes)
    /\ \A s \in Sessions :
          /\ s.procs \subseteq Processes
          /\ s.layouts \subseteq TableViews /\ s.heights \subseteq Heights
          /\ s.batches \subseteq Batches
          /\ \A batch \in s.batches : \A c \in DOMAIN batch : IsInjective(batch[c])
          /\ \A events \in s.events : events \in Seq(LogEvents)
          /\ s.elapsed \subseteq Nat

VARIABLES app,          \* state, prevState, active tab, modal, theme
          palette,      \* visible, cursor, matches
          themeMsgs,    \* ThemeChangedMsgs on their way
          run,          \* running, quit or panicked
          session       \* the element of Sessions followed

pageVars == <<layout, tbl, detail>>
dataVars == <<log, received, cut, graphs>>
vars == <<procGraphVars, pageVars, dataVars, app, palette, themeMsgs, run, session>>

AppStates == {"Loading", "Dashboard", "Detail", "CommandPalette", "Help"}
Commands == <<"quit">> \o Themes
Hidden == [visible |-> FALSE, cursor |-> 0, matches |-> <<>>]
Digits == <<"1", "2", "3", "4", "5", "6", "7", "8", "9">>

Init ==
    /\ ProcGraphInit
    /\ session \in Sessions
    /\ layout \in session.layouts
    /\ \E h \in session.heights : tbl = NewTable(h)
    /\ detail = NewDetail
    /\ log = <<>> /\ graphs = NewGraphs
    /\ received = [t \in EventTexts |-> 0] /\ cut = [t \in EventTexts |-> 0]
    /\ app = [state |-> "Loading", prevState |-> "Loading", active |-> 1,
              modal |-> FALSE, theme |-> Themes[1], themeIdx |-> 0]
    /\ palette = Hidden /\ themeMsgs = {} /\ run = "running"

-----------------------------------------------------------------------------
(* Messages other than keys.                                               *)

\* The views and the page draw themselves anew.
Redraw ==
    /\ tbl' = Dirty(tbl)
    /\ detail' = [detail EXCEPT !.drawn = NoDrawing]

Collect ==
    /\ run = "running"
    /\ Collection(session.procs)
    /\ UNCHANGED <<pageVars, dataVars, app, palette, themeMsgs, run, session>>

\* The samples that the table shows; the I/O table, which is not told from the one
\* of the CPU, shows batch.io.
Shown(batch) ==
    CASE layout = Memory -> batch.mem [] layout = Network -> batch.net
      [] layout = Syscall -> batch.sys [] OTHER -> batch.cpu

\* The batch goes to every view, shown or not, and the next collection is issued.
DataMsg(batch, events, elapsed) ==
    /\ run = "running"
    /\ SetData
    /\ app' = [app EXCEPT !.state = IF @ = "Loading" THEN "Dashboard" ELSE @]
    /\ tbl' = SetTableData(tbl, Shown(batch))
    /\ detail' = SetDetailData(detail, batch, {events[i].text.container : i \in DOMAIN events})
    /\ SetLogData(events, elapsed)
    /\ FoldFunction(+, 0, received') <= session.maxEvents
    /\ graphs' = SetGraphsData(graphs, batch)
    /\ UNCHANGED <<layout, palette, themeMsgs, run, session>>

\* Between a batch and the next collection: the user's turn.
Ready == run = "running" /\ phase = "view"

WindowSizeMsg(height) ==
    /\ Ready
    /\ tbl' = SetTableSize(tbl, height)
    /\ detail' = [detail EXCEPT !.drawn = NoDrawing]
    /\ UNCHANGED <<procGraphVars, layout, dataVars, app, palette, themeMsgs, run, session>>

\* applyTheme: the theme goes to every view.  It is saved in the background.
ApplyTheme(theme, idx) ==
    /\ app' = [app EXCEPT !.theme = theme, !.themeIdx = idx]
    /\ Redraw
    /\ UNCHANGED <<procGraphVars, layout, dataVars, palette, run, session>>

\* The palette's command answers; the theme T goes on from is not moved.
ThemeChangedMsg(theme) ==
    /\ Ready
    /\ theme \in themeMsgs /\ themeMsgs' = themeMsgs \ {theme}
    /\ ApplyTheme(theme, app.themeIdx)

\* View: what is on screen is drawn unless its drawing is kept.
View ==
    /\ Ready
    /\ \/ /\ app.state = "Detail"
          /\ detail' = DrawDetailView(detail, app.theme) /\ UNCHANGED tbl
       \/ /\ app.state \notin {"Detail", "Loading"} /\ Tabs[app.active] = "table"
          /\ tbl' = DrawView(tbl, app.theme) /\ UNCHANGED detail
    /\ UNCHANGED <<procGraphVars, layout, dataVars, app, palette, themeMsgs, run, session>>

-----------------------------------------------------------------------------
(* The overlays take every key while they are shown.                       *)

\* palette.filter
Typed(matches) ==
    [palette EXCEPT !.matches = matches,
                    !.cursor = IF matches = <<>> THEN 0
                               ELSE IF @ >= Len(matches) THEN Len(matches) - 1 ELSE @]

PaletteKey(key) ==
    /\ palette.visible
    /\ \/ key = "esc" /\ palette' = Hidden /\ UNCHANGED themeMsgs
       \/ /\ key = "enter" /\ palette.matches # <<>>
          /\ palette' = Hidden
          /\ themeMsgs' = themeMsgs \cup ({palette.matches[palette.cursor + 1]} \ {"quit"})
       \/ /\ key = "up" /\ palette.cursor > 0
          /\ palette' = [palette EXCEPT !.cursor = @ - 1] /\ UNCHANGED themeMsgs
       \/ /\ key = "down" /\ palette.cursor + 1 < Len(palette.matches)
          /\ palette' = [palette EXCEPT !.cursor = @ + 1] /\ UNCHANGED themeMsgs
       \/ /\ key = "char"
          /\ \E S \in SUBSET DOMAIN Commands : palette' = Typed(Picked(Commands, S))
          /\ UNCHANGED themeMsgs
    /\ UNCHANGED <<procGraphVars, pageVars, dataVars, app, run, session>>

ModalKey ==
    /\ ~palette.visible /\ app.modal
    /\ app' = [app EXCEPT !.modal = FALSE, !.state = app.prevState]
    /\ UNCHANGED <<procGraphVars, pageVars, dataVars, palette, themeMsgs, run, session>>

-----------------------------------------------------------------------------
(* The global keys.                                                        *)

Plain == ~palette.visible /\ ~app.modal

Quit(key) ==
    /\ key = "q"
    /\ run' = "quit"
    /\ UNCHANGED <<procGraphVars, pageVars, dataVars, app, palette, themeMsgs, session>>

OpenOverlay(key) ==
    /\ \/ /\ key = "?"
          /\ app' = [app EXCEPT !.prevState = app.state, !.state = "Help", !.modal = TRUE]
          /\ UNCHANGED palette
       \/ /\ key = ":"
          /\ app' = [app EXCEPT !.state = "CommandPalette"]
          /\ palette' = [visible |-> TRUE, cursor |-> 0, matches |-> Commands]
    /\ UNCHANGED <<procGraphVars, pageVars, dataVars, themeMsgs, run, session>>

Esc(key) ==
    /\ key = "esc" /\ app.state = "Detail"
    /\ app' = [app EXCEPT !.state = "Dashboard"]
    /\ UNCHANGED <<procGraphVars, pageVars, dataVars, palette, themeMsgs, run, session>>

CycleTheme(key) ==
    /\ key = "T"
    /\ LET idx == (app.themeIdx + 1) % Len(Themes)
       IN ApplyTheme(Themes[idx + 1], idx)
    /\ UNCHANGED themeMsgs

\* Mutation: the tab that is left keeps the focus.
FocusTab_NoBlur(i) ==
    /\ app' = [app EXCEPT !.active = i]
    /\ tbl' = [tbl EXCEPT !.focused = @ \/ Tabs[i] = "table"]

\* blurAll, and Focus of the tab chosen.
FocusTab(i) ==
    /\ app' = [app EXCEPT !.active = i]
    /\ tbl' = [tbl EXCEPT !.focused = (Tabs[i] = "table")]

SwitchTab(key) ==
    /\ \/ key = "tab" /\ FocusTab((app.active % Len(Tabs)) + 1)
       \/ key = "shift+tab" /\ FocusTab(((app.active + Len(Tabs) - 2) % Len(Tabs)) + 1)
       \/ \E i \in DOMAIN Tabs : key = Digits[i] /\ FocusTab(i)
    /\ UNCHANGED <<procGraphVars, layout, detail, dataVars, palette, themeMsgs, run, session>>

\* SelectedContainer of the active view: none on tabs without a table.
Selected ==
    IF Tabs[app.active] = "table" /\ tbl.visible # <<>> THEN {SelectedRow(tbl)} ELSE {}

\* Enter on a selected row: NavDetailMsg.
NavDetail(key) ==
    /\ key = "enter" /\ app.state = "Dashboard"
    /\ \E c \in Selected : detail' = SetContainer(detail, c)
    /\ app' = [app EXCEPT !.prevState = app.state, !.state = "Detail"]
    /\ UNCHANGED <<procGraphVars, layout, tbl, dataVars, palette, themeMsgs, run, session>>

GlobalKeys == {"q", "?", ":", "esc", "T", "tab", "shift+tab"} \cup Range(Digits)

-----------------------------------------------------------------------------
(* Keys for the view.                                                      *)

Delegated(key) ==
    key \notin GlobalKeys /\ ~(key = "enter" /\ app.state = "Dashboard" /\ Selected # {})

DetailKey(key) ==
    /\ Delegated(key) /\ app.state = "Detail"
    /\ detail' = UpdateDetail(detail, key)
    /\ UNCHANGED <<procGraphVars, layout, tbl, dataVars, app, palette, themeMsgs, run, session>>

OnTab(tab) == app.state # "Detail" /\ Tabs[app.active] = tab

TableKey(key) ==
    /\ Delegated(key) /\ OnTab("table")
    /\ IF key = "S" /\ ~tbl.search /\ tbl.focused /\ SortPrevPanics(tbl)
       THEN run' = "panicked" /\ UNCHANGED tbl
       ELSE /\ \E query \in SUBSET Containers :
                  /\ (key \notin {"char"} => query = tbl.filter)
                  /\ tbl' = UpdateView(tbl, key, query)
            /\ UNCHANGED run
    /\ UNCHANGED <<procGraphVars, layout, detail, dataVars, app, palette, themeMsgs, session>>

ProcGraphKey(key) ==
    /\ Delegated(key) /\ OnTab("procgraph")
    /\ \/ key = "up" /\ NavUp
       \/ key = "down" /\ NavDown
       \/ key = "g" /\ NavTop
       \/ key = "G" /\ NavBottom
       \/ key \in {"left", "right"} /\ SwitchPanel
    /\ UNCHANGED <<pageVars, dataVars, app, palette, themeMsgs, run, session>>

\* handleKey: overlays, then global keys, then the view.
HandleKey(key) ==
    /\ Ready
    /\ \/ PaletteKey(key)
       \/ ModalKey
       \/ Plain /\ Quit(key)
       \/ Plain /\ OpenOverlay(key)
       \/ Plain /\ Esc(key)
       \/ Plain /\ CycleTheme(key)
       \/ Plain /\ SwitchTab(key)
       \/ Plain /\ NavDetail(key)
       \/ Plain /\ DetailKey(key)
       \/ Plain /\ TableKey(key)
       \/ Plain /\ ProcGraphKey(key)

Next ==
    \/ Collect
    \/ \E batch \in session.batches, events \in session.events, elapsed \in session.elapsed :
            DataMsg(batch, events, elapsed)
    \/ \E h \in session.heights : WindowSizeMsg(h)
    \/ \E t \in themeMsgs : ThemeChangedMsg(t)
    \/ View
    \/ \E key \in session.keys : HandleKey(key)

Spec == Init /\ [][Next]_vars

-----------------------------------------------------------------------------
(* Properties.                                                             *)

\* The types of the whole state.
TypeOK ==
    /\ ProcGraphTypeOK /\ ViewsTypeOK
    /\ app.state \in AppStates /\ app.prevState \in AppStates
    /\ app.active \in DOMAIN Tabs /\ app.modal \in BOOLEAN
    /\ app.theme \in Range(Themes) /\ app.themeIdx \in 0 .. Len(Themes) - 1
    /\ palette.visible \in BOOLEAN /\ palette.cursor \in Nat
    /\ palette.matches \in Seq(Range(Commands))
    /\ themeMsgs \subseteq Range(Themes)
    /\ run \in {"running", "quit", "panicked"}

\* Every index the interface holds into a list that changes under it is valid:
\* the selections of the process view (SelectionInRange), the table's cursor
\* (CursorInRange) and its list of visible rows (VisibleExact).
IndicesCurrent == SelectionInRange /\ CursorInRange /\ VisibleExact

\* At most one overlay is open, the help state is that of the modal, closing it
\* never leads back into it, and the palette's Enter, which indexes the matches
\* with its cursor, finds one there whatever was typed.
OverlaysExclusive ==
    /\ app.modal = (app.state = "Help")
    /\ app.prevState # "Help"
    /\ palette.visible => app.state = "CommandPalette"
    /\ palette.visible /\ palette.matches # <<>> => palette.cursor < Len(palette.matches)

\* The table takes keys exactly while its tab is the active one, through every
\* way of switching tabs (blurAll and Focus).
FocusFollowsTab == tbl.focused = (Tabs[app.active] = "table")

\* The keyboard has one owner, whatever sequence of keys led here: one overlay,
\* or the view of the active tab.
KeyboardHasOneOwner == OverlaysExclusive /\ FocusFollowsTab

\* The detail page, also behind the help, has a container, and its sparklines
\* and events are of that container alone, although batches reach it all the
\* time, before it is first opened and while another container is chosen.
DetailOfOne ==
    /\ (app.state = "Detail" \/ (app.modal /\ app.prevState = "Detail")) =>
            detail.container # NoContainer
    /\ detail.container # NoContainer =>
            detail.hist \cup detail.events \subseteq {detail.container}

\* A drawing that View would return again is that of the current state: no key,
\* batch, resize or theme changes what a table or the page shows without
\* dropping it.
DrawnIsCurrent ==
    /\ Tabs[app.active] = "table" /\ tbl.drawn # NoDrawing =>
            tbl.drawn = DrawTable(tbl, app.theme)
    /\ detail.drawn # NoDrawing => detail.drawn = DrawDetail(detail, app.theme)
=============================================================================
