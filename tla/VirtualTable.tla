---------------------------- MODULE VirtualTable ----------------------------
(***************************************************************************)
(* The VirtualTable widget (internal/tui/widgets/table) and the view that  *)
(* wraps it with a search bar and a cached drawing.  The five table tabs   *)
(* (views/cpu, memory, io, network, syscall) are this view with columns of *)
(* their own and an order in which the rows of a batch are put.            *)
(*                                                                         *)
(* A row is a container; all its numbers are its place among the others of *)
(* the batch, 1 for the largest.  A filter is the set of the containers    *)
(* whose rows match it.  Columns are counted from 1, and 0 is unsorted.    *)
(* The drawing is dropped where the code sets dirty.                       *)
(***************************************************************************)
EXTENDS Integers, Sequences, FiniteSets, SequencesExt, Subsequences

CONSTANTS ContainerNames, \* containers in the order of their names
          Heights         \* body heights a window may leave for the table

Containers == Range(ContainerNames)

ASSUME TableAssumption ==
    /\ IsInjective(ContainerNames) /\ ContainerNames # <<>>
    /\ ContainerNames \in Seq(Containers)
    /\ Heights # {} /\ Heights \subseteq Nat \ {0}

VARIABLES layout,       \* which of the five views the table tab is
          tbl           \* the table of that view

NoDrawing == [of |-> "nothing"]

-----------------------------------------------------------------------------
(* The five views: columns, and the order of the rows of a batch.          *)

Numbers(n) == [i \in 1 .. n |-> "number"]

Cpu     == [columns |-> <<"name">> \o Numbers(6), rowsBy |-> "number"]
Memory  == [columns |-> <<"name">> \o Numbers(4) \o <<"unsortable">> \o Numbers(6),
            rowsBy |-> "number"]
Io      == [columns |-> <<"name">> \o Numbers(6), rowsBy |-> "number"]
Network == [columns |-> <<"name">> \o Numbers(5), rowsBy |-> "number"]
Syscall == [columns |-> <<"name", "unsortable", "name">> \o Numbers(6), rowsBy |-> "name"]

\* Cpu and Io differ in what their columns show only, and are equal here.
TableViews == {Cpu, Memory, Io, Network, Syscall}

Columns == layout.columns
Sortable(col) == col \in DOMAIN Columns /\ Columns[col] # "unsortable"

NewTable(height) ==
    [rows |-> <<>>, visible |-> <<>>, cursor |-> 0, offset |-> 0, sortCol |-> 0,
     sortAsc |-> TRUE, filter |-> Containers, focused |-> FALSE, height |-> height,
     search |-> FALSE, drawn |-> NoDrawing]

-----------------------------------------------------------------------------
(* Helpers of the widget.                                                  *)

Rank(c) == CHOOSE i \in DOMAIN ContainerNames : ContainerNames[i] = c

\* SortLess of a kind of column: names ascend, numbers descend.
SortLess(kind, a, b) ==
    IF kind = "name" THEN Rank(a.name) < Rank(b.name) ELSE a.place < b.place

\* sortRows, on the rows that pass the filter: an insertion sort, which leaves
\* rows it does not tell apart as they are.
Order(t, indices) ==
    LET less(i, j) ==
            LET kind == Columns[t.sortCol]
            IN IF t.sortAsc THEN SortLess(kind, t.rows[i], t.rows[j])
                            ELSE SortLess(kind, t.rows[j], t.rows[i])
        before(i, j) ==
            IF Sortable(t.sortCol) THEN less(i, j) \/ (~less(j, i) /\ i < j) ELSE i < j
    IN SortedBy(indices, {p \in indices \X indices : before(p[1], p[2])})

Matching(t) == {i \in DOMAIN t.rows : t.rows[i].name \in t.filter}

Reindex(t) == [t EXCEPT !.visible = Order(t, Matching(t))]

LastRow(t) == IF t.visible = <<>> THEN 0 ELSE Len(t.visible) - 1

ScrollToCursor(t) ==
    LET up == IF t.cursor < t.offset THEN t.cursor ELSE t.offset
    IN [t EXCEPT !.offset = IF t.cursor >= up + t.height THEN t.cursor - t.height + 1 ELSE up]

MoveUp(t, n) ==
    ScrollToCursor([t EXCEPT !.cursor = IF t.cursor < n THEN 0 ELSE t.cursor - n])

MoveDown(t, n) ==
    ScrollToCursor([t EXCEPT !.cursor =
        IF t.cursor + n >= Len(t.visible) THEN LastRow(t) ELSE t.cursor + n])

\* cycleSort(true): the next sortable column, round the table.
SortNext(t) ==
    LET n == Len(Columns)
        after == [i \in 1 .. n |-> ((t.sortCol + i - 1) % n) + 1]
        first == CHOOSE i \in 1 .. n : Sortable(after[i]) /\ \A j \in 1 .. i - 1 : ~Sortable(after[j])
    IN Reindex([t EXCEPT !.sortCol = after[first], !.sortAsc = TRUE])

\* cycleSort(false): the other direction, then the column to the right; there
\* is none to the right of the last one (SortPrevPanics).
SortPrev(t) ==
    IF t.sortAsc THEN Reindex([t EXCEPT !.sortAsc = FALSE])
    ELSE IF Sortable(t.sortCol + 1)
         THEN Reindex([t EXCEPT !.sortCol = @ + 1, !.sortAsc = TRUE])
         ELSE t

SortPrevPanics(t) == ~t.sortAsc /\ t.sortCol = Len(Columns)

SelectedRow(t) == t.rows[t.visible[t.cursor + 1]].name

-----------------------------------------------------------------------------
(* The widget's operations.                                                *)

SetRows(t, rows) ==
    LET u == Reindex([t EXCEPT !.rows = rows])
    IN [u EXCEPT !.cursor = IF u.cursor >= Len(u.visible) THEN LastRow(u) ELSE u.cursor]

SetFilter(t, filter) == Reindex([t EXCEPT !.filter = filter, !.cursor = 0, !.offset = 0])

TableKeys == {"up", "down", "pgup", "pgdown", "g", "G", "s", "S"}

UpdateTable(t, key) ==
    IF ~t.focused THEN t
    ELSE CASE key = "up"     -> MoveUp(t, 1)
           [] key = "down"   -> MoveDown(t, 1)
           [] key = "pgup"   -> MoveUp(t, t.height)
           [] key = "pgdown" -> MoveDown(t, t.height)
           [] key = "g"      -> [t EXCEPT !.cursor = 0, !.offset = 0]
           [] key = "G"      -> ScrollToCursor([t EXCEPT !.cursor = LastRow(t)])
           [] key = "s"      -> SortNext(t)
           [] key = "S"      -> SortPrev(t)
           [] OTHER          -> t

\* What the widget draws: the rows in the window, the cursor if it has the
\* focus, and the arrow of the sorted column.
DrawTable(t, theme) ==
    LET from == t.offset + 1
        to   == IF t.offset + t.height > Len(t.visible) THEN Len(t.visible) ELSE t.offset + t.height
    IN [of |-> "table", lines |-> [i \in from .. to |-> t.rows[t.visible[i]]],
        cursor |-> IF t.focused THEN t.cursor ELSE -1, sortCol |-> t.sortCol,
        sortAsc |-> t.sortAsc, search |-> t.search, theme |-> theme]

-----------------------------------------------------------------------------
(* The view around it.                                                     *)

Dirty(t) == [t EXCEPT !.drawn = NoDrawing]

\* The rows SetData makes of the containers of a batch: the largest first, or by
\* name.
RowsOf(batch) ==
    LET byNumber == [i \in DOMAIN batch |-> [name |-> batch[i], place |-> i]]
        names == SortedBy(DOMAIN batch, {p \in (DOMAIN batch) \X (DOMAIN batch) :
                     SortLess("name", byNumber[p[1]], byNumber[p[2]])})
    IN IF layout.rowsBy = "number" THEN byNumber
       ELSE [k \in DOMAIN batch |-> byNumber[names[k]]]

SetTableData(t, batch) == Dirty(SetRows(t, RowsOf(batch)))

SetTableSize(t, height) == Dirty([t EXCEPT !.height = height])

\* Mutation: what is typed is drawn with the next batch.
UpdateView_NotDirty(t, key, query) ==
    CASE t.search /\ key = "enter" -> Dirty([t EXCEPT !.search = FALSE])
      [] t.search /\ key # "enter" -> SetFilter(t, query)
      [] ~t.search /\ key = "/"    -> Dirty([t EXCEPT !.search = TRUE])
      [] OTHER                     -> Dirty(UpdateTable(t, key))

\* Update of the view; query is what the search bar holds after the key.  (esc
\* does not get here: the app takes it.)
UpdateView(t, key, query) ==
    CASE t.search /\ key = "enter" -> Dirty([t EXCEPT !.search = FALSE])
      [] t.search /\ key # "enter" -> Dirty(SetFilter(t, query))
      [] ~t.search /\ key = "/"    -> Dirty([t EXCEPT !.search = TRUE])
      [] OTHER                     -> Dirty(UpdateTable(t, key))

DrawView(t, theme) ==
    IF t.drawn = NoDrawing THEN [t EXCEPT !.drawn = DrawTable(t, theme)] ELSE t

-----------------------------------------------------------------------------
(* Properties.                                                             *)

TableTypeOK ==
    /\ layout \in TableViews
    /\ tbl.rows \in Seq([name : Containers, place : 1 .. Len(ContainerNames)])
    /\ tbl.visible \in Seq(DOMAIN tbl.rows)
    /\ tbl.cursor \in Nat /\ tbl.offset \in Nat /\ tbl.height \in Heights
    /\ tbl.sortCol \in 0 .. Len(Columns) /\ tbl.sortAsc \in BOOLEAN
    /\ tbl.filter \subseteq Containers
    /\ tbl.focused \in BOOLEAN /\ tbl.search \in BOOLEAN

\* SelectedRow indexes two arrays with the cursor unchecked: it is within both
\* whenever there are rows, after any mix of batches that shrink the table,
\* filters, sorts and moves.
CursorInRange == tbl.visible # <<>> => tbl.cursor < Len(tbl.visible)

\* The table shows every row that passes the filter once, by the column and in
\* the direction of the arrow in the header.
VisibleExact ==
    /\ IsInjective(tbl.visible) /\ Range(tbl.visible) = Matching(tbl)
    /\ Sortable(tbl.sortCol) =>
        \A i \in 1 .. Len(tbl.visible) - 1 :
            LET a == tbl.rows[tbl.visible[i]]
                b == tbl.rows[tbl.visible[i + 1]]
                kind == Columns[tbl.sortCol]
            IN IF tbl.sortAsc THEN ~SortLess(kind, b, a) ELSE ~SortLess(kind, a, b)
=============================================================================
