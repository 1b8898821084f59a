------------------------------ MODULE ListView ------------------------------
(***************************************************************************)
(* The table every list of the user interface is shown in                  *)
(* (ui/components/basic/table): the rows as they were loaded, the order    *)
(* and the filter put over them, and the cursor on what is then visible.   *)
(*                                                                         *)
(* A row is a record with a name and a field for each sortable column; a   *)
(* filter is the set of the names that contain what was typed.             *)
(***************************************************************************)
EXTENDS Integers, Retain

CONSTANTS
  FileNames,   \* the names rows may have, naturals
  Needles,     \* the filters that are typed: sets of names
  Columns      \* the sequence of the fields of a row that have a sortable column

ASSUME NamesAreOrdered == FileNames \subseteq Nat
ASSUME ColumnsAreFields == Columns \in Seq({"name", "age"})

VARIABLES
  items,       \* the rows in load order
  view,        \* [col, asc, needle, typing]: the order, the filter, whether it is being typed
  cursor,      \* the visible row the cursor is on, from 0; -1 if there was none
  loading

viewOnly == <<items, view, cursor, loading>>

NoNeedle == FileNames

ListViewInit ==
  /\ items = <<>>
  /\ view = [col |-> 0, asc |-> TRUE, needle |-> NoNeedle, typing |-> FALSE]
  /\ cursor = 0
  /\ loading = TRUE

(* displayRowsLocked: filtered, then sorted; the sort is stable. *)
Matching(rows, v) == Retain(rows, {i \in DOMAIN rows : rows[i].name \in v.needle})

Key(row, v) == row[Columns[v.col]]

Precedes(a, b, v) == IF v.asc THEN Key(a, v) < Key(b, v) ELSE Key(a, v) > Key(b, v)

UpTo(rows, v, i) ==
  {j \in DOMAIN rows : \/ Precedes(rows[j], rows[i], v)
                       \/ Key(rows[j], v) = Key(rows[i], v) /\ j <= i}

InOrder(rows, v) ==
  [k \in DOMAIN rows |->
     rows[CHOOSE i \in DOMAIN rows : Cardinality(UpTo(rows, v, i)) = k]]

Visible(rows, v) ==
  IF v.col = 0 THEN Matching(rows, v) ELSE InOrder(Matching(rows, v), v)

Shown == Visible(items, view)

(* SelectedRow: the sequence of the row under the cursor, empty if none is.  *)
SelectedRow ==
  IF loading \/ cursor + 1 \notin DOMAIN Shown THEN <<>> ELSE <<Shown[cursor + 1]>>

(* The library's SetRows: only a cursor past the end is moved. *)
Clamped(c, rows) == IF c > Len(rows) - 1 THEN Len(rows) - 1 ELSE c

(* refreshDisplayLocked *)
Display(rows, v, resetCursor) ==
  /\ items' = rows
  /\ view' = v
  /\ cursor' = LET n == Visible(rows, v)
               IN  IF resetCursor THEN Clamped(0, n) ELSE Clamped(cursor, n)

Keyed == ~loading /\ ~view.typing

(* The movement keys, pressed as often as it takes. *)
MoveCursor(c) ==
  /\ Keyed
  /\ c < Len(Shown)
  /\ cursor' = c
  /\ UNCHANGED <<items, view, loading>>

(* cycleSortColumnLocked: from load order through the columns and back. *)
CycleSort ==
  /\ Keyed
  /\ IF view.col = Len(Columns)
     THEN Display(items, [view EXCEPT !.col = 0, !.asc = TRUE], FALSE)
     ELSE Display(items, [view EXCEPT !.col = @ + 1, !.asc = TRUE], TRUE)
  /\ UNCHANGED loading

(* toggleSortDirectionLocked *)
ToggleOrder ==
  /\ Keyed /\ Columns # <<>>
  /\ Display(items, IF view.col = 0 THEN [view EXCEPT !.col = 1, !.asc = FALSE]
                                    ELSE [view EXCEPT !.asc = ~@], TRUE)
  /\ UNCHANGED loading

OpenFilter ==
  /\ Keyed
  /\ view' = [view EXCEPT !.typing = TRUE]
  /\ UNCHANGED <<items, cursor, loading>>

(* handleFilterKey *)
TypeFilter(needle) ==
  /\ ~loading /\ view.typing
  /\ Display(items, [view EXCEPT !.needle = needle], FALSE)
  /\ UNCHANGED loading

AcceptFilter ==
  /\ ~loading /\ view.typing
  /\ view' = [view EXCEPT !.typing = FALSE]
  /\ UNCHANGED <<items, cursor, loading>>

(* clearFilterLocked *)
ClearFilter ==
  /\ ~loading
  /\ Display(items, [view EXCEPT !.needle = NoNeedle, !.typing = FALSE], FALSE)
  /\ UNCHANGED loading

TableKey ==
  \/ \E c \in 0..Len(items) - 1 : MoveCursor(c)
  \/ CycleSort
  \/ ToggleOrder
  \/ OpenFilter
  \/ \E n \in Needles : TypeFilter(n)
  \/ AcceptFilter
  \/ ClearFilter

(* SetLoading *)
StartLoading == loading' = TRUE /\ UNCHANGED <<items, view, cursor>>

(* SetRows after SetLoading(FALSE): order, filter and cursor are kept. *)
ShowRows(rows) == Display(rows, view, FALSE) /\ loading' = FALSE
=============================================================================
