------------------------------- MODULE Matrix -------------------------------
(***************************************************************************)
(* The matrix table of app_matrix.c and the questions the sorter asks of   *)
(* it.  A committed table is a function from the cells it has a row for to *)
(* the class of the seedling in the cell; a full grid has a row for every  *)
(* cell, a sparse grid (host text frames only) for some of them.  Rows     *)
(* come in the order the vision controller sends them, so "the first row   *)
(* that ..." is modelled as any row that ...; coordinates are abstracted   *)
(* to the set of cells whose inverse kinematics failed (geom_ok = 0).      *)
(***************************************************************************)
EXTENDS Naturals, FiniteSets

CONSTANT Slots      \* positions of a tray (5 x 10 in the firmware)

ASSUME SlotsAssumption == IsFiniteSet(Slots) /\ Slots # {}

Trays == 1..3
Class == 0..2       \* 0 empty, 1 first class, 2 second class
Mixed == 44         \* CheckTrayFullOrEmpty: not one class, or rows missing

Cells        == Trays \X Slots
TrayCells(k) == {k} \X Slots

FullGrids == [Cells -> Class]
Tables    == UNION {[S -> Class] : S \in SUBSET Cells}
NoRows    == [c \in {} |-> 0]

\* AppMatrix_CheckTrayFullOrEmpty: the single class of a complete tray.
CheckTrayFullOrEmpty(t, k) ==
  IF TrayCells(k) \subseteq DOMAIN t /\ \E x \in Class : \A c \in TrayCells(k) : t[c] = x
  THEN CHOOSE x \in Class : \A c \in TrayCells(k) : t[c] = x
  ELSE Mixed

\* AppMatrix_AllThreeTraysPresent: every tray has at least one row.
AllThreeTraysPresent(t) == \A k \in Trays : \E c \in DOMAIN t : c[1] = k

\* The rows of class x on the trays ks.
CellsOf(t, x, ks) == {c \in DOMAIN t : c[1] \in ks /\ t[c] = x}

\* The rows AppMatrix_FindFirstRowByTrayClass may return (class x on tray k,
\* geometry valid); with x = 0, those of AppMatrix_FindFirstEmptyOnTray.
RowsWithGeom(t, bad, k, x) == CellsOf(t, x, {k}) \ bad

\* AppMatrix_TrayHasClassWithGeom
TrayHasClassWithGeom(t, bad, k, x) == RowsWithGeom(t, bad, k, x) # {}

\* Mutants: the source keeps its seedling; the table is not written at all.
ApplyTransferKeepsSource(t, src, dst) == [t EXCEPT ![dst] = t[src]]

ApplyTransferForgotten(t, src, dst) == t

\* AppMatrix_ApplyTransfer: the source becomes empty, the class moves.
ApplyTransfer(t, src, dst) == [t EXCEPT ![src] = 0, ![dst] = t[src]]
=============================================================================
