----------------------------- MODULE MCAppSort -----------------------------
(***************************************************************************)
(* Instances of AppSort for TLC.                                           *)
(***************************************************************************)
EXTENDS AppSort

NoTables == {}

\* No inverse kinematics failure, and a failure of any one cell.
GeometryAlwaysValid == {{}}
GeometryMayFail == {{}} \cup {{c} : c \in Cells}

\* One cell a tray, grids that need every sub-step: second class on trays 1
\* and 2, first class on tray 2, and a tray 3 that fills up.
WorkGrids ==
  {g \in FullGrids : \A s \in Slots : g[<<3, s>>] # 1 /\ g[<<2, s>>] # 0}

\* Two cells a tray: each tray in three states that differ in what its sub-step
\* has to do.
PairGrids ==
  {[c \in Cells |-> <<t1, t2, t3>>[c[1]][c[2]]] :
     t1 \in {<<1, 1>>, <<1, 2>>, <<0, 2>>},
     t2 \in {<<1, 2>>, <<2, 2>>, <<0, 1>>},
     t3 \in {<<0, 0>>, <<0, 1>>, <<2, 2>>}}

\* Host tables: a full grid, one without tray 3, one with a single row.
SomeHostTables ==
  {[c \in Cells |-> IF c[1] = 2 THEN 2 ELSE 0],
   [c \in TrayCells(1) \cup TrayCells(2) |-> 1],
   [c \in {<<3, CHOOSE s \in Slots : TRUE>>} |-> 2]}
=============================================================================
