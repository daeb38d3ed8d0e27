----------------------------- MODULE MCTextLink -----------------------------
(***************************************************************************)
(* Instances of TextLink for TLC: trays of two cells.                      *)
(***************************************************************************)
EXTENDS TextLink, TLC

\* The digits of cell, class and two of confidence, and 500 for the rest of a row.
T(cell, class, conf) ==
  [cell |-> cell, class |-> class, conf |-> conf, csv |-> TRUE,
   sum |-> 500 + cell + class + (conf \div 10) + (conf % 10)]
Frame(rows)          == [rows |-> rows, count |-> Len(rows), total |-> TRUE]

\* Two grids whose first rows have the same sum.  The second has fewer seedlings,
\* higher confidence and a cell that does not exist; the first row of the one with
\* the second row of the other is a grid with all seedlings, between them in
\* confidence, that no host sent.
TwoFrames ==
  {Frame(<<T(1, 1, 80), T(2, 1, 90)>>), Frame(<<T(1, 0, 90), T(3, 1, 99)>>)}

\* A row of a frame, one that cannot be parsed; the checksum of the first.
OddRows == {T(2, 1, 90), [T(2, 0, 10) EXCEPT !.csv = FALSE]}
OneSum  == {Checksum(<<T(2, 1, 90)>>)}

\* The build as it is, and the one that takes the best of two and shuts the gate.
TwoBuilds == {[window |-> 1, keepOpen |-> TRUE], [window |-> 2, keepOpen |-> FALSE]}
OneShut   == {[window |-> 1, keepOpen |-> FALSE]}

Clients == Permutations(Conns)
=============================================================================
