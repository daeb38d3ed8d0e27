----------------------------- MODULE MatrixLink -----------------------------
(***************************************************************************)
(* What the text link promises: the table is empty or made of rows that    *)
(* were read, no two of them for one cell, with a checksum that was read;  *)
(* and it is trusted only then.  It does not promise that the rows came in *)
(* one frame: a sum of bytes cannot tell.                                  *)
(***************************************************************************)

CONSTANTS
  Cell(_),  \* the cell a row is for
  Sum(_),   \* the checksum of rows
  Odd,      \* rows that parts of different lines may read as
  OddSums   \* checksums that such parts may read as

VARIABLES
  offered,  \* frames of which a line was read since a host came or went
  table,    \* rows of the table
  trusted   \* the table may be sorted by

vars == <<offered, table, trusted>>

\* The rows agree with what was read.
Agreed(rows) ==
  /\ \A i \in DOMAIN rows :
       rows[i] \in Odd \/ \E f \in offered : \E k \in DOMAIN f.rows : rows[i] = f.rows[k]
  /\ \A i, j \in DOMAIN rows : Cell(rows[i]) = Cell(rows[j]) => i = j
  /\ Sum(rows) \in OddSums \/ \E f \in offered : Sum(rows) = Sum(f.rows)

Init == offered = {} /\ table = <<>> /\ trusted = FALSE

Commits   == trusted' = TRUE /\ table' # <<>> /\ Agreed(table)'
Empties   == table' = <<>> /\ trusted' = FALSE
Distrusts == table' = table /\ trusted' = FALSE

\* The hosts go on sending.
Hear ==
  /\ offered \subseteq offered'
  /\ UNCHANGED <<table, trusted>> \/ Empties \/ Distrusts \/ Commits

\* A host comes or goes.
Reconnect == offered' = {} /\ Empties

Next == Hear \/ Reconnect

Spec == Init /\ [][Next]_vars
=============================================================================
