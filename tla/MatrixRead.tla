----------------------------- MODULE MatrixRead -----------------------------
(***************************************************************************)
(* What a KEY2 read of the vision controller promises: it ends in the      *)
(* table holding one grid the controller had in force during the read, or  *)
(* in an error that leaves the table as it was.  A grid is known by the    *)
(* number of its publication.  A build that is not strict does not promise *)
(* which grids the table is made of.                                       *)
(***************************************************************************)
EXTENDS Integers

VARIABLES
  strict,     \* the build checks what it has read
  published,  \* number of the grid in force at the controller
  since,      \* the grid in force when the read began
  status,     \* "idle", "reading", "ok" or "err"
  grid,       \* the publications the table is made of: none, or one
  trusted     \* the table may be sorted by

vars == <<strict, published, since, status, grid, trusted>>

Init ==
  /\ strict \in BOOLEAN
  /\ published = 0 /\ since = 0
  /\ status = "idle" /\ grid = {} /\ trusted = FALSE

Publish ==
  /\ published' = published + 1
  /\ UNCHANGED <<strict, since, status, grid, trusted>>

Begin ==
  /\ status # "reading"
  /\ status' = "reading" /\ since' = published
  /\ UNCHANGED <<strict, published, grid, trusted>>

Commit ==
  /\ status = "reading"
  /\ strict => \E g \in since..published : grid' = {g}
  /\ status' = "ok" /\ trusted' = TRUE
  /\ UNCHANGED <<strict, published, since>>

\* A read that fails never makes a table trusted.
Fail ==
  /\ status = "reading"
  /\ status' = "err" /\ trusted' \in {trusted, FALSE}
  /\ UNCHANGED <<strict, published, since, grid>>

Clear ==
  /\ grid' = {} /\ trusted' = FALSE
  /\ UNCHANGED <<strict, published, since, status>>

Next == Publish \/ Begin \/ Commit \/ Fail \/ Clear

Spec == Init /\ [][Next]_vars
=============================================================================
