--------------------------- MODULE MCMatrixModbus ---------------------------
(***************************************************************************)
(* Instances of MatrixModbus for TLC.                                      *)
(***************************************************************************)
EXTENDS MatrixModbus

BothBuilds == {TRUE, FALSE}
NoBadGrids == {}
=============================================================================
