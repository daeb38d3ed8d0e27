------------------------------ MODULE MCRxRing ------------------------------
(***************************************************************************)
(* Instances of RxRing for TLC.                                            *)
(***************************************************************************)
EXTENDS RxRing

CONSTANTS a, b

Bytes     == {a, b}
BothPorts == {"motor", "matrix"}
=============================================================================
