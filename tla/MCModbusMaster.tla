--------------------------- MODULE MCModbusMaster ---------------------------
(***************************************************************************)
(* Requests for TLC: a servo read and write, the lamp that is not waited   *)
(* for, and a raw frame too short to be sent.                              *)
(***************************************************************************)
EXTENDS ModbusMaster

Request(s, f, waits, ok) == [slave |-> s, fc |-> f, waits |-> waits, wellFormed |-> ok]

Callers == {Request("servo", "read", TRUE, TRUE), Request("servo", "write", TRUE, TRUE),
            Request("lamp", "write", FALSE, TRUE), Request("servo", "write", TRUE, FALSE)}
=============================================================================
