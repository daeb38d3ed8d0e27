------------------------------ MODULE ByteQueue ------------------------------
(***************************************************************************)
(* What a serial receive ring promises its reader: a bounded queue that    *)
(* hands out the bytes in the order they came, loses only the bytes that   *)
(* come while it is full, and counts those.                                *)
(***************************************************************************)
EXTENDS Naturals, Sequences

CONSTANTS
  Byte,   \* what a byte may be
  Room    \* bytes the queue holds

VARIABLES
  queue,  \* received and not read
  got,    \* read since the last flush
  came,   \* received since the last flush
  lost    \* number of bytes dropped so far

vars == <<queue, got, came, lost>>

Init == queue = <<>> /\ got = <<>> /\ came = <<>> /\ lost = 0

Take(b) ==
  /\ Len(queue) < Room
  /\ queue' = Append(queue, b) /\ came' = Append(came, b)
  /\ UNCHANGED <<got, lost>>

Drop(b) ==
  /\ Len(queue) = Room
  /\ came' = Append(came, b) /\ lost' = lost + 1
  /\ UNCHANGED <<queue, got>>

Read ==
  /\ queue # <<>>
  /\ got' = Append(got, Head(queue)) /\ queue' = Tail(queue)
  /\ UNCHANGED <<came, lost>>

Flush == queue' = <<>> /\ got' = <<>> /\ came' = <<>> /\ UNCHANGED lost

Next == Read \/ Flush \/ \E b \in Byte : Take(b) \/ Drop(b)

Spec == Init /\ [][Next]_vars
=============================================================================
