------------------------------- MODULE RxRing -------------------------------
(***************************************************************************)
(* The receive ring of a serial port (bsp_uart.c, bsp_uart3.c) between the *)
(* receive interrupt and the transaction that reads it: flush, send, then  *)
(* the loop of master_recv_adu.  The interrupt comes between any two       *)
(* accesses of the reader to the indices and the cells.                    *)
(***************************************************************************)
EXTENDS Integers, Sequences

CONSTANTS
  N,         \* URX_RB_SZ, U3_URX_RB_SZ
  Byte,      \* what a byte may be
  NoByte,    \* the data register is empty
  Ports,     \* "motor": USART2, deaf while it sends; "matrix": USART3
  Capacity,  \* rx_cap of master_recv_adu
  MaxCame,   \* bound on the bytes received from one flush to the next
  MaxLost    \* bound on the bytes dropped

ASSUME RingAssumption == N \in Nat /\ N > 1 /\ NoByte \notin Byte
ASSUME BoundsAssumption ==
  Ports \subseteq {"motor", "matrix"} /\ {Capacity, MaxCame, MaxLost} \subseteq Nat

VARIABLES
  port,
  rb, head, tail,  \* s_urx_rb, s_urx_head, s_urx_tail
  lost,            \* s_rx_overflow_cnt
  deaf,            \* s_rs485_tx_active
  dr,              \* the data register with its RXNE flag
  pc,              \* where the transaction is
  h, byte,         \* locals of ReadByte
  got,             \* history: bytes ReadByte returned since the flush
  came,            \* history: bytes offered to the ring since the flush
  gap              \* history: one of those was dropped

ring == <<rb, head, tail, lost>>
hist == <<got, came, gap>>
vars == <<port, ring, deaf, dr, pc, h, byte, hist>>

Cells == 0..N - 1

TypeOK ==
  /\ port \in Ports
  /\ rb \in [Cells -> Byte \cup {NoByte}] /\ head \in Cells /\ tail \in Cells
  /\ lost \in 0..MaxLost
  /\ deaf \in BOOLEAN
  /\ dr \in Byte \cup {NoByte}
  /\ pc \in {"idle", "drain", "send", "sending", "recv", "test", "store", "wait"}
  /\ h \in Cells /\ byte \in Byte \cup {NoByte}
  /\ got \in Seq(Byte) /\ came \in Seq(Byte) /\ Len(came) <= MaxCame
  /\ gap \in BOOLEAN

\* BSP_Uart_HW_Init
Init ==
  /\ port \in Ports
  /\ rb = [i \in Cells |-> NoByte] /\ head = 0 /\ tail = 0 /\ lost = 0
  /\ deaf = FALSE /\ dr = NoByte
  /\ pc = "idle" /\ h = 0 /\ byte = NoByte
  /\ got = <<>> /\ came = <<>> /\ gap = FALSE

-----------------------------------------------------------------------------
\* Mutant: the index runs on to the cell behind the ring.
NextIndexNoMask(i) == i + 1

\* The mask of a ring whose size is a power of two.
NextIndex(i) == (i + 1) % N

\* Mutant: the ring is filled to its last cell, and so looks empty.
FullNever == FALSE

\* One cell stays free, to tell a full ring from an empty one.
Full == NextIndex(head) = tail

-----------------------------------------------------------------------------
\* The line: a byte arrives in the data register; if the last one is still
\* there it is lost to an overrun.
Arrives(b) ==
  /\ dr = NoByte /\ dr' = b
  /\ UNCHANGED <<port, ring, deaf, pc, h, byte, hist>>

\* The byte goes into the ring, or is dropped and counted.
Store(b) ==
  /\ Len(came) < MaxCame /\ came' = Append(came, b)
  /\ \/ /\ ~Full
        /\ rb' = [rb EXCEPT ![head] = b] /\ head' = NextIndex(head)
        /\ UNCHANGED <<lost, gap>>
     \/ /\ Full /\ lost < MaxLost
        /\ lost' = lost + 1 /\ gap' = TRUE
        /\ UNCHANGED <<rb, head>>
  /\ UNCHANGED <<tail, got>>

\* BSP_USART1_Rx_IrqService, BSP_USART3_Rx_IrqService
RxIrqService ==
  /\ dr # NoByte /\ dr' = NoByte
  /\ \/ deaf /\ UNCHANGED <<ring, hist>>
     \/ ~deaf /\ Store(dr)
  /\ UNCHANGED <<port, deaf, pc, h, byte>>

-----------------------------------------------------------------------------
\* The transaction: flush, send, receive.
Goto(l) == pc' = l

\* Mutant: the read index stays where it was.
FlushedNot == tail

\* The read index moves up to the write index.
Flushed == head

\* BSP_USART1_RxFlush up to the data register.
RxFlush ==
  /\ pc = "idle" /\ Goto("drain")
  /\ tail' = Flushed
  /\ got' = <<>> /\ came' = <<>> /\ gap' = FALSE
  /\ UNCHANGED <<port, rb, head, lost, deaf, dr, h, byte>>

\* The loop on RXNE, which the interrupt may be faster than.
Drain ==
  /\ pc = "drain" /\ Goto("send")
  /\ dr' = NoByte
  /\ UNCHANGED <<port, ring, deaf, h, byte, hist>>

\* RS485_EnterTx; the matrix port goes on listening.
EnterTx ==
  /\ pc = "send" /\ Goto("sending")
  /\ deaf' = (port = "motor")
  /\ UNCHANGED <<port, ring, dr, h, byte, hist>>

\* The request is out: RS485_EnterRx.
EnterRx ==
  /\ pc = "sending" /\ Goto("recv")
  /\ deaf' = FALSE
  /\ UNCHANGED <<port, ring, dr, h, byte, hist>>

\* BSP_USART1_ReadByte: the write index is read once,
LoadHead ==
  /\ pc = "recv" /\ Goto("test")
  /\ h' = head
  /\ UNCHANGED <<port, ring, deaf, dr, byte, hist>>

\* then the ring was empty, or the byte is copied,
TestEmpty ==
  /\ pc = "test" /\ h = tail /\ Goto("wait")
  /\ UNCHANGED <<port, ring, deaf, dr, h, byte, hist>>

CopyByte ==
  /\ pc = "test" /\ h # tail /\ Goto("store")
  /\ byte' = rb[tail]
  /\ UNCHANGED <<port, ring, deaf, dr, h, hist>>

\* and its cell given back to the interrupt.  The caller's buffer holds
\* Capacity bytes; with one more it gives up.
FreeCell ==
  /\ pc = "store"
  /\ tail' = NextIndex(tail)
  /\ got' = Append(got, byte)
  /\ Goto(IF Len(got) >= Capacity THEN "idle" ELSE "recv")
  /\ UNCHANGED <<port, rb, head, lost, deaf, dr, h, byte, came, gap>>

\* master_recv_adu between two reads: the line was silent for long enough, or
\* the time is over, or it looks again.
Wait ==
  /\ pc = "wait"
  /\ Goto("recv") \/ Goto("idle")
  /\ UNCHANGED <<port, ring, deaf, dr, h, byte, hist>>

ReadByte == LoadHead \/ TestEmpty \/ CopyByte \/ FreeCell

Next ==
  \/ RxIrqService \/ \E b \in Byte : Arrives(b)
  \/ RxFlush \/ Drain \/ EnterTx \/ EnterRx \/ ReadByte \/ Wait

Spec == Init /\ [][Next]_vars

-----------------------------------------------------------------------------
(***************************************************************************)
(* Properties.                                                             *)
(***************************************************************************)

\* The bytes between the indices, in the order they will be read.
Used    == IF tail <= head THEN head - tail ELSE head + N - tail
Cell(i) == IF tail + i < N THEN tail + i ELSE tail + i - N
Waiting == [i \in 1..Used |-> rb[Cell(i - 1)]]

Queue == INSTANCE ByteQueue WITH Room <- N - 1, queue <- Waiting

\* The ring without a lock is a bounded queue, whatever accesses the interrupt
\* comes between: no byte is overwritten before it is read, read twice or out
\* of order, and the overflow counter counts every byte that is dropped.
IsByteQueue == Queue!Spec

\* An answer is made of the bytes that came since its request was prepared,
\* with nothing of an earlier answer in front and none missing, unless the
\* ring overflowed.
AnswerIsWhatCame == ~gap => got \o Waiting = came
=============================================================================
