---------------------------- MODULE MatrixModbus ----------------------------
(***************************************************************************)
(* The KEY2 read cycle of app_matrix_modbus.c: header, data packets,       *)
(* header again, then the checks and the commit.  One Poll is one FC03     *)
(* read, or the last one with what follows it.  The vision controller (the *)
(* slave) rewrites its registers between the reads, and the answer to a    *)
(* read that timed out may arrive as the answer to a later one: an FC03    *)
(* answer names no address.  KEY2 is pressed at any time; main() takes the *)
(* press up and polls until the cycle is over.                             *)
(***************************************************************************)
EXTENDS Integers, FiniteSets, Sequences

CONSTANTS
  N,            \* CFG_MATRIX_PACKET_COUNT
  Builds,       \* values of CFG_MATRIX_K2_BYPASS_GATES
  BadGrids,     \* grids the validator rejects
  MaxGrids,     \* bound on the grids the controller publishes
  MaxLate       \* bound on the answers under way on the bus

ASSUME PacketsAssumption == N \in Nat \ {0}
ASSUME BoundsAssumption ==
  /\ Builds \subseteq BOOLEAN
  /\ BadGrids \subseteq Nat
  /\ {MaxGrids, MaxLate} \subseteq Nat

VARIABLES
  bypass,     \* the build: the gates are compiled out
  key2,       \* s_key2_isr_hit
  seen,       \* main() has seen the hit and not yet cleared it
  \* the reader
  phase,      \* s_phase; s_busy is phase # "idle"
  chunk,      \* s_chunk
  snap,       \* s_snap_batch with s_snap_ctr, and s_snap_crc32
  regs,       \* s_matrix_regs, by packet
  readSt,     \* s_read_status
  commitOk,   \* s_last_commit_ok
  table,      \* s_tbl, by packet; NoTable when it has no rows
  since,      \* history: the grid in force when the cycle began
  \* the vision controller and the bus
  hdr,        \* its header registers
  mem,        \* its matrix registers, by packet
  late        \* answers under way, in the order they will arrive

tableVars == <<commitOk, table>>
slave     == <<hdr, mem>>
key       == <<key2, seen>>
reader    == <<phase, chunk, snap, regs, readSt, tableVars, since>>
vars      == <<bypass, key, reader, slave, late>>

Packets == 0..N-1

\* The cells of packet p in grid g; registers full of zeros name tray 0.
CellsOf(p, g) == [packet |-> p, grid |-> g]
Zero          == [packet |-> N, grid |-> 0]
Packet        == {Zero} \cup [packet : Packets, grid : 1..MaxGrids]
Image         == [Packets -> Packet]
NoTable       == [p \in Packets |-> Zero]
Grid(g)       == [p \in Packets |-> CellsOf(p, g)]

\* The CRC32 over the matrix registers, taken to be free of collisions.
Crc32(image) == image
NoCrc        == NoTable

\* The header registers the reader looks at: batch is the batch number and the
\* update counter, count the row count and the tray total.
Header == [ready : BOOLEAN, updating : BOOLEAN, batch : 0..MaxGrids,
           count : BOOLEAN, crc : Image]
ZeroHeader ==
  [ready |-> FALSE, updating |-> FALSE, batch |-> 0, count |-> FALSE, crc |-> NoCrc]

Answer == [kind : {"hdr"}, val : Header] \cup [kind : {"data"}, val : Packet]
Error  == [kind |-> "error"]

TypeOK ==
  /\ bypass \in Builds
  /\ {key2, seen} \subseteq BOOLEAN
  /\ phase \in {"idle", "hdr", "data", "tail"}
  /\ chunk \in 0..N /\ (phase = "data" => chunk \in Packets)
  /\ snap \in [batch : 0..MaxGrids, crc : Image]
  /\ {regs, table} \subseteq Image
  /\ readSt \in {"idle", "reading", "ok", "err"}
  /\ commitOk \in BOOLEAN
  /\ since \in 0..MaxGrids
  /\ hdr \in Header /\ mem \in Image
  /\ late \in Seq(Answer) /\ Len(late) <= MaxLate

Init ==
  /\ bypass \in Builds
  /\ key2 = FALSE /\ seen = FALSE
  /\ phase = "idle" /\ chunk = 0
  /\ snap = [batch |-> 0, crc |-> NoCrc]
  /\ regs = NoTable
  /\ readSt = "idle" /\ commitOk = FALSE /\ table = NoTable /\ since = 0
  /\ hdr = ZeroHeader /\ mem = NoTable /\ late = <<>>

-----------------------------------------------------------------------------
\* The vision controller: it rewrites the packets of its next grid one by one,
\* in any order, and publishes the grid by writing the header.  It may raise
\* its updating flag first, or not.
Rewrites == hdr.batch < MaxGrids

ControllerBegins ==
  /\ Rewrites /\ ~hdr.updating
  /\ hdr' = [hdr EXCEPT !.updating = TRUE]
  /\ UNCHANGED <<bypass, key, mem, reader, late>>

ControllerWrites(p) ==
  /\ Rewrites
  /\ mem' = [mem EXCEPT ![p] = CellsOf(p, hdr.batch + 1)]
  /\ UNCHANGED <<bypass, key, hdr, reader, late>>

ControllerPublishes ==
  /\ Rewrites /\ mem = Grid(hdr.batch + 1)
  /\ hdr' = [ready |-> TRUE, updating |-> FALSE, batch |-> hdr.batch + 1,
             count |-> TRUE, crc |-> Crc32(mem)]
  /\ UNCHANGED <<bypass, key, mem, reader, late>>

Controller ==
  ControllerBegins \/ ControllerPublishes \/ \E p \in Packets : ControllerWrites(p)

-----------------------------------------------------------------------------
(***************************************************************************)
(* One FC03 read, mx_fc03_read.  RxFlush drops the answers that arrived    *)
(* before the request; the first answer after it is taken when it has the  *)
(* length asked for.  An answer carries what the registers held when the   *)
(* request was made.                                                       *)
(***************************************************************************)

Taken(first, ans) == IF first.kind = ans.kind THEN first ELSE Error

Flushed == {SubSeq(late, i, Len(late)) : i \in 1..Len(late) + 1}

\* How the read of a request answered with ans may end: in a timeout, the
\* answer late or lost, in a garbled frame, or with the first answer to come.
Replies(ans) ==
  LET Timeouts(w) == {[res |-> Error, late |-> q] : q \in {w, Append(w, ans)}}
      Arrivals(q) == {[res |-> r, late |-> Tail(q)] : r \in {Error, Taken(Head(q), ans)}}
  IN  {r \in UNION {Timeouts(w) \cup Arrivals(Append(w, ans)) : w \in Flushed} :
         Len(r.late) <= MaxLate}

HeaderAnswer == [kind |-> "hdr", val |-> hdr]
DataAnswer   == [kind |-> "data", val |-> mem[chunk]]

-----------------------------------------------------------------------------
\* The cycle.

\* hdr_gate_check
Gate(h) == h.ready /\ ~h.updating /\ h.count

Passes(res) == res # Error /\ Gate(res.val)

\* Mutant: cells missing or named twice pass.
ValidGridClassOnly(image) == \A p \in Packets : image[p].grid \notin BadGrids

\* AppMatrixRaw_ValidateFullGrid: every cell once, every class known.
ValidGrid(image) ==
  /\ {image[p].packet : p \in Packets} = Packets
  /\ \A p \in Packets : image[p].grid \notin BadGrids

\* mat_cycle_finish
Finish(status) == phase' = "idle" /\ chunk' = 0 /\ readSt' = status

Abort == Finish("err") /\ UNCHANGED tableVars

\* EXTI15_10_IRQHandler, between any two steps of main().
PressKey2 == key2' = TRUE /\ UNCHANGED <<bypass, seen, reader, slave, late>>

\* EXTI_PopKey2 tests the hit,
TestKey2 ==
  /\ phase = "idle" /\ key2 /\ ~seen /\ seen' = TRUE
  /\ UNCHANGED <<bypass, key2, reader, slave, late>>

\* Mutant: the hit is not cleared, and the read starts over for ever.
ClearKey2Forgotten == seen /\ seen' = FALSE /\ UNCHANGED key2

\* then clears it.
ClearKey2 == seen /\ seen' = FALSE /\ key2' = FALSE

\* AppMatrixModbus_Key2Request, after a press; no cycle runs.
Key2Request ==
  /\ phase = "idle" /\ ClearKey2
  /\ phase' = "hdr" /\ chunk' = 0 /\ readSt' = "reading"
  /\ since' = hdr.batch
  /\ UNCHANGED <<bypass, snap, regs, tableVars, slave, late>>

TakeHeader(h) ==
  /\ snap' = [batch |-> h.batch, crc |-> h.crc]
  /\ phase' = "data" /\ chunk' = 0
  /\ UNCHANGED <<readSt, tableVars>>

PollHeader ==
  /\ phase = "hdr"
  /\ UNCHANGED <<bypass, key, regs, since, slave>>
  /\ \E r \in Replies(HeaderAnswer) :
       /\ late' = r.late
       /\ \/ (Passes(r.res) \/ (r.res # Error /\ bypass)) /\ TakeHeader(r.res.val)
          \/ r.res = Error /\ bypass /\ TakeHeader(ZeroHeader)
          \/ ~Passes(r.res) /\ ~bypass /\ Abort /\ UNCHANGED snap

\* Mutant: a failed packet is asked for again.
TakePacketAgain(val) ==
  /\ regs' = [regs EXCEPT ![chunk] = val]
  /\ chunk' = IF val = Zero THEN chunk ELSE chunk + 1
  /\ phase' = IF chunk' >= N THEN "tail" ELSE "data"
  /\ UNCHANGED <<readSt, tableVars>>

\* Mutant: one packet more is asked for.
TakePacketOneMore(val) ==
  /\ regs' = [regs EXCEPT ![chunk] = val]
  /\ chunk' = chunk + 1
  /\ phase' = IF chunk' > N THEN "tail" ELSE "data"
  /\ UNCHANGED <<readSt, tableVars>>

TakePacket(val) ==
  /\ regs' = [regs EXCEPT ![chunk] = val]
  /\ chunk' = chunk + 1
  /\ phase' = IF chunk' >= N THEN "tail" ELSE "data"
  /\ UNCHANGED <<readSt, tableVars>>

PollData ==
  /\ phase = "data"
  /\ UNCHANGED <<bypass, key, snap, since, slave>>
  /\ \E r \in Replies(DataAnswer) :
       /\ late' = r.late
       /\ \/ r.res # Error /\ TakePacket(r.res.val)
          \/ r.res = Error /\ bypass /\ TakePacket(Zero)
          \/ r.res = Error /\ ~bypass /\ Abort /\ UNCHANGED regs

\* The second header shows the batch of the first and passes the gate.
TailAgrees(res) == Passes(res) /\ res.val.batch = snap.batch

\* Mutant: the CRC32 of the registers is not compared.
CrcAgreesAlways == TRUE

CrcAgrees == bypass \/ Crc32(regs) = snap.crc

\* The table is rebuilt from the registers, or the grid rejected.
Rebuild ==
  \/ ValidGrid(regs) /\ table' = regs /\ commitOk' = TRUE /\ Finish("ok")
  \/ ~ValidGrid(regs) /\ table' = table /\ commitOk' = FALSE /\ Finish("err")

PollTail ==
  /\ phase = "tail"
  /\ UNCHANGED <<bypass, key, snap, regs, since, slave>>
  /\ \E r \in Replies(HeaderAnswer) :
       /\ late' = r.late
       /\ \/ /\ bypass \/ TailAgrees(r.res)
             /\ \/ CrcAgrees /\ Rebuild
                \/ ~CrcAgrees /\ Finish("err") /\ UNCHANGED tableVars
          \/ ~bypass /\ ~TailAgrees(r.res) /\ Abort

Poll == PollHeader \/ PollData \/ PollTail

\* AppMatrix_Clear by the text link.
Cleared ==
  /\ table' = NoTable /\ commitOk' = FALSE
  /\ UNCHANGED <<bypass, key, phase, chunk, snap, regs, readSt, since, slave, late>>

\* main() takes up a press and polls without a pause until the cycle is over.
Main == TestKey2 \/ Key2Request \/ Poll

Next == Main \/ PressKey2 \/ Controller \/ Cleared

Spec == Init /\ [][Next]_vars
FairSpec == Spec /\ WF_vars(Main)

-----------------------------------------------------------------------------
(***************************************************************************)
(* Properties.                                                             *)
(***************************************************************************)

\* The publications the table is made of.
Grids == {table[p].grid : p \in Packets} \ {0}

Promise == INSTANCE MatrixRead WITH
  strict <- ~bypass, published <- hdr.batch, status <- readSt, grid <- Grids,
  trusted <- commitOk

\* The cycle keeps the promise of MatrixRead.  In the strict build, whatever the
\* controller rewrites between two reads, with or without raising its flag, and
\* whichever late answer is taken for another, a read commits one grid that was
\* in force during it, or fails and leaves the table alone.  It takes N + 2
\* answers under way, all of them late, to be fed an older grid whole.
KeepsPromise == Promise!Spec

\* A cycle ends, in the bypass build too, so main() leaves its KEY2 loop.
ReadEnds == phase # "idle" ~> phase = "idle"

\* A press is followed by a read that begins after it, also one made during a
\* read or while main() is clearing the hit.
PressIsServed == key2 ~> (phase = "hdr" /\ ~key2)

\* The table always has every cell, even when the BYPASS build commits the
\* answers to other requests: the validator is all that is left of the gates.
TableWhole ==
  Grids # {} => \A p \in Packets : \E q \in Packets : table[q].packet = p
=============================================================================
