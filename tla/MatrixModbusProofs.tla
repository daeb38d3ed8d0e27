------------------------- MODULE MatrixModbusProofs -------------------------
(***************************************************************************)
(* Proofs about the KEY2 read cycle, for every number of packets and grids *)
(* and both builds: the types, the table that is always whole, and, when   *)
(* no more than N + 1 answers can be under way, the promise of MatrixRead. *)
(***************************************************************************)
EXTENDS MatrixModbus, SequenceTheorems, TLAPS

-----------------------------------------------------------------------------
\* What a read leaves on the bus and what it returns: its own answer or one
\* that was under way.  A read that returns an answer moves those that stay one
\* place up at least.
LEMMA RepliesShape ==
  ASSUME late \in Seq(Answer), NEW ans \in Answer, NEW r \in Replies(ans)
  PROVE  /\ r.late \in Seq(Answer) /\ Len(r.late) <= MaxLate
         /\ \A i \in 1..Len(r.late) :
              r.late[i] = ans \/ \E j \in i..Len(late) : r.late[i] = late[j]
         /\ r.res # Error =>
              /\ r.res.kind = ans.kind
              /\ r.res = ans \/ \E j \in 1..Len(late) : r.res = late[j]
              /\ \A i \in 1..Len(r.late) :
                   r.late[i] = ans \/ \E j \in i + 1..Len(late) : r.late[i] = late[j]
<1> DEFINE Timeouts(w) == {[res |-> Error, late |-> q] : q \in {w, Append(w, ans)}}
           Arrivals(q) == {[res |-> x, late |-> Tail(q)] : x \in {Error, Taken(Head(q), ans)}}
<1>1. /\ Len(r.late) <= MaxLate
      /\ \E w \in Flushed : r \in Timeouts(w) \/ r \in Arrivals(Append(w, ans))
  BY DEF Replies
<1>2. PICK k \in 1..Len(late) + 1 :
        \/ r \in Timeouts(SubSeq(late, k, Len(late)))
        \/ r \in Arrivals(Append(SubSeq(late, k, Len(late)), ans))
  BY <1>1 DEF Flushed
<1> DEFINE w == SubSeq(late, k, Len(late))
           a == Append(w, ans)
<1>3. Len(late) \in Nat /\ k \in Nat /\ k >= 1 /\ k <= Len(late) + 1
  BY <1>2, LenProperties
<1>4. /\ w \in Seq(Answer) /\ Len(w) = Len(late) + 1 - k
      /\ \A i \in 1..Len(w) : w[i] = late[i + k - 1]
  BY <1>3, SubSeqProperties
<1>5. /\ a \in Seq(Answer) /\ Len(a) = Len(w) + 1
      /\ \A i \in 1..Len(w) : a[i] = w[i]
      /\ a[Len(w) + 1] = ans
  BY <1>4, AppendProperties
<1> HIDE DEF w, a
<1>6. \A i \in 1..Len(w) : i + k - 1 \in i..Len(late) /\ a[i] = late[i + k - 1]
  BY <1>3, <1>4, <1>5
<1>7. CASE r \in Timeouts(w)
  <2>1. r.res = Error /\ (r.late = w \/ r.late = a) BY <1>7 DEF a
  <2>2. \A i \in 1..Len(r.late) :
          r.late[i] = ans \/ \E j \in i..Len(late) : r.late[i] = late[j]
    <3>1. SUFFICES ASSUME NEW i \in 1..Len(r.late), r.late[i] # ans
                   PROVE  \E j \in i..Len(late) : r.late[i] = late[j]
      OBVIOUS
    <3>2. i \in 1..Len(w) /\ r.late[i] = a[i]
      BY <1>3, <1>4, <1>5, <2>1, <3>1
    <3>3. QED BY <1>6, <3>2
  <2>3. QED BY <1>1, <1>4, <1>5, <2>1, <2>2
<1>8. CASE r \in Arrivals(a)
  <2>1. r.late = Tail(a) /\ (r.res = Error \/ r.res = Taken(Head(a), ans)) BY <1>8
  <2>2. a # <<>> BY <1>3, <1>4, <1>5, EmptySeq
  <2>3. /\ Tail(a) \in Seq(Answer) /\ Len(Tail(a)) = Len(a) - 1
        /\ \A i \in 1..Len(Tail(a)) : Tail(a)[i] = a[i + 1]
        /\ Head(a) = a[1]
    BY <1>5, <2>2, HeadTailProperties
  <2>4. \A i \in 1..Len(r.late) :
          r.late[i] = ans \/ \E j \in i + 1..Len(late) : r.late[i] = late[j]
    <3>1. SUFFICES ASSUME NEW i \in 1..Len(r.late), r.late[i] # ans
                   PROVE  \E j \in i + 1..Len(late) : r.late[i] = late[j]
      OBVIOUS
    <3>2. i + 1 \in 1..Len(w) /\ r.late[i] = a[i + 1]
      BY <1>3, <1>4, <1>5, <2>1, <2>3, <3>1
    <3>3. QED BY <1>6, <3>2
  <2>5. \A i \in 1..Len(r.late) : \A j \in i + 1..Len(late) : j \in i..Len(late)
    BY <1>3
  <2>6. ASSUME r.res # Error
        PROVE  /\ r.res.kind = ans.kind
               /\ r.res = ans \/ \E j \in 1..Len(late) : r.res = late[j]
    <3>1. r.res = a[1] /\ r.res.kind = ans.kind BY <2>1, <2>3, <2>6 DEF Taken
    <3>2. CASE Len(w) = 0 BY <1>5, <3>1, <3>2
    <3>3. CASE Len(w) # 0
      <4>1. 1 \in 1..Len(w) BY <1>3, <1>4, <3>3
      <4>2. QED BY <1>6, <3>1, <4>1
    <3>4. QED BY <3>2, <3>3
  <2>7. QED BY <1>1, <2>1, <2>3, <2>4, <2>5, <2>6
<1>9. QED BY <1>2, <1>7, <1>8 DEF w, a

-----------------------------------------------------------------------------
(***************************************************************************)
(* Types, and the table.                                                   *)
(***************************************************************************)

\* The table has every cell, or none.
Whole == table = NoTable \/ {table[p].packet : p \in Packets} = Packets

\* A read is under way while the cycle is.
Busy == readSt = "reading" <=> phase # "idle"

Inv == TypeOK /\ Whole /\ Busy

LEMMA ImageTypes ==
  /\ 0 \in Packets /\ Zero \in Packet /\ NoTable \in Image
  /\ \A g \in 1..MaxGrids : Grid(g) \in Image /\ \A p \in Packets : CellsOf(p, g) \in Packet
  /\ ZeroHeader \in Header
BY PacketsAssumption, BoundsAssumption
DEF Packets, Zero, Packet, NoTable, Image, Grid, CellsOf, ZeroHeader, Header, NoCrc

LEMMA InvInit == Init => Inv
<1> SUFFICES ASSUME Init PROVE Inv OBVIOUS
<1>1. <<>> \in Seq(Answer) /\ Len(<<>>) = 0 BY EmptySeq
<1>2. MaxGrids \in Nat /\ MaxLate \in Nat BY BoundsAssumption
<1>4. snap \in [batch : 0..MaxGrids, crc : Image] BY <1>2, ImageTypes DEF Init, NoCrc
<1>3. chunk \in 0..N /\ (phase = "data" => chunk \in Packets) /\ since \in 0..MaxGrids
  BY <1>2, PacketsAssumption DEF Init
<1>7. late \in Seq(Answer) /\ Len(late) <= MaxLate BY <1>1, <1>2 DEF Init
<1>8. hdr \in Header /\ mem \in Image /\ {regs, table} \subseteq Image
  BY ImageTypes DEF Init
<1>9. /\ bypass \in Builds /\ {key2, seen} \subseteq BOOLEAN
      /\ phase \in {"idle", "hdr", "data", "tail"}
      /\ readSt \in {"idle", "reading", "ok", "err"} /\ commitOk \in BOOLEAN
  BY DEF Init
<1>5. TypeOK BY <1>3, <1>4, <1>7, <1>8, <1>9 DEF TypeOK
<1>6. QED BY <1>5 DEF Inv, Whole, Busy, Init

\* What an answered read leaves and returns has its type.
LEMMA HeaderReply ==
  ASSUME TypeOK, NEW r \in Replies(HeaderAnswer)
  PROVE  /\ r.late \in Seq(Answer) /\ Len(r.late) <= MaxLate
         /\ r.res # Error => r.res.kind = "hdr" /\ r.res.val \in Header
<1>1. HeaderAnswer \in Answer /\ HeaderAnswer.kind = "hdr"
  BY DEF TypeOK, HeaderAnswer, Answer
<1>2. r.res # Error => r.res \in Answer /\ r.res.kind = "hdr"
  BY <1>1, RepliesShape, ElementOfSeq DEF TypeOK
<1>3. QED BY <1>1, <1>2, RepliesShape DEF TypeOK, Answer

LEMMA DataReply ==
  ASSUME TypeOK, chunk \in Packets, NEW r \in Replies(DataAnswer)
  PROVE  /\ r.late \in Seq(Answer) /\ Len(r.late) <= MaxLate
         /\ r.res # Error => r.res.kind = "data" /\ r.res.val \in Packet
<1>1. DataAnswer \in Answer /\ DataAnswer.kind = "data"
  BY DEF TypeOK, DataAnswer, Answer, Image
<1>2. r.res # Error => r.res \in Answer /\ r.res.kind = "data"
  BY <1>1, RepliesShape, ElementOfSeq DEF TypeOK
<1>3. QED BY <1>1, <1>2, RepliesShape DEF TypeOK, Answer

\* A header read ends in one of three ways.
LEMMA HeaderInv == Inv /\ PollHeader => Inv'
<1> SUFFICES ASSUME Inv, PollHeader PROVE Inv' OBVIOUS
<1>1. TypeOK /\ Whole /\ Busy /\ N \in Nat \ {0} /\ 0 \in Packets
  BY PacketsAssumption, ImageTypes DEF Inv
<1>2. /\ phase = "hdr"
      /\ UNCHANGED <<bypass, key2, seen, regs, since, hdr, mem, commitOk, table>>
  BY DEF PollHeader, key, slave, TakeHeader, Abort, tableVars
<1>3. PICK r \in Replies(HeaderAnswer) :
        /\ late' = r.late
        /\ \/ (Passes(r.res) \/ (r.res # Error /\ bypass)) /\ TakeHeader(r.res.val)
           \/ r.res = Error /\ bypass /\ TakeHeader(ZeroHeader)
           \/ ~Passes(r.res) /\ ~bypass /\ Abort /\ UNCHANGED snap
  BY DEF PollHeader
<1>4. late' \in Seq(Answer) /\ Len(late') <= MaxLate BY <1>1, <1>3, HeaderReply
<1>5. CASE \E h \in Header : TakeHeader(h)
  <2>1. PICK h \in Header : TakeHeader(h) BY <1>5
  <2>2. /\ snap' \in [batch : 0..MaxGrids, crc : Image] /\ phase' = "data" /\ chunk' = 0
        /\ readSt' = readSt
    BY <2>1 DEF TakeHeader, Header
  <2>3. TypeOK' BY <1>1, <1>2, <1>4, <2>2 DEF TypeOK
  <2>4. QED BY <1>1, <1>2, <2>2, <2>3 DEF Inv, Whole, Busy
<1>6. CASE Abort /\ UNCHANGED snap
  <2>1. UNCHANGED snap /\ phase' = "idle" /\ chunk' = 0 /\ readSt' = "err"
    BY <1>6 DEF Abort, Finish
  <2>2. TypeOK' BY <1>1, <1>2, <1>4, <2>1 DEF TypeOK
  <2>3. QED BY <1>1, <1>2, <2>1, <2>2 DEF Inv, Whole, Busy
<1>7. Passes(r.res) \/ r.res # Error => r.res.val \in Header
  BY <1>1, HeaderReply DEF Passes
<1>8. QED BY <1>3, <1>5, <1>6, <1>7, ImageTypes

LEMMA DataInv == Inv /\ PollData => Inv'
<1> SUFFICES ASSUME Inv, PollData PROVE Inv' OBVIOUS
<1>1. TypeOK /\ Whole /\ Busy /\ N \in Nat \ {0} /\ 0 \in Packets
  BY PacketsAssumption, ImageTypes DEF Inv
<1>2. /\ phase = "data"
      /\ UNCHANGED <<bypass, key2, seen, snap, since, hdr, mem, commitOk, table>>
  BY DEF PollData, key, slave, TakePacket, Abort, tableVars
<1>3. PICK r \in Replies(DataAnswer) :
        /\ late' = r.late
        /\ \/ r.res # Error /\ TakePacket(r.res.val)
           \/ r.res = Error /\ bypass /\ TakePacket(Zero)
           \/ r.res = Error /\ ~bypass /\ Abort /\ UNCHANGED regs
  BY DEF PollData
<1>4. chunk \in Packets BY <1>1, <1>2 DEF TypeOK
<1>5. /\ late' \in Seq(Answer) /\ Len(late') <= MaxLate
      /\ r.res # Error => r.res.val \in Packet
  BY <1>1, <1>3, <1>4, DataReply
<1>6. CASE \E val \in Packet : TakePacket(val)
  <2>1. PICK val \in Packet : TakePacket(val) BY <1>6
  <2>2. /\ regs' = [regs EXCEPT ![chunk] = val] /\ chunk' = chunk + 1
        /\ phase' = (IF chunk' >= N THEN "tail" ELSE "data") /\ readSt' = readSt
    BY <2>1 DEF TakePacket
  <2>3. regs' \in Image BY <1>1, <2>2 DEF TypeOK, Image
  <2>4. chunk' \in 0..N /\ (phase' = "data" => chunk' \in Packets)
    BY <1>1, <1>4, <2>2 DEF Packets
  <2>5. TypeOK' BY <1>1, <1>2, <1>5, <2>2, <2>3, <2>4 DEF TypeOK
  <2>6. QED BY <1>1, <1>2, <2>2, <2>5 DEF Inv, Whole, Busy
<1>7. CASE Abort /\ UNCHANGED regs
  <2>1. UNCHANGED regs /\ phase' = "idle" /\ chunk' = 0 /\ readSt' = "err"
    BY <1>7 DEF Abort, Finish
  <2>2. TypeOK' BY <1>1, <1>2, <1>5, <2>1 DEF TypeOK
  <2>3. QED BY <1>1, <1>2, <2>1, <2>2 DEF Inv, Whole, Busy
<1>8. QED BY <1>3, <1>5, <1>6, <1>7, ImageTypes

LEMMA TailInv == Inv /\ PollTail => Inv'
<1> SUFFICES ASSUME Inv, PollTail PROVE Inv' OBVIOUS
<1>1. TypeOK /\ Whole /\ Busy /\ N \in Nat \ {0} BY PacketsAssumption DEF Inv
<1>2. /\ phase = "tail"
      /\ UNCHANGED <<bypass, key2, seen, snap, regs, since, hdr, mem>>
  BY DEF PollTail, key, slave
<1>3. PICK r \in Replies(HeaderAnswer) :
        /\ late' = r.late
        /\ \/ CrcAgrees /\ Rebuild
           \/ ~CrcAgrees /\ Finish("err") /\ UNCHANGED tableVars
           \/ Abort
  BY DEF PollTail
<1>4. late' \in Seq(Answer) /\ Len(late') <= MaxLate BY <1>1, <1>3, HeaderReply
<1>5. /\ phase' = "idle" /\ chunk' = 0 /\ readSt' \in {"ok", "err"}
      /\ commitOk' \in BOOLEAN
      /\ table' = table \/ (ValidGrid(regs) /\ table' = regs)
  BY <1>1, <1>3 DEF Abort, Finish, Rebuild, tableVars, TypeOK
<1>6. TypeOK' BY <1>1, <1>2, <1>4, <1>5 DEF TypeOK
<1>7. Whole' BY <1>1, <1>5 DEF Whole, ValidGrid
<1>8. QED BY <1>5, <1>6, <1>7 DEF Inv, Busy

\* The controller writes one packet of its next grid.
LEMMA ControllerInv == Inv /\ Controller => Inv'
<1> SUFFICES ASSUME Inv, Controller PROVE Inv' OBVIOUS
<1>1. TypeOK /\ Whole /\ Busy /\ hdr \in Header /\ mem \in Image BY DEF Inv, TypeOK
<1>2. MaxGrids \in Nat /\ hdr.batch \in 0..MaxGrids /\ hdr.batch < MaxGrids
  BY <1>1, BoundsAssumption
  DEF Header, Controller, ControllerBegins, ControllerPublishes, ControllerWrites, Rewrites
<1>3. hdr.batch + 1 \in 1..MaxGrids BY <1>2
<1>4. hdr' \in Header /\ mem' \in Image
  <2>1. CASE ControllerBegins BY <1>1, <2>1 DEF ControllerBegins, Header
  <2>2. CASE ControllerPublishes
    BY <1>1, <1>2, <1>3, <2>2 DEF ControllerPublishes, Header, Crc32
  <2>3. ASSUME NEW p \in Packets, ControllerWrites(p) PROVE hdr' \in Header /\ mem' \in Image
    BY <1>1, <1>3, <2>3, ImageTypes DEF ControllerWrites, Image
  <2>4. QED BY <2>1, <2>2, <2>3 DEF Controller
<1>5. UNCHANGED <<bypass, key2, seen, phase, chunk, snap, regs, readSt, commitOk, table,
                  since, late>>
  BY DEF Controller, ControllerBegins, ControllerPublishes, ControllerWrites, key, reader,
         tableVars
<1>6. TypeOK' BY <1>1, <1>4, <1>5 DEF TypeOK
<1>7. QED BY <1>1, <1>5, <1>6 DEF Inv, Whole, Busy

\* Every other step.
LEMMA OtherInv ==
  /\ Inv
  /\ PressKey2 \/ TestKey2 \/ Key2Request \/ Cleared \/ UNCHANGED vars
  => Inv'
<1> SUFFICES ASSUME Inv, PressKey2 \/ TestKey2 \/ Key2Request \/ Cleared \/ UNCHANGED vars
             PROVE  Inv'
  OBVIOUS
<1>1. TypeOK /\ Whole /\ Busy /\ hdr \in Header BY DEF Inv, TypeOK
<1>2. CASE PressKey2 \/ TestKey2 \/ UNCHANGED vars
  <2>1. /\ UNCHANGED <<bypass, phase, chunk, snap, regs, readSt, commitOk, table, since, hdr,
                       mem, late>>
        /\ key2' \in BOOLEAN /\ seen' \in BOOLEAN
    BY <1>1, <1>2 DEF PressKey2, TestKey2, vars, key, reader, slave, tableVars, TypeOK
  <2>2. TypeOK' BY <1>1, <2>1 DEF TypeOK
  <2>3. QED BY <1>1, <2>1, <2>2 DEF Inv, Whole, Busy
<1>3. CASE Key2Request
  <2>1. /\ UNCHANGED <<bypass, snap, regs, commitOk, table, hdr, mem, late>>
        /\ phase' = "hdr" /\ chunk' = 0 /\ readSt' = "reading" /\ since' = hdr.batch
        /\ key2' = FALSE /\ seen' = FALSE
    BY <1>3 DEF Key2Request, ClearKey2, tableVars, slave
  <2>2. hdr.batch \in 0..MaxGrids /\ 0 \in 0..N BY <1>1, PacketsAssumption DEF Header
  <2>5. phase' \in {"idle", "hdr", "data", "tail"} /\ phase' # "data" BY <2>1
  <2>3. TypeOK' BY <1>1, <2>1, <2>2, <2>5 DEF TypeOK
  <2>4. QED BY <1>1, <2>1, <2>3 DEF Inv, Whole, Busy
<1>4. CASE Cleared
  <2>1. /\ UNCHANGED <<bypass, key2, seen, phase, chunk, snap, regs, readSt, since, hdr, mem,
                       late>>
        /\ table' = NoTable /\ commitOk' = FALSE
    BY <1>4 DEF Cleared, key, slave
  <2>2. TypeOK' BY <1>1, <2>1, ImageTypes DEF TypeOK
  <2>3. QED BY <1>1, <2>1, <2>2 DEF Inv, Whole, Busy
<1>5. QED BY <1>2, <1>3, <1>4

LEMMA InvNext == Inv /\ [Next]_vars => Inv'
BY HeaderInv, DataInv, TailInv, ControllerInv, OtherInv DEF Next, Main, Poll

LEMMA Invariance == Spec => []Inv
BY InvInit, InvNext, PTL DEF Spec

\* Every variable of the read cycle keeps its type, the packet asked for lies
\* inside the table, and no more answers are under way than the bus can hold,
\* for every number of packets.
THEOREM TypeCorrect == Spec => []TypeOK
<1>1. Inv => TypeOK BY DEF Inv
<1>2. QED BY <1>1, Invariance, PTL

\* The table never holds part of a grid, for every number of packets, in the
\* build without gates too.
THEOREM TableIsWhole == Spec => []TableWhole
<1>1. Inv => TableWhole
  <2> SUFFICES ASSUME Whole, Grids # {}, NEW p \in Packets
               PROVE  \E q \in Packets : table[q].packet = p
    BY DEF Inv, TableWhole
  <2>1. PICK q \in Packets : table[q].grid # 0 BY DEF Grids
  <2>2. table # NoTable BY <2>1 DEF NoTable, Zero
  <2>3. QED BY <2>2 DEF Whole
<1>2. QED BY <1>1, Invariance, PTL
-----------------------------------------------------------------------------
(***************************************************************************)
(* The promise of MatrixRead.                                              *)
(***************************************************************************)

\* The header of a grid carries the CRC32 of that grid.
Published(h) == h.batch <= hdr.batch /\ (h.ready => h.batch > 0 /\ h.crc = Grid(h.batch))

HeadersTrue ==
  /\ since <= hdr.batch
  /\ Published(hdr)
  /\ \A i \in 1..Len(late) : late[i].kind = "hdr" => Published(late[i].val)

\* The header the cycle goes by is one of those.
SnapTrue ==
  ~bypass /\ phase \in {"data", "tail"} =>
    snap.batch \in 1..hdr.batch /\ snap.crc = Grid(snap.batch)

\* The reads the cycle has made.
Reads == IF phase = "data" THEN 1 + chunk ELSE IF phase = "tail" THEN N + 1 ELSE 0

\* A header of before the cycle is one of the first answers under way: each read
\* that got an answer took one away from in front of it.
Fresh ==
  ~bypass /\ phase # "idle" =>
    \A i \in 1..Len(late) :
      i + Reads > MaxLate /\ late[i].kind = "hdr" => late[i].val.batch >= since

PInv == HeadersTrue /\ SnapTrue /\ Fresh

\* The headers under way stay true while the controller's number only grows.
LEMMA PublishedGrows ==
  ASSUME TypeOK, NEW h \in Header, Published(h), hdr' \in Header, hdr.batch <= hdr'.batch
  PROVE  Published(h)'
<1>1. h.batch \in Nat /\ hdr.batch \in Nat /\ hdr'.batch \in Nat
  BY BoundsAssumption DEF Header, TypeOK
<1>2. QED BY <1>1 DEF Published

\* What a read of the header brings.
LEMMA HeaderTrue ==
  ASSUME TypeOK, HeadersTrue, NEW r \in Replies(HeaderAnswer)
  PROVE  /\ r.res # Error => Published(r.res.val) /\ r.res.val \in Header
         /\ \A i \in 1..Len(r.late) : r.late[i].kind = "hdr" => Published(r.late[i].val)
<1>1. HeaderAnswer \in Answer /\ HeaderAnswer.val = hdr
  BY DEF TypeOK, HeaderAnswer, Answer
<1>2. Len(late) \in Nat BY LenProperties DEF TypeOK
<1>3. Len(r.late) \in Nat BY <1>1, RepliesShape, LenProperties DEF TypeOK
<1>4. r.res # Error => Published(r.res.val) /\ r.res.val \in Header
  <2>1. SUFFICES ASSUME r.res # Error PROVE Published(r.res.val)
    BY HeaderReply
  <2>2. r.res = HeaderAnswer \/ \E j \in 1..Len(late) : r.res = late[j]
    BY <1>1, <2>1, RepliesShape DEF TypeOK
  <2>3. r.res.kind = "hdr" BY <2>1, HeaderReply
  <2>4. QED BY <1>1, <2>2, <2>3 DEF HeadersTrue
<1>5. ASSUME NEW i \in 1..Len(r.late), r.late[i].kind = "hdr"
      PROVE  Published(r.late[i].val)
  <2>1. r.late[i] = HeaderAnswer \/ \E j \in i..Len(late) : r.late[i] = late[j]
    BY <1>1, RepliesShape DEF TypeOK
  <2>2. \A j \in i..Len(late) : j \in 1..Len(late) BY <1>2, <1>3
  <2>3. QED BY <1>1, <1>5, <2>1, <2>2 DEF HeadersTrue
<1>6. QED BY <1>4, <1>5

LEMMA DataTrue ==
  ASSUME TypeOK, chunk \in Packets, HeadersTrue, NEW r \in Replies(DataAnswer)
  PROVE  \A i \in 1..Len(r.late) : r.late[i].kind = "hdr" => Published(r.late[i].val)
<1>1. DataAnswer \in Answer /\ DataAnswer.kind = "data"
  BY DEF TypeOK, DataAnswer, Answer, Image
<1>2. Len(late) \in Nat /\ Len(r.late) \in Nat
  BY <1>1, RepliesShape, LenProperties DEF TypeOK
<1>3. SUFFICES ASSUME NEW i \in 1..Len(r.late), r.late[i].kind = "hdr"
               PROVE  Published(r.late[i].val)
  OBVIOUS
<1>4. \E j \in i..Len(late) : r.late[i] = late[j]
  BY <1>1, <1>3, RepliesShape DEF TypeOK
<1>5. \A j \in i..Len(late) : j \in 1..Len(late) BY <1>2
<1>6. QED BY <1>3, <1>4, <1>5 DEF HeadersTrue

\* A read that got an answer moves the old headers one place up.
LEMMA FreshAfter ==
  ASSUME TypeOK, HeadersTrue, Fresh, ~bypass, phase # "idle",
         NEW ans \in Answer, ans.kind = "hdr" => ans.val = hdr,
         NEW r \in Replies(ans), r.res # Error, NEW n \in Int, n = Reads + 1
  PROVE  /\ \A i \in 1..Len(r.late) :
              i + n > MaxLate /\ r.late[i].kind = "hdr" => r.late[i].val.batch >= since
         /\ Reads >= MaxLate /\ r.res.kind = "hdr" => r.res.val.batch >= since
<1>1. /\ Len(late) \in Nat /\ Len(r.late) \in Nat /\ MaxLate \in Nat /\ Reads \in Int
      /\ since <= hdr.batch
  BY RepliesShape, LenProperties, BoundsAssumption, PacketsAssumption
  DEF TypeOK, HeadersTrue, Reads
<1>2. ASSUME NEW i \in 1..Len(r.late), i + n > MaxLate, r.late[i].kind = "hdr"
      PROVE  r.late[i].val.batch >= since
  <2>1. r.late[i] = ans \/ \E j \in i + 1..Len(late) : r.late[i] = late[j]
    BY RepliesShape DEF TypeOK
  <2>2. \A j \in i + 1..Len(late) : j \in 1..Len(late) /\ j + Reads > MaxLate
    BY <1>1, <1>2
  <2>3. QED BY <1>1, <1>2, <2>1, <2>2 DEF Fresh
<1>3. ASSUME Reads >= MaxLate, r.res.kind = "hdr" PROVE r.res.val.batch >= since
  <2>1. r.res = ans \/ \E j \in 1..Len(late) : r.res = late[j] BY RepliesShape DEF TypeOK
  <2>2. \A j \in 1..Len(late) : j + Reads > MaxLate BY <1>1, <1>3
  <2>3. QED BY <1>1, <1>3, <2>1, <2>2 DEF Fresh
<1>4. QED BY <1>2, <1>3

LEMMA PInvInit == Init => PInv
<1> SUFFICES ASSUME Init PROVE PInv OBVIOUS
<1>1. Len(late) = 0 BY EmptySeq DEF Init
<1>2. HeadersTrue BY <1>1 DEF Init, HeadersTrue, Published, ZeroHeader
<1>3. QED BY <1>2 DEF Init, PInv, SnapTrue, Fresh

LEMMA HeaderPInv == Inv /\ PInv /\ PollHeader => PInv'
<1> SUFFICES ASSUME Inv, PInv, PollHeader PROVE PInv' OBVIOUS
<1>1. TypeOK /\ HeadersTrue /\ SnapTrue /\ Fresh /\ N \in Nat \ {0}
  BY PacketsAssumption DEF Inv, PInv
<1>2. phase = "hdr" /\ UNCHANGED <<bypass, since, hdr>> BY DEF PollHeader, slave
<1>3. PICK r \in Replies(HeaderAnswer) :
        /\ late' = r.late
        /\ \/ (Passes(r.res) \/ (r.res # Error /\ bypass)) /\ TakeHeader(r.res.val)
           \/ r.res = Error /\ bypass /\ TakeHeader(ZeroHeader)
           \/ ~Passes(r.res) /\ ~bypass /\ Abort /\ UNCHANGED snap
  BY DEF PollHeader
<1>4. HeadersTrue' BY <1>1, <1>2, <1>3, HeaderTrue DEF HeadersTrue, Published
<1>5. CASE bypass BY <1>2, <1>4, <1>5 DEF PInv, SnapTrue, Fresh
<1>6. CASE phase' = "idle" BY <1>4, <1>6 DEF PInv, SnapTrue, Fresh
<1>7. CASE ~bypass /\ phase' # "idle"
  <2>1. Passes(r.res) /\ TakeHeader(r.res.val) BY <1>3, <1>7 DEF Abort, Finish
  <2>2. /\ r.res # Error /\ r.res.val.ready /\ Published(r.res.val) /\ r.res.val \in Header
    BY <1>1, <2>1, HeaderTrue DEF Passes, Gate
  <2>3. /\ snap'.batch = r.res.val.batch /\ snap'.crc = r.res.val.crc
        /\ phase' = "data" /\ chunk' = 0
    BY <2>1 DEF TakeHeader
  <2>4. r.res.val.batch \in Nat /\ hdr.batch \in Nat
    BY <1>1, <2>2, BoundsAssumption DEF Header, TypeOK
  <2>5. SnapTrue' BY <1>2, <2>2, <2>3, <2>4 DEF SnapTrue, Published
  <2>6. HeaderAnswer \in Answer /\ HeaderAnswer.val = hdr
    BY <1>1 DEF TypeOK, HeaderAnswer, Answer
  <2>7. Reads = 0 /\ Reads' = 1 BY <1>2, <2>3 DEF Reads
  <2>8. \A i \in 1..Len(r.late) :
          i + 1 > MaxLate /\ r.late[i].kind = "hdr" => r.late[i].val.batch >= since
    BY <1>1, <1>2, <1>7, <2>2, <2>6, <2>7, FreshAfter
  <2>9. Fresh' BY <1>2, <1>3, <2>7, <2>8 DEF Fresh
  <2>10. QED BY <1>4, <2>5, <2>9 DEF PInv
<1>8. QED BY <1>5, <1>6, <1>7

LEMMA DataPInv == Inv /\ PInv /\ PollData => PInv'
<1> SUFFICES ASSUME Inv, PInv, PollData PROVE PInv' OBVIOUS
<1>1. /\ TypeOK /\ HeadersTrue /\ SnapTrue /\ Fresh /\ N \in Nat \ {0}
      /\ phase = "data" /\ chunk \in Packets
  BY PacketsAssumption DEF Inv, PInv, PollData, TypeOK
<1>2. UNCHANGED <<bypass, since, hdr, snap>> BY DEF PollData, slave
<1>3. PICK r \in Replies(DataAnswer) :
        /\ late' = r.late
        /\ \/ r.res # Error /\ TakePacket(r.res.val)
           \/ r.res = Error /\ bypass /\ TakePacket(Zero)
           \/ r.res = Error /\ ~bypass /\ Abort /\ UNCHANGED regs
  BY DEF PollData
<1>4. HeadersTrue' BY <1>1, <1>2, <1>3, DataTrue DEF HeadersTrue, Published
<1>5. CASE bypass BY <1>2, <1>4, <1>5 DEF PInv, SnapTrue, Fresh
<1>6. CASE phase' = "idle" BY <1>4, <1>6 DEF PInv, SnapTrue, Fresh
<1>7. CASE ~bypass /\ phase' # "idle"
  <2>1. r.res # Error /\ TakePacket(r.res.val) BY <1>3, <1>7 DEF Abort, Finish
  <2>2. chunk' = chunk + 1 /\ phase' = (IF chunk' >= N THEN "tail" ELSE "data")
    BY <2>1 DEF TakePacket
  <2>3. SnapTrue' BY <1>1, <1>2, <1>7 DEF SnapTrue
  <2>4. DataAnswer \in Answer /\ DataAnswer.kind = "data"
    BY <1>1 DEF TypeOK, DataAnswer, Answer, Image
  <2>5. Reads = 1 + chunk /\ Reads' = 2 + chunk /\ Reads' = Reads + 1 /\ Reads' \in Int
    BY <1>1, <2>2 DEF Reads, Packets
  <2>6. \A i \in 1..Len(r.late) :
          i + Reads' > MaxLate /\ r.late[i].kind = "hdr" => r.late[i].val.batch >= since
    BY <1>1, <1>7, <2>1, <2>4, <2>5, FreshAfter
  <2>7. Fresh' BY <1>2, <1>3, <2>6 DEF Fresh
  <2>8. QED BY <1>4, <2>3, <2>7 DEF PInv
<1>8. QED BY <1>5, <1>6, <1>7

LEMMA TailPInv == Inv /\ PInv /\ PollTail => PInv'
<1> SUFFICES ASSUME Inv, PInv, PollTail PROVE PInv' OBVIOUS
<1>1. TypeOK /\ HeadersTrue BY DEF Inv, PInv
<1>2. UNCHANGED <<bypass, since, hdr>> BY DEF PollTail, slave
<1>3. PICK r \in Replies(HeaderAnswer) : late' = r.late BY DEF PollTail
<1>4. HeadersTrue' BY <1>1, <1>2, <1>3, HeaderTrue DEF HeadersTrue, Published
<1>5. phase' = "idle" BY DEF PollTail, Abort, Finish, Rebuild
<1>6. QED BY <1>4, <1>5 DEF PInv, SnapTrue, Fresh

LEMMA ControllerPInv == Inv /\ Inv' /\ PInv /\ Controller => PInv'
<1> SUFFICES ASSUME Inv, Inv', PInv, Controller PROVE PInv' OBVIOUS
<1>1. /\ TypeOK /\ HeadersTrue /\ SnapTrue /\ Fresh
      /\ hdr \in Header /\ hdr' \in Header /\ hdr.batch \in Nat /\ since \in Nat
      /\ late \in Seq(Answer)
  BY BoundsAssumption DEF Inv, PInv, TypeOK, Header
<1>2. UNCHANGED <<bypass, phase, chunk, snap, since, late>>
  BY DEF Controller, ControllerBegins, ControllerPublishes, ControllerWrites, reader
<1>3. hdr.batch <= hdr'.batch /\ Published(hdr)'
  <2>1. CASE ControllerBegins
    BY <1>1, <2>1 DEF ControllerBegins, HeadersTrue, Published, Header
  <2>2. CASE ControllerPublishes
    BY <1>1, <2>2 DEF ControllerPublishes, Published, Crc32
  <2>3. CASE \E p \in Packets : ControllerWrites(p)
    BY <1>1, <2>3 DEF ControllerWrites, HeadersTrue, Published
  <2>4. QED BY <2>1, <2>2, <2>3 DEF Controller
<1>4. ASSUME NEW i \in 1..Len(late), late[i].kind = "hdr" PROVE Published(late[i].val)'
  <2>1. late[i].val \in Header BY <1>1, <1>4, ElementOfSeq DEF Answer
  <2>2. Published(late[i].val) BY <1>1, <1>4 DEF HeadersTrue
  <2>3. QED BY <1>1, <1>2, <1>3, <2>1, <2>2 DEF Published, Header
<1>5. hdr'.batch \in Nat BY <1>1, BoundsAssumption DEF Header
<1>6. HeadersTrue' BY <1>1, <1>2, <1>3, <1>4, <1>5 DEF HeadersTrue
<1>7. SnapTrue' BY <1>1, <1>2, <1>3, <1>5 DEF SnapTrue
<1>8. Fresh' BY <1>1, <1>2 DEF Fresh, Reads
<1>9. QED BY <1>6, <1>7, <1>8 DEF PInv

LEMMA OtherPInv ==
  /\ Inv /\ PInv
  /\ PressKey2 \/ TestKey2 \/ Key2Request \/ Cleared \/ UNCHANGED vars
  => PInv'
<1> SUFFICES ASSUME Inv, PInv,
                    PressKey2 \/ TestKey2 \/ Key2Request \/ Cleared \/ UNCHANGED vars
             PROVE  PInv'
  OBVIOUS
<1>1. TypeOK /\ HeadersTrue /\ SnapTrue /\ Fresh BY DEF Inv, PInv
<1>2. CASE PressKey2 \/ TestKey2 \/ Cleared \/ UNCHANGED vars
  <2>1. UNCHANGED <<bypass, phase, chunk, snap, since, hdr, late>>
    BY <1>2 DEF PressKey2, TestKey2, Cleared, vars, reader, slave
  <2>2. QED BY <1>1, <2>1 DEF PInv, HeadersTrue, Published, SnapTrue, Fresh, Reads
<1>3. CASE Key2Request
  <2>1. UNCHANGED <<bypass, snap, hdr, late>> /\ phase' = "hdr" /\ since' = hdr.batch
    BY <1>3 DEF Key2Request, slave
  <2>2. /\ hdr.batch \in Nat /\ MaxLate \in Nat /\ Len(late) \in Nat /\ Len(late) <= MaxLate
    BY <1>1, BoundsAssumption, LenProperties DEF TypeOK, Header
  <2>3. HeadersTrue' BY <1>1, <2>1, <2>2 DEF HeadersTrue, Published
  <2>4. Reads' = 0 BY <2>1 DEF Reads
  <2>5. Fresh' BY <2>1, <2>2, <2>4 DEF Fresh
  <2>6. QED BY <2>1, <2>3, <2>5 DEF PInv, SnapTrue
<1>4. QED BY <1>2, <1>3

LEMMA PInvNext == Inv /\ Inv' /\ PInv /\ [Next]_vars => PInv'
BY HeaderPInv, DataPInv, TailPInv, ControllerPInv, OtherPInv DEF Next, Main, Poll

LEMMA PInvariance == Spec => []PInv
BY PInvInit, PInvNext, Invariance, PTL DEF Spec

\* A step of the controller publishes a grid or shows nothing.
LEMMA ControllerPromise ==
  ASSUME Inv, Controller
  PROVE  Promise!Publish \/ UNCHANGED Promise!vars
<1>1. hdr \in Header /\ UNCHANGED <<bypass, since, readSt, table, commitOk>>
  BY DEF Inv, TypeOK, Controller, ControllerBegins, ControllerPublishes, ControllerWrites,
         reader, tableVars
<1>2. UNCHANGED Grids BY <1>1 DEF Grids
<1>3. CASE ControllerPublishes
  BY <1>1, <1>2, <1>3 DEF ControllerPublishes, Promise!Publish
<1>4. CASE ControllerBegins \/ \E p \in Packets : ControllerWrites(p)
  <2>1. hdr'.batch = hdr.batch
    BY <1>1, <1>4 DEF ControllerBegins, ControllerWrites, Header
  <2>2. QED BY <1>1, <1>2, <2>1 DEF Promise!vars
<1>5. QED BY <1>3, <1>4 DEF Controller

\* What a read of the strict build commits is the grid of the header it began
\* with, seen again in a header that is not from before the cycle.
LEMMA CommitsOne ==
  ASSUME MaxLate <= N + 1, Inv, PInv, phase = "tail", ~bypass,
         NEW r \in Replies(HeaderAnswer), TailAgrees(r.res), CrcAgrees, table' = regs
  PROVE  \E g \in since..hdr.batch : Grids' = {g}
<1>1. /\ TypeOK /\ HeadersTrue /\ SnapTrue /\ Fresh /\ N \in Nat \ {0} /\ 0 \in Packets
      /\ hdr \in Header /\ hdr.batch \in Nat /\ since \in Nat /\ MaxLate \in Nat
  BY PacketsAssumption, BoundsAssumption, ImageTypes DEF Inv, PInv, TypeOK, Header
<1>2. snap.batch \in 1..hdr.batch /\ regs = Grid(snap.batch)
  BY <1>1 DEF SnapTrue, CrcAgrees, Crc32
<1>3. /\ r.res # Error /\ r.res.val.batch = snap.batch /\ r.res.kind = "hdr"
  BY <1>1, HeaderReply DEF TailAgrees, Passes
<1>4. HeaderAnswer \in Answer /\ HeaderAnswer.val = hdr
  BY <1>1 DEF HeaderAnswer, Answer
<1>5. Reads = N + 1 /\ Reads >= MaxLate /\ Reads + 1 \in Int BY <1>1 DEF Reads
<1>6. snap.batch >= since BY <1>1, <1>3, <1>4, <1>5, FreshAfter
<1>7. snap.batch \in since..hdr.batch BY <1>1, <1>2, <1>6
<1>8. \A p \in Packets : table'[p].grid = snap.batch BY <1>2 DEF Grid, CellsOf
<1>9. Grids' = {snap.batch} BY <1>1, <1>2, <1>8 DEF Grids
<1>10. QED BY <1>7, <1>9

LEMMA TailPromise ==
  ASSUME MaxLate <= N + 1, Inv, PInv, PollTail
  PROVE  Promise!Commit \/ Promise!Fail
<1>1. /\ phase = "tail" /\ readSt = "reading" /\ UNCHANGED <<bypass, since, hdr>>
  BY DEF Inv, Busy, PollTail, slave
<1>2. PICK r \in Replies(HeaderAnswer) :
        \/ (bypass \/ TailAgrees(r.res)) /\ CrcAgrees /\ Rebuild
        \/ ~CrcAgrees /\ Finish("err") /\ UNCHANGED tableVars
        \/ Abort
  BY DEF PollTail
<1>3. CASE \/ Finish("err") /\ UNCHANGED tableVars
           \/ Abort
           \/ table' = table /\ commitOk' = FALSE /\ Finish("err")
  <2>1. readSt' = "err" /\ table' = table /\ commitOk' \in {commitOk, FALSE}
    BY <1>3 DEF Finish, Abort, tableVars
  <2>2. UNCHANGED Grids BY <2>1 DEF Grids
  <2>3. QED BY <1>1, <2>1, <2>2 DEF Promise!Fail
<1>4. CASE /\ bypass \/ TailAgrees(r.res)
           /\ CrcAgrees /\ table' = regs /\ commitOk' = TRUE /\ Finish("ok")
  <2>1. ~bypass => \E g \in since..hdr.batch : Grids' = {g}
    BY <1>1, <1>4, CommitsOne
  <2>2. readSt' = "ok" /\ commitOk' = TRUE BY <1>4 DEF Finish
  <2>3. QED BY <1>1, <2>1, <2>2 DEF Promise!Commit
<1>5. QED BY <1>2, <1>3, <1>4 DEF Rebuild

\* The reads in front of the last end the cycle or show nothing.
LEMMA PollPromise ==
  ASSUME Inv, PollHeader \/ PollData
  PROVE  Promise!Fail \/ UNCHANGED Promise!vars
<1>1. /\ readSt = "reading" /\ UNCHANGED <<bypass, since, hdr, table, commitOk>>
      /\ readSt' = readSt \/ readSt' = "err"
  BY DEF Inv, Busy, PollHeader, PollData, TakeHeader, TakePacket, Abort, Finish, tableVars, slave
<1>2. UNCHANGED Grids BY <1>1 DEF Grids
<1>3. QED BY <1>1, <1>2 DEF Promise!Fail, Promise!vars

LEMMA OtherPromise ==
  ASSUME Inv, PressKey2 \/ TestKey2 \/ Key2Request \/ Cleared \/ UNCHANGED vars
  PROVE  Promise!Begin \/ Promise!Clear \/ UNCHANGED Promise!vars
<1>1. CASE PressKey2 \/ TestKey2 \/ UNCHANGED vars
  <2>1. UNCHANGED <<bypass, since, hdr, readSt, table, commitOk>>
    BY <1>1 DEF PressKey2, TestKey2, vars, reader, slave, tableVars
  <2>2. QED BY <2>1 DEF Grids, Promise!vars
<1>2. CASE Key2Request
  <2>1. /\ UNCHANGED <<bypass, hdr, table, commitOk>>
        /\ readSt # "reading" /\ readSt' = "reading" /\ since' = hdr.batch
    BY <1>2 DEF Key2Request, Inv, Busy, tableVars, slave
  <2>2. UNCHANGED Grids BY <2>1 DEF Grids
  <2>3. QED BY <2>1, <2>2 DEF Promise!Begin
<1>3. CASE Cleared
  <2>1. /\ UNCHANGED <<bypass, since, hdr, readSt>> /\ table' = NoTable /\ commitOk' = FALSE
    BY <1>3 DEF Cleared, slave
  <2>2. Grids' = {} BY <2>1 DEF Grids, NoTable, Zero
  <2>3. QED BY <2>1, <2>2 DEF Promise!Clear
<1>4. QED BY <1>1, <1>2, <1>3

\* For every number of packets and grids: a read of the strict build ends in the
\* table holding one grid that was in force during it, or in an error and the
\* table as it was, as long as no more than N + 1 answers can be under way.
\* With N + 2 of them, all late, an older grid would pass every gate.
THEOREM ReadKeepsPromise == ASSUME MaxLate <= N + 1 PROVE Spec => KeepsPromise
<1>1. Init => Promise!Init
  <2> SUFFICES ASSUME Init PROVE Promise!Init OBVIOUS
  <2>1. Grids = {} BY DEF Init, Grids, NoTable, Zero
  <2>2. bypass \in BOOLEAN BY BoundsAssumption DEF Init
  <2>3. QED BY <2>1, <2>2 DEF Init, Promise!Init, ZeroHeader
<1>2. Inv /\ PInv /\ [Next]_vars => [Promise!Next]_(Promise!vars)
  <2> SUFFICES ASSUME Inv, PInv, [Next]_vars PROVE [Promise!Next]_(Promise!vars) OBVIOUS
  <2>1. CASE Controller BY <2>1, ControllerPromise DEF Promise!Next
  <2>2. CASE PollTail BY <2>2, TailPromise DEF Promise!Next
  <2>3. CASE PollHeader \/ PollData BY <2>3, PollPromise DEF Promise!Next
  <2>4. CASE PressKey2 \/ TestKey2 \/ Key2Request \/ Cleared \/ UNCHANGED vars
    BY <2>4, OtherPromise DEF Promise!Next
  <2>5. QED BY <2>1, <2>2, <2>3, <2>4 DEF Next, Main, Poll
<1>3. QED BY <1>1, <1>2, Invariance, PInvariance, PTL DEF Spec, KeepsPromise, Promise!Spec
=============================================================================
