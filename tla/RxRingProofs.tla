---------------------------- MODULE RxRingProofs ----------------------------
(***************************************************************************)
(* Theorems about RxRing for every size of the ring, every set of bytes    *)
(* and every bound.                                                        *)
(***************************************************************************)
EXTENDS RxRing, SequenceTheorems, TLAPS

-----------------------------------------------------------------------------
(***************************************************************************)
(* Sequences.                                                              *)
(***************************************************************************)

\* A byte that goes from the queue to the reader does not change their chain.
LEMMA MoveHead ==
  ASSUME NEW S, NEW s \in Seq(S), NEW t \in Seq(S), t # <<>>
  PROVE  Append(s, Head(t)) \o Tail(t) = s \o t
<1>1. /\ Head(t) \in S /\ Tail(t) \in Seq(S) /\ Len(Tail(t)) = Len(t) - 1
      /\ \A i \in 1..Len(Tail(t)) : Tail(t)[i] = t[i + 1]
      /\ Len(t) \in Nat \ {0} /\ Len(s) \in Nat /\ Head(t) = t[1]
  BY HeadTailProperties, LenProperties, EmptySeq
<1>2. /\ Append(s, Head(t)) \in Seq(S) /\ Len(Append(s, Head(t))) = Len(s) + 1
      /\ \A i \in 1..Len(s) : Append(s, Head(t))[i] = s[i]
      /\ Append(s, Head(t))[Len(s) + 1] = t[1]
  BY <1>1, AppendProperties
<1> DEFINE u == Append(s, Head(t)) \o Tail(t)
           v == s \o t
<1>3. /\ u \in Seq(S) /\ Len(u) = Len(s) + Len(t)
      /\ \A i \in 1..Len(s) + Len(t) :
           u[i] = IF i <= Len(s) + 1 THEN Append(s, Head(t))[i] ELSE Tail(t)[i - (Len(s) + 1)]
  BY <1>1, <1>2, ConcatProperties
<1>4. /\ v \in Seq(S) /\ Len(v) = Len(s) + Len(t)
      /\ \A i \in 1..Len(s) + Len(t) : v[i] = IF i <= Len(s) THEN s[i] ELSE t[i - Len(s)]
  BY ConcatProperties
<1>5. ASSUME NEW i \in 1..Len(u) PROVE u[i] = v[i]
  <2> HIDE DEF u, v
  <2>0. i \in Int /\ Len(s) \in Int BY <1>1, <1>3
  <2>1. CASE i <= Len(s) BY <1>1, <1>2, <1>3, <1>4, <2>1
  <2>2. CASE i = Len(s) + 1 BY <1>1, <1>2, <1>3, <1>4, <2>2
  <2>3. CASE i > Len(s) + 1
    <3>1. i - (Len(s) + 1) \in 1..Len(Tail(t)) BY <1>1, <1>3, <2>3
    <3>2. u[i] = t[i - (Len(s) + 1) + 1] BY <1>1, <1>3, <2>3, <3>1
    <3>3. QED BY <1>1, <1>3, <1>4, <2>3, <3>2
  <2>4. QED BY <2>0, <2>1, <2>2, <2>3
<1>6. QED BY <1>3, <1>4, <1>5, SeqEqual

\* A byte that joins the queue joins the chain.
LEMMA GrowTail ==
  ASSUME NEW S, NEW s \in Seq(S), NEW t \in Seq(S), NEW b \in S
  PROVE  s \o Append(t, b) = Append(s \o t, b)
<1>1. <<b>> \in Seq(S) OBVIOUS
<1>2. Append(t, b) = t \o <<b>> BY AppendIsConcat
<1>3. s \o t \in Seq(S) BY ConcatProperties
<1>4. Append(s \o t, b) = (s \o t) \o <<b>> BY <1>3, AppendIsConcat
<1>5. QED BY <1>1, <1>2, <1>4, ConcatAssociative

-----------------------------------------------------------------------------
(***************************************************************************)
(* Indices.                                                                *)
(***************************************************************************)

\* The mask makes the index run round the ring.
LEMMA NextIndexRound ==
  ASSUME NEW i \in Cells
  PROVE  NextIndex(i) = IF i = N - 1 THEN 0 ELSE i + 1
<1>1. N \in Nat /\ N > 1 BY RingAssumption
<1>2. CASE i = N - 1
  <2>1. i + 1 = 0 + 1 * N /\ 0 \in 0..N - 1 BY <1>1, <1>2
  <2>2. QED BY <1>1, <1>2, <2>1 DEF NextIndex
<1>3. CASE i # N - 1
  <2>1. i + 1 \in 0..N - 1 BY <1>1, <1>3 DEF Cells
  <2>2. QED BY <1>1, <1>3, <2>1 DEF NextIndex
<1>4. QED BY <1>2, <1>3

\* How far a write index is ahead of the read index.
Ahead(x) == IF tail <= x THEN x - tail ELSE x + N - tail

\* What the steps of the reader rely on: the index it has read counts bytes
\* that are still there, the byte it has copied is the next one, and the cells
\* between the indices hold bytes.
Held ==
  /\ pc = "test" => Ahead(h) <= Used
  /\ pc = "store" => Used > 0 /\ byte = rb[tail]
  /\ \A i \in 0..Used - 1 : rb[Cell(i)] \in Byte

Inv == TypeOK /\ Held

LEMMA UsedRange == TypeOK => Used \in 0..N - 1
BY RingAssumption DEF TypeOK, Cells, Used

\* The bytes between the indices are a sequence.
LEMMA WaitingSeq ==
  TypeOK /\ Held => Waiting \in Seq(Byte) /\ Len(Waiting) = Used /\ Used \in Nat
<1> SUFFICES ASSUME TypeOK, Held
             PROVE  Waiting \in Seq(Byte) /\ Len(Waiting) = Used /\ Used \in Nat
  OBVIOUS
<1>1. Used \in Nat BY UsedRange, RingAssumption
<1>2. \A i \in 1..Used : rb[Cell(i - 1)] \in Byte BY <1>1 DEF Held
<1>3. Waiting \in [1..Used -> Byte] BY <1>2 DEF Waiting
<1>4. Waiting \in Seq(Byte) BY <1>1, <1>3, SeqDef
<1>5. Len(Waiting) = Used BY <1>1, <1>3, <1>4, LenProperties
<1>6. QED BY <1>1, <1>4, <1>5

LEMMA WaitingSeqNext ==
  (TypeOK /\ Held => Waiting \in Seq(Byte) /\ Len(Waiting) = Used /\ Used \in Nat)'
BY WaitingSeq, PTL

-----------------------------------------------------------------------------
(***************************************************************************)
(* What the steps do to the waiting bytes.                                 *)
(***************************************************************************)

\* A stored byte is the last of the queue; a ring with room for it had fewer
\* than N - 1.
LEMMA StoreRoom ==
  ASSUME Inv, NEW b \in Byte, ~Full, TypeOK', Held',
         rb' = [rb EXCEPT ![head] = b], head' = NextIndex(head), UNCHANGED tail
  PROVE  Used < N - 1 /\ Used' = Used + 1 /\ Waiting' = Append(Waiting, b)
<1>0. TypeOK /\ Held /\ N \in Nat /\ N > 1 /\ head \in 0..N - 1 /\ tail \in 0..N - 1
  BY RingAssumption DEF Inv, TypeOK, Cells
<1>1. NextIndex(head) = IF head = N - 1 THEN 0 ELSE head + 1
  BY <1>0, NextIndexRound DEF TypeOK
<1>2. Used < N - 1 /\ Used' = Used + 1 BY <1>0, <1>1 DEF Full, Used
<1>3. /\ Waiting \in Seq(Byte) /\ Len(Waiting) = Used /\ Used \in Nat
      /\ Waiting' \in Seq(Byte) /\ Len(Waiting') = Used'
  BY <1>0, WaitingSeq, WaitingSeqNext
<1>4. Append(Waiting, b) \in Seq(Byte) /\ Len(Append(Waiting, b)) = Used + 1
  BY <1>3, AppendProperties
<1>5. ASSUME NEW i \in 1..Used + 1 PROVE Waiting'[i] = Append(Waiting, b)[i]
  <2>1. Cell(i - 1)' = Cell(i - 1) BY DEF Cell
  <2>2. Waiting'[i] = rb'[Cell(i - 1)] BY <1>2, <2>1 DEF Waiting
  <2>3. CASE i <= Used
    <3>1. Cell(i - 1) # head /\ Cell(i - 1) \in 0..N - 1 BY <1>0, <1>3, <2>3 DEF Cell, Used
    <3>2. rb'[Cell(i - 1)] = rb[Cell(i - 1)] BY <3>1, <1>0 DEF TypeOK, Cells
    <3>3. Waiting[i] = rb[Cell(i - 1)] BY <1>3, <2>3 DEF Waiting
    <3>4. Append(Waiting, b)[i] = Waiting[i] BY <1>3, <2>3, AppendProperties
    <3>5. QED BY <2>2, <3>2, <3>3, <3>4
  <2>4. CASE i = Used + 1
    <3>1. Cell(i - 1) = head BY <1>0, <1>3, <2>4 DEF Cell, Used
    <3>2. rb'[head] = b BY <1>0 DEF TypeOK, Cells
    <3>3. Append(Waiting, b)[i] = b BY <1>3, <2>4, AppendProperties
    <3>4. QED BY <2>2, <3>1, <3>2, <3>3
  <2>5. QED BY <1>3, <2>3, <2>4
<1>6. QED BY <1>2, <1>3, <1>4, <1>5, SeqEqual

\* A ring that is full holds N - 1 bytes.
LEMMA FullRoom == ASSUME TypeOK, Full PROVE Used = N - 1
<1>1. NextIndex(head) = IF head = N - 1 THEN 0 ELSE head + 1
  BY NextIndexRound DEF TypeOK
<1>2. QED BY <1>1, RingAssumption DEF Full, Used, TypeOK, Cells

\* A cell given back held the first byte of the queue.
LEMMA FreeHead ==
  ASSUME Inv, Used > 0, TypeOK', Held',
         tail' = NextIndex(tail), UNCHANGED <<rb, head>>
  PROVE  /\ Used' = Used - 1
         /\ Waiting # <<>> /\ Head(Waiting) = rb[tail] /\ Waiting' = Tail(Waiting)
<1>0. TypeOK /\ Held /\ N \in Nat /\ N > 1 /\ head \in 0..N - 1 /\ tail \in 0..N - 1
  BY RingAssumption DEF Inv, TypeOK, Cells
<1>1. NextIndex(tail) = IF tail = N - 1 THEN 0 ELSE tail + 1
  BY <1>0, NextIndexRound DEF TypeOK
<1>2. Used' = Used - 1 BY <1>0, <1>1 DEF Used
<1>3. /\ Waiting \in Seq(Byte) /\ Len(Waiting) = Used /\ Used \in Nat \ {0}
      /\ Waiting' \in Seq(Byte) /\ Len(Waiting') = Used'
  BY <1>0, WaitingSeq, WaitingSeqNext
<1>4. Waiting # <<>> BY <1>3
<1>5. Cell(0) = tail BY <1>0 DEF Cell
<1>6. Waiting[1] = rb[Cell(1 - 1)] BY <1>3 DEF Waiting
<1>7. Head(Waiting) = rb[tail] BY <1>3, <1>4, <1>5, <1>6
<1>8. /\ Tail(Waiting) \in Seq(Byte) /\ Len(Tail(Waiting)) = Used - 1
      /\ \A i \in 1..Used - 1 : Tail(Waiting)[i] = Waiting[i + 1]
  BY <1>3, <1>4, HeadTailProperties
<1>9. ASSUME NEW i \in 1..Used - 1 PROVE Waiting'[i] = Tail(Waiting)[i]
  <2>1. Cell(i - 1)' = Cell(i) BY <1>0, <1>1, <1>3 DEF Cell, Used
  <2>2. Waiting'[i] = rb[Cell(i)] BY <1>2, <2>1 DEF Waiting
  <2>3. i + 1 \in 1..Used /\ i + 1 - 1 = i BY <1>3
  <2>4. Waiting[i + 1] = rb[Cell(i)] BY <2>3 DEF Waiting
  <2>5. QED BY <1>8, <2>2, <2>4
<1>10. Waiting' = Tail(Waiting) BY <1>2, <1>3, <1>8, <1>9, SeqEqual
<1>11. QED BY <1>2, <1>4, <1>7, <1>10

-----------------------------------------------------------------------------
(***************************************************************************)
(* Types and Held.                                                         *)
(***************************************************************************)

LEMMA InvInit == Init => Inv
<1> SUFFICES ASSUME Init PROVE Inv OBVIOUS
<1>1. N \in Nat /\ N > 1 BY RingAssumption
<1>2. TypeOK
  <2>1. MaxCame \in Nat /\ MaxLost \in Nat BY BoundsAssumption
  <2>2. <<>> \in Seq(Byte) /\ Len(<<>>) = 0 BY EmptySeq
  <2>3. QED BY <1>1, <2>1, <2>2 DEF Init, TypeOK, Cells
<1>3. Used = 0 BY <1>1 DEF Init, Used
<1>4. Held BY <1>3 DEF Init, Held
<1>5. QED BY <1>2, <1>4 DEF Inv

\* The interrupt, whatever the reader is doing.
LEMMA IrqInv == Inv /\ RxIrqService => Inv'
<1> SUFFICES ASSUME Inv, RxIrqService PROVE Inv' OBVIOUS
<1>0. /\ TypeOK /\ Held /\ N \in Nat /\ N > 1 /\ head \in Cells /\ tail \in Cells
      /\ dr \in Byte /\ h \in Cells
  BY RingAssumption DEF Inv, TypeOK, RxIrqService
<1>1. UNCHANGED <<port, deaf, pc, h, byte, tail, got>> /\ dr' = NoByte
  BY DEF RxIrqService, Store, ring, hist
<1>2. CASE deaf
  <2>1. UNCHANGED <<rb, head, lost, came, gap>> BY <1>2 DEF RxIrqService, ring, hist
  <2>2. TypeOK' BY <1>0, <1>1, <2>1 DEF TypeOK
  <2>3. Held' BY <1>0, <1>1, <2>1 DEF Held, Ahead, Used, Cell
  <2>4. QED BY <2>2, <2>3 DEF Inv
<1>3. CASE ~deaf /\ Full
  <2>1. /\ UNCHANGED <<rb, head>> /\ lost < MaxLost /\ lost' = lost + 1 /\ gap' = TRUE
        /\ Len(came) < MaxCame /\ came' = Append(came, dr)
    BY <1>3 DEF RxIrqService, Store
  <2>2. came' \in Seq(Byte) /\ Len(came') <= MaxCame
    BY <1>0, <2>1, AppendProperties, LenProperties, BoundsAssumption DEF TypeOK
  <2>3. lost' \in 0..MaxLost BY <1>0, <2>1, BoundsAssumption DEF TypeOK
  <2>4. TypeOK' BY <1>0, <1>1, <2>1, <2>2, <2>3 DEF TypeOK
  <2>5. Held' BY <1>0, <1>1, <2>1 DEF Held, Ahead, Used, Cell
  <2>6. QED BY <2>4, <2>5 DEF Inv
<1>4. CASE ~deaf /\ ~Full
  <2>1. /\ rb' = [rb EXCEPT ![head] = dr] /\ head' = NextIndex(head)
        /\ UNCHANGED <<lost, gap>>
        /\ Len(came) < MaxCame /\ came' = Append(came, dr)
    BY <1>4 DEF RxIrqService, Store
  <2>2. came' \in Seq(Byte) /\ Len(came') <= MaxCame
    BY <1>0, <2>1, AppendProperties, LenProperties, BoundsAssumption DEF TypeOK
  <2>3. head' = IF head = N - 1 THEN 0 ELSE head + 1 BY <1>0, <2>1, NextIndexRound
  <2>4. head' \in Cells /\ rb' \in [Cells -> Byte \cup {NoByte}]
    BY <1>0, <2>1, <2>3 DEF TypeOK, Cells
  <2>5. TypeOK' BY <1>0, <1>1, <2>1, <2>2, <2>4 DEF TypeOK
  <2>6. Used' = Used + 1 BY <1>0, <1>1, <1>4, <2>1, <2>3 DEF Full, Used, Cells
  <2>7. Used \in Nat BY <1>0, UsedRange
  <2>8. pc' = "test" => Ahead(h)' <= Used'
    <3> SUFFICES ASSUME pc = "test" PROVE Ahead(h)' <= Used' BY <1>1
    <3>1. Ahead(h)' = Ahead(h) BY <1>1 DEF Ahead
    <3>2. Ahead(h) <= Used /\ Ahead(h) \in Int BY <1>0 DEF Held, Ahead, Cells
    <3>3. QED BY <2>6, <2>7, <3>1, <3>2
  <2>9. pc' = "store" => Used' > 0 /\ byte' = rb'[tail']
    <3> SUFFICES ASSUME pc = "store" PROVE Used' > 0 /\ byte' = rb'[tail'] BY <1>1
    <3>1. Used > 0 /\ byte = rb[tail] BY <1>0 DEF Held
    <3>2. head # tail BY <1>0, <3>1 DEF Used, Cells
    <3>3. rb'[tail] = rb[tail] BY <1>0, <2>1, <3>2 DEF TypeOK
    <3>4. QED BY <1>1, <2>6, <2>7, <3>1, <3>3
  <2>10. ASSUME NEW i \in 0..Used PROVE rb'[Cell(i)] \in Byte
    <3>1. CASE i < Used
      <4>1. Cell(i) # head /\ Cell(i) \in Cells BY <1>0, <2>7, <3>1 DEF Cell, Used, Cells
      <4>2. rb[Cell(i)] \in Byte BY <1>0, <2>7, <3>1 DEF Held
      <4>3. QED BY <1>0, <2>1, <4>1, <4>2 DEF TypeOK
    <3>2. CASE i = Used
      <4>1. Cell(i) = head BY <1>0, <3>2 DEF Cell, Used, Cells
      <4>2. QED BY <1>0, <2>1, <4>1 DEF TypeOK
    <3>3. QED BY <2>7, <3>1, <3>2
  <2>11. \A i \in 0..Used' - 1 : rb'[Cell(i)'] \in Byte
    <3>1. \A i : Cell(i)' = Cell(i) BY <1>1 DEF Cell
    <3>2. QED BY <2>6, <2>7, <2>10, <3>1
  <2>12. Held' BY <2>8, <2>9, <2>11 DEF Held
  <2>13. QED BY <2>5, <2>12 DEF Inv
<1>5. QED BY <1>2, <1>3, <1>4

\* The byte the reader has copied is one that came.
LEMMA NextByte == Inv /\ pc = "store" => byte = rb[tail] /\ byte \in Byte /\ Used > 0
<1> SUFFICES ASSUME Inv, pc = "store" PROVE byte = rb[tail] /\ byte \in Byte /\ Used > 0
  OBVIOUS
<1>1. Used > 0 /\ byte = rb[tail] /\ Used \in Nat BY UsedRange, RingAssumption DEF Inv, Held
<1>2. Cell(0) = tail BY RingAssumption DEF Inv, TypeOK, Cell, Cells
<1>3. 0 \in 0..Used - 1 BY <1>1
<1>4. rb[Cell(0)] \in Byte BY <1>3 DEF Inv, Held
<1>5. QED BY <1>1, <1>2, <1>4

\* The cell is given back.
LEMMA FreeInv == Inv /\ FreeCell => Inv'
<1> SUFFICES ASSUME Inv, FreeCell PROVE Inv' OBVIOUS
<1>0. /\ TypeOK /\ Held /\ N \in Nat /\ N > 1 /\ head \in Cells /\ tail \in Cells
      /\ byte \in Byte /\ Used > 0 /\ Used \in Nat
  BY RingAssumption, NextByte, UsedRange DEF Inv, TypeOK, FreeCell
<1>1. /\ UNCHANGED <<port, rb, head, lost, deaf, dr, h, byte, came, gap>>
      /\ tail' = NextIndex(tail) /\ got' = Append(got, byte) /\ pc' \in {"idle", "recv"}
  BY DEF FreeCell, Goto
<1>2. tail' = IF tail = N - 1 THEN 0 ELSE tail + 1 BY <1>0, <1>1, NextIndexRound
<1>3. got' \in Seq(Byte) BY <1>0, <1>1, AppendProperties DEF TypeOK
<1>4. tail' \in Cells BY <1>0, <1>2 DEF Cells
<1>5. TypeOK' BY <1>0, <1>1, <1>3, <1>4 DEF TypeOK
<1>6. Used' = Used - 1 BY <1>0, <1>1, <1>2 DEF Used, Cells
<1>7. ASSUME NEW i \in 0..Used' - 1 PROVE rb'[Cell(i)'] \in Byte
  <2>1. Cell(i)' = Cell(i + 1) BY <1>0, <1>1, <1>2, <1>6 DEF Cell, Used, Cells
  <2>2. i + 1 \in 0..Used - 1 BY <1>0, <1>6
  <2>3. QED BY <1>0, <1>1, <2>1, <2>2 DEF Held
<1>8. Held' BY <1>1, <1>7 DEF Held
<1>9. QED BY <1>5, <1>8 DEF Inv

\* Every other step.
LEMMA OtherInv ==
  /\ Inv
  /\ \/ \E b \in Byte : Arrives(b)
     \/ RxFlush \/ Drain \/ EnterTx \/ EnterRx \/ LoadHead \/ TestEmpty \/ CopyByte \/ Wait
     \/ UNCHANGED vars
  => Inv'
<1> SUFFICES ASSUME Inv,
                    \/ \E b \in Byte : Arrives(b)
                    \/ RxFlush \/ Drain \/ EnterTx \/ EnterRx \/ LoadHead
                    \/ TestEmpty \/ CopyByte \/ Wait
                    \/ UNCHANGED vars
             PROVE  Inv'
  OBVIOUS
<1>0. TypeOK /\ Held /\ N \in Nat /\ N > 1 /\ head \in Cells /\ tail \in Cells
  BY RingAssumption DEF Inv, TypeOK
<1>1. CASE RxFlush
  <2>1. <<>> \in Seq(Byte) /\ Len(<<>>) = 0 BY EmptySeq
  <2>2. MaxCame \in Nat BY BoundsAssumption
  <2>3. /\ UNCHANGED <<port, rb, head, lost, deaf, dr, h, byte>> /\ tail' = head
        /\ pc' = "drain" /\ got' = <<>> /\ came' = <<>> /\ gap' = FALSE
    BY <1>1 DEF RxFlush, Goto, Flushed
  <2>7. got' \in Seq(Byte) /\ came' \in Seq(Byte) /\ Len(came') <= MaxCame
    BY <2>1, <2>2, <2>3
  <2>8. TypeOK' BY <1>0, <2>3, <2>7 DEF TypeOK
  <2>4. Used' = 0 /\ pc' = "drain" BY <1>0, <1>1 DEF RxFlush, Used, Goto, Flushed, Cells
  <2>5. Held' BY <2>4 DEF Held
  <2>6. QED BY <2>8, <2>5 DEF Inv
<1>2. CASE LoadHead
  <2>1. TypeOK' BY <1>0, <1>2 DEF LoadHead, TypeOK, Goto, ring, hist
  <2>2. UNCHANGED <<rb, head, tail>> /\ h' = head /\ pc' = "test"
    BY <1>2 DEF LoadHead, Goto, ring
  <2>3. Ahead(h)' = Used' /\ Used' \in Int BY <1>0, <2>2 DEF Ahead, Used, Cells
  <2>4. Held' BY <1>0, <2>2, <2>3 DEF Held, Used, Cell
  <2>5. QED BY <2>1, <2>4 DEF Inv
<1>3. CASE CopyByte
  <2>1. /\ UNCHANGED <<port, rb, head, tail, lost, deaf, dr, h, got, came, gap>>
        /\ pc = "test" /\ h # tail /\ pc' = "store" /\ byte' = rb[tail]
    BY <1>3 DEF CopyByte, Goto, ring, hist
  <2>2. TypeOK' BY <1>0, <2>1 DEF TypeOK
  <2>3. Ahead(h) <= Used /\ h \in Cells BY <1>0, <2>1 DEF Held, TypeOK
  <2>4. Used > 0 BY <1>0, <2>1, <2>3 DEF Ahead, Used, Cells
  <2>5. Used' = Used /\ \A i : Cell(i)' = Cell(i) BY <2>1 DEF Used, Cell
  <2>6. Held' BY <1>0, <2>1, <2>4, <2>5 DEF Held
  <2>7. QED BY <2>2, <2>6 DEF Inv
<1>4. CASE \/ \E b \in Byte : Arrives(b)
           \/ Drain \/ EnterTx \/ EnterRx \/ TestEmpty \/ Wait \/ UNCHANGED vars
  <2>1. /\ UNCHANGED <<port, rb, head, tail, lost, h, byte, got, came, gap>>
        /\ deaf' \in BOOLEAN /\ dr' \in Byte \cup {NoByte}
        /\ \/ UNCHANGED pc
           \/ pc' \in {"send", "sending", "recv", "wait", "idle"}
    BY <1>0, <1>4
    DEF Arrives, Drain, EnterTx, EnterRx, TestEmpty, Wait, Goto, vars, ring, hist, TypeOK
  <2>2. TypeOK' BY <1>0, <2>1 DEF TypeOK
  <2>3. Used' = Used /\ (\A i : Cell(i)' = Cell(i)) /\ Ahead(h)' = Ahead(h)
    BY <2>1 DEF Used, Cell, Ahead
  <2>4. Held' BY <1>0, <2>1, <2>3 DEF Held
  <2>5. QED BY <2>2, <2>4 DEF Inv
<1>5. QED BY <1>1, <1>2, <1>3, <1>4

LEMMA InvNext == Inv /\ [Next]_vars => Inv'
BY IrqInv, FreeInv, OtherInv DEF Next, ReadByte

LEMMA Invariance == Spec => []Inv
BY InvInit, InvNext, PTL DEF Spec

\* The indices stay in the ring, and its cells and the sequences hold bytes.
THEOREM TypeCorrect == Spec => []TypeOK
<1>1. Inv => TypeOK BY DEF Inv
<1>2. QED BY <1>1, Invariance, PTL

\* A byte the reader takes is one the interrupt has put into the ring, and the
\* interrupt does not touch it in between.
THEOREM ReaderHolds == Spec => []Held
<1>1. Inv => Held BY DEF Inv
<1>2. QED BY <1>1, Invariance, PTL

-----------------------------------------------------------------------------
(***************************************************************************)
(* The ring implements the queue, and the answer is what came.             *)
(***************************************************************************)

\* An interrupt is a byte taken or dropped by the queue, or one the queue never
\* hears of because the port is deaf.
LEMMA IrqQueue ==
  ASSUME Inv, Inv', RxIrqService
  PROVE  \/ dr \in Byte /\ (Queue!Take(dr) \/ Queue!Drop(dr))
         \/ UNCHANGED Queue!vars
<1>0. TypeOK /\ Held /\ dr \in Byte BY DEF Inv, TypeOK, RxIrqService
<1>1. UNCHANGED <<tail, got>> BY DEF RxIrqService, Store, ring, hist
<1>2. CASE deaf
  <2>1. UNCHANGED <<rb, head, lost, came>> BY <1>2 DEF RxIrqService, ring, hist
  <2>2. Waiting' = Waiting BY <1>1, <2>1 DEF Waiting, Used, Cell
  <2>3. QED BY <1>1, <2>1, <2>2 DEF Queue!vars
<1>3. CASE ~deaf /\ Full
  <2>1. UNCHANGED <<rb, head>> /\ lost' = lost + 1 /\ came' = Append(came, dr)
    BY <1>3 DEF RxIrqService, Store
  <2>2. Waiting' = Waiting BY <1>1, <2>1 DEF Waiting, Used, Cell
  <2>3. Len(Waiting) = N - 1 BY <1>0, <1>3, FullRoom, WaitingSeq
  <2>4. QED BY <1>0, <1>1, <2>1, <2>2, <2>3 DEF Queue!Drop
<1>4. CASE ~deaf /\ ~Full
  <2>1. /\ rb' = [rb EXCEPT ![head] = dr] /\ head' = NextIndex(head)
        /\ UNCHANGED lost /\ came' = Append(came, dr)
    BY <1>4 DEF RxIrqService, Store
  <2>2. Used < N - 1 /\ Waiting' = Append(Waiting, dr)
    BY <1>0, <1>1, <1>4, <2>1, StoreRoom DEF Inv
  <2>3. Len(Waiting) < N - 1 BY <1>0, <2>2, WaitingSeq
  <2>4. QED BY <1>0, <1>1, <2>1, <2>2, <2>3 DEF Queue!Take
<1>5. QED BY <1>2, <1>3, <1>4

LEMMA FreeQueue ==
  ASSUME Inv, Inv', FreeCell
  PROVE  Queue!Read
<1>1. byte = rb[tail] /\ Used > 0 BY NextByte DEF FreeCell
<1>2. /\ UNCHANGED <<rb, head, lost, came>>
      /\ tail' = NextIndex(tail) /\ got' = Append(got, byte)
  BY DEF FreeCell
<1>3. Waiting # <<>> /\ Head(Waiting) = rb[tail] /\ Waiting' = Tail(Waiting)
  BY <1>1, <1>2, FreeHead DEF Inv
<1>4. QED BY <1>1, <1>2, <1>3 DEF Queue!Read

\* Nothing waits when the indices are equal.
LEMMA NoneWaiting == TypeOK /\ Held /\ Used = 0 => Waiting = <<>>
BY WaitingSeq, EmptySeq

LEMMA NoneWaitingNext == (TypeOK /\ Held /\ Used = 0 => Waiting = <<>>)'
BY NoneWaiting, PTL

LEMMA FlushQueue ==
  ASSUME Inv, Inv', RxFlush
  PROVE  Queue!Flush
<1>1. head \in 0..N - 1 /\ N \in Nat BY RingAssumption DEF Inv, TypeOK, Cells
<1>2. Used' = 0 BY <1>1 DEF RxFlush, Used, Flushed
<1>3. Waiting' = <<>> BY <1>2, NoneWaitingNext DEF Inv
<1>4. QED BY <1>3 DEF RxFlush, Queue!Flush

\* The other steps leave the queue alone.
LEMMA OtherQueue ==
  ASSUME \/ \E b \in Byte : Arrives(b)
         \/ Drain \/ EnterTx \/ EnterRx \/ LoadHead \/ TestEmpty \/ CopyByte \/ Wait
         \/ UNCHANGED vars
  PROVE  UNCHANGED <<rb, head, tail, lost, got, came, gap, Waiting>>
<1>1. UNCHANGED <<rb, head, tail, lost, got, came, gap>>
  BY DEF Arrives, Drain, EnterTx, EnterRx, LoadHead, TestEmpty, CopyByte, Wait, vars, ring, hist
<1>2. QED BY <1>1 DEF Waiting, Used, Cell

\* The ring with its interrupt and its reader implements a bounded queue with
\* room for one byte less than it has cells, for every size of the ring.
THEOREM RingIsByteQueue == Spec => IsByteQueue
<1>1. Init => Queue!Init
  <2> SUFFICES ASSUME Init PROVE Queue!Init OBVIOUS
  <2>1. Used = 0 BY DEF Init, Used
  <2>2. Waiting = <<>> BY <2>1, InvInit, NoneWaiting DEF Inv
  <2>3. QED BY <2>2 DEF Init, Queue!Init
<1>2. Inv /\ Inv' /\ [Next]_vars => [Queue!Next]_(Queue!vars)
  <2> SUFFICES ASSUME Inv, Inv', [Next]_vars PROVE [Queue!Next]_(Queue!vars) OBVIOUS
  <2>1. CASE RxIrqService BY <2>1, IrqQueue DEF Queue!Next
  <2>2. CASE FreeCell BY <2>2, FreeQueue DEF Queue!Next
  <2>3. CASE RxFlush BY <2>3, FlushQueue DEF Queue!Next
  <2>4. CASE \/ \E b \in Byte : Arrives(b)
             \/ Drain \/ EnterTx \/ EnterRx \/ LoadHead \/ TestEmpty \/ CopyByte \/ Wait
             \/ UNCHANGED vars
    BY <2>4, OtherQueue DEF Queue!vars
  <2>5. QED BY <2>1, <2>2, <2>3, <2>4 DEF Next, ReadByte
<1>3. QED BY <1>1, <1>2, Invariance, PTL DEF Spec, IsByteQueue, Queue!Spec

LEMMA AnswerNext == Inv /\ Inv' /\ AnswerIsWhatCame /\ [Next]_vars => AnswerIsWhatCame'
<1> SUFFICES ASSUME Inv, Inv', AnswerIsWhatCame, [Next]_vars, ~gap'
             PROVE  got' \o Waiting' = came'
  BY DEF AnswerIsWhatCame
<1>1. /\ got \in Seq(Byte) /\ came \in Seq(Byte) /\ Waiting \in Seq(Byte)
  BY WaitingSeq DEF Inv, TypeOK
<1>2. CASE RxIrqService
  <2>1. ~gap BY <1>2 DEF RxIrqService, Store, hist
  <2>2. UNCHANGED got BY <1>2 DEF RxIrqService, Store, hist
  <2>3. CASE UNCHANGED Queue!vars
    BY <2>1, <2>2, <2>3 DEF Queue!vars, AnswerIsWhatCame
  <2>4. CASE dr \in Byte /\ Queue!Take(dr)
    <3>1. Waiting' = Append(Waiting, dr) /\ came' = Append(came, dr) BY <2>4 DEF Queue!Take
    <3>2. got \o Append(Waiting, dr) = Append(got \o Waiting, dr) BY <1>1, <2>4, GrowTail
    <3>3. QED BY <2>1, <2>2, <3>1, <3>2 DEF AnswerIsWhatCame
  <2>5. CASE dr \in Byte /\ Queue!Drop(dr)
    <3>1. Len(Waiting) = N - 1 /\ lost' = lost + 1 /\ Waiting' = Waiting
      BY <2>5 DEF Queue!Drop
    <3>2. lost \in Nat /\ lost' # lost BY <3>1, BoundsAssumption DEF Inv, TypeOK
    <3>3. gap' BY <1>2, <3>2 DEF RxIrqService, Store, ring
    <3>4. QED BY <3>3
  <2>6. QED BY <1>2, <2>3, <2>4, <2>5, IrqQueue
<1>3. CASE FreeCell
  <2>1. ~gap BY <1>3 DEF FreeCell
  <2>2. /\ Waiting # <<>> /\ got' = Append(got, Head(Waiting))
        /\ Waiting' = Tail(Waiting) /\ came' = came
    BY <1>3, FreeQueue DEF Queue!Read
  <2>3. Append(got, Head(Waiting)) \o Tail(Waiting) = got \o Waiting
    BY <1>1, <2>2, MoveHead
  <2>4. QED BY <2>1, <2>2, <2>3 DEF AnswerIsWhatCame
<1>4. CASE RxFlush
  <2>1. Waiting' = <<>> /\ got' = <<>> /\ came' = <<>> BY <1>4, FlushQueue DEF Queue!Flush
  <2>2. <<>> \o <<>> = <<>> BY ConcatEmptySeq, EmptySeq
  <2>3. QED BY <2>1, <2>2
<1>5. CASE \/ \E b \in Byte : Arrives(b)
           \/ Drain \/ EnterTx \/ EnterRx \/ LoadHead \/ TestEmpty \/ CopyByte \/ Wait
           \/ UNCHANGED vars
  BY <1>5, OtherQueue DEF AnswerIsWhatCame
<1>6. QED BY <1>2, <1>3, <1>4, <1>5 DEF Next, ReadByte

\* What the reader has and what still waits is what came since the flush, in
\* order, unless the ring was full, for every size of the ring.
THEOREM AnswerComplete == Spec => []AnswerIsWhatCame
<1>1. Init => AnswerIsWhatCame
  <2> SUFFICES ASSUME Init PROVE got \o Waiting = came BY DEF AnswerIsWhatCame
  <2>1. Used = 0 BY DEF Init, Used
  <2>2. Waiting = <<>> BY <2>1, InvInit, NoneWaiting DEF Inv
  <2>3. <<>> \o <<>> = <<>> BY ConcatEmptySeq, EmptySeq
  <2>4. QED BY <2>2, <2>3 DEF Init
<1>2. QED BY <1>1, AnswerNext, Invariance, PTL DEF Spec
=============================================================================
