--------------------------- MODULE TextLinkProofs ---------------------------
(***************************************************************************)
(* Theorems of TextLink: its types, what a trusted table is, that it keeps *)
(* the promise of MatrixLink, that a frame counts if no line is lost, and  *)
(* which of a window wins, for every set of connections and frames, every  *)
(* number of slots and every build.                                        *)
(***************************************************************************)
EXTENDS TextLink, FiniteSetTheorems, WellFoundedInduction, TLAPS

\* A row, a checksum of a frame in fs, or what parts of lines may read as.
Known(t, fs)    == t \in Odd \/ \E f \in fs : \E k \in DOMAIN f.rows : t = f.rows[k]
KnownSum(n, fs) == n \in OddSums \/ \E f \in fs : n = Checksum(f.rows)

AllKnown(rows, fs) == \A i \in DOMAIN rows : Known(rows[i], fs)

\* Rows that are some, with the checksum of a frame; and no two for one cell.
Sound(rows, fs) == rows # <<>> /\ AllKnown(rows, fs) /\ KnownSum(Checksum(rows), fs)
Fit(rows, fs)   == Sound(rows, fs) /\ Valid(rows)

Server_OK ==
  /\ sending \in [Conns -> Position]
  /\ fed \in Conns \cup {NoConn} /\ (fed # NoConn => Open(fed))
  /\ buf \in Conns \cup {Nothing, Joined}
  /\ heard \subseteq Frames /\ alone \in Conns \cup {NoConn} /\ lost \in BOOLEAN

Window_OK ==
  /\ build \in Builds /\ gate \in BOOLEAN
  /\ cands \in Seq(Seq(Text)) /\ Len(cands) < build.window
  /\ \A i \in DOMAIN cands : Fit(cands[i], heard)

Frame_OK ==
  /\ st \in {"idle", "body", "wait"}
  /\ decl \in 0..Slots
  /\ body \in Seq(Text) /\ Len(body) <= Slots /\ AllKnown(body, heard)
  /\ st = "body" => decl # 0
  /\ st = "wait" => Sound(body, heard)

Table_OK == table \in Seq(Text) /\ lastOk \in BOOLEAN /\ TrustedIsCommitted

Inv == Server_OK /\ Window_OK /\ Frame_OK /\ Table_OK

\* What a line may carry, frames in fs having been heard.
Readable(l, fs) ==
  /\ l.kind = "row" => l.text \in Text /\ Known(l.text, fs)
  /\ l.kind = "end" /\ l.fmt => KnownSum(l.chk, fs)

-----------------------------------------------------------------------------
LEMMA BestIn ==
  ASSUME NEW w \in Seq(Seq(Text)), w # <<>>
  PROVE  Best(w) \in DOMAIN w
<1>1. \A i \in {2, 3, 4}, b \in DOMAIN w : Better(w, i, b) \in DOMAIN w
  BY DEF Better
<1>2. 1 \in DOMAIN w
  OBVIOUS
<1> QED BY <1>1, <1>2 DEF Best

LEMMA LineIs ==
  ASSUME NEW f \in Frames, NEW i \in 1..LinesOf(f)
  PROVE  /\ f.rows \in Seq(Text) /\ LinesOf(f) = Len(f.rows) + 3
         /\ i = 1 => Line(f, i) = Start(f.count)
         /\ i \in 2..LinesOf(f) - 2 => i - 1 \in DOMAIN f.rows /\ Line(f, i) = Row(f.rows[i - 1])
         /\ i = LinesOf(f) - 1 => Line(f, i) = End(Checksum(f.rows))
         /\ i = LinesOf(f) => Line(f, i) = Total(f.total)
<1>1. f.rows \in Seq(Text) /\ LinesOf(f) = Len(f.rows) + 3
  BY FramesAssumption DEF LinesOf
<1>2. i \in 2..LinesOf(f) - 2 => i - 1 \in DOMAIN f.rows
  BY <1>1
<1> HIDE DEF LinesOf
<1> QED BY <1>1, <1>2 DEF Line

LEMMA LineReadable ==
  ASSUME NEW f \in Frames, NEW i \in 1..LinesOf(f), NEW fs, f \in fs
  PROVE  Readable(Line(f, i), fs)
<1>1. CASE i = 1
  BY <1>1, LineIs DEF Readable, Start
<1>2. CASE i \in 2..LinesOf(f) - 2
  <2>1. /\ f.rows \in Seq(Text) /\ i - 1 \in DOMAIN f.rows
        /\ Line(f, i) = Row(f.rows[i - 1])
    BY <1>2, LineIs
  <2>2. f.rows[i - 1] \in Text /\ Known(f.rows[i - 1], fs)
    BY <2>1 DEF Known
  <2> QED BY <2>1, <2>2 DEF Readable, Row
<1>3. CASE i = LinesOf(f) - 1
  <2>1. Line(f, i) = End(Checksum(f.rows))
    BY <1>3, LineIs
  <2> QED BY <2>1 DEF Readable, End, KnownSum
<1>4. CASE i = LinesOf(f)
  BY <1>4, LineIs DEF Readable, Total
<1>5. LinesOf(f) \in Nat
  BY LineIs
<1> QED BY <1>1, <1>2, <1>3, <1>4, <1>5

LEMMA JoinedReadable ==
  ASSUME NEW fs, NEW l \in JoinedLines(fs)
  PROVE  Readable(l, fs)
<1>1. CASE l \in {Start(n) : n \in 0..Slots}
  BY <1>1 DEF Readable, Start
<1>2. CASE l \in {Row(t) : t \in Odd}
  BY <1>2, FramesAssumption DEF Readable, Row, Known
<1>3. CASE l \in {End(n) : n \in {Checksum(f.rows) : f \in fs} \cup OddSums}
  <2>1. PICK n : l = End(n) /\ (n \in OddSums \/ \E f \in fs : n = Checksum(f.rows))
    BY <1>3
  <2> QED BY <2>1 DEF Readable, End, KnownSum
<1>4. CASE l \in {BadEnd, Total(TRUE), Total(FALSE), Long}
  BY <1>4 DEF Readable, BadEnd, Total, Long
<1> QED BY <1>1, <1>2, <1>3, <1>4 DEF JoinedLines

-----------------------------------------------------------------------------
\* A line keeps the parser in order.

LEMMA EmptyRows == <<>> \in Seq(Text) /\ Len(<<>>) = 0 /\ \A fs : AllKnown(<<>>, fs)
BY DEF AllKnown

\* What was known stays known as more is heard.
LEMMA KnownGrows ==
  ASSUME NEW rows, NEW fs, NEW gs, fs \subseteq gs
  PROVE  /\ AllKnown(rows, fs) => AllKnown(rows, gs)
         /\ Sound(rows, fs) => Sound(rows, gs)
         /\ Fit(rows, fs) => Fit(rows, gs)
<1>1. AllKnown(rows, fs) => AllKnown(rows, gs)
  BY DEF AllKnown, Known
<1>2. KnownSum(Checksum(rows), fs) => KnownSum(Checksum(rows), gs)
  BY DEF KnownSum
<1> QED BY <1>1, <1>2 DEF Sound, Fit

LEMMA WindowFixed ==
  ASSUME Window_OK, UNCHANGED <<build, sampling>>, heard \subseteq heard'
  PROVE  Window_OK'
<1>1. \A i \in DOMAIN cands : Fit(cands[i], heard')
  BY KnownGrows DEF Window_OK
<1> QED BY <1>1 DEF Window_OK, sampling

LEMMA ResetOK == ASSUME Reset PROVE Frame_OK'
BY EmptyRows, SlotsAssumption DEF Reset, Frame_OK

LEMMA FailClearOK ==
  ASSUME Window_OK, FailClear, UNCHANGED build, heard \subseteq heard'
  PROVE  Window_OK' /\ Frame_OK' /\ Table_OK'
<1>1. Window_OK'
  BY WindowFixed DEF FailClear
<1>2. Frame_OK'
  BY ResetOK DEF FailClear
<1>3. Table_OK'
  BY EmptyRows DEF FailClear, Table_OK, TrustedIsCommitted
<1> QED BY <1>1, <1>2, <1>3

LEMMA IgnoreOK ==
  ASSUME Window_OK, Frame_OK, Table_OK, Ignore, UNCHANGED build, heard \subseteq heard'
  PROVE  Window_OK' /\ Frame_OK' /\ Table_OK'
<1>1. Window_OK'
  BY WindowFixed DEF Ignore, parser
<1>2. Frame_OK'
  <2>1. AllKnown(body, heard') /\ (st = "wait" => Sound(body, heard'))
    BY KnownGrows DEF Frame_OK
  <2> QED BY <2>1 DEF Ignore, parser, frame, Frame_OK
<1>3. Table_OK'
  BY DEF Ignore, parser, sampling, frame, result, Table_OK, TrustedIsCommitted
<1> QED BY <1>1, <1>2, <1>3

LEMMA TakeStartOK ==
  ASSUME NEW l, Window_OK, Frame_OK, Table_OK, TakeStart(l), UNCHANGED build,
         heard \subseteq heard'
  PROVE  Window_OK' /\ Frame_OK' /\ Table_OK'
<1>1. Window_OK'
  BY WindowFixed DEF TakeStart
<1>2. Frame_OK'
  <2>1. CASE Reset
    BY <2>1, ResetOK
  <2>2. CASE l.count \in 1..Slots /\ st' = "body" /\ decl' = l.count /\ body' = <<>>
    BY <2>2, EmptyRows, SlotsAssumption DEF Frame_OK
  <2> QED BY <2>1, <2>2 DEF TakeStart
<1>3. Table_OK'
  BY EmptyRows DEF TakeStart, Table_OK, TrustedIsCommitted
<1> QED BY <1>1, <1>2, <1>3

LEMMA TakeEndOK ==
  ASSUME NEW l, Window_OK, Frame_OK, Table_OK, TakeEnd(l), UNCHANGED build,
         heard \subseteq heard', Readable(l, heard')
  PROVE  Window_OK' /\ Frame_OK' /\ Table_OK'
<1>1. CASE ~(st = "body" /\ Agrees(l)) /\ FailClear
  BY <1>1, FailClearOK
<1>2. CASE /\ st = "body" /\ Agrees(l)
           /\ st' = "wait" /\ lastOk' = FALSE
           /\ UNCHANGED <<sampling, decl, body, table>>
  <2>1. Window_OK'
    BY <1>2, WindowFixed
  <2>2. body \in Seq(Text) /\ Len(body) <= Slots /\ decl \in 0..Slots /\ Len(body) # 0
    BY <1>2 DEF Frame_OK, Agrees
  <2>3. body # <<>> /\ AllKnown(body, heard')
    BY <2>2, KnownGrows DEF Frame_OK
  <2>4. KnownSum(Checksum(body), heard')
    BY <1>2 DEF Readable, Agrees, TakeEnd
  <2>5. Frame_OK'
    BY <1>2, <2>2, <2>3, <2>4 DEF Frame_OK, Sound
  <2>6. Table_OK'
    BY <1>2 DEF Table_OK, TrustedIsCommitted
  <2> QED BY <2>1, <2>5, <2>6
<1> QED BY <1>1, <1>2 DEF TakeEnd

\* The window with the frame that has ended.
LEMMA WindowWithFrame ==
  ASSUME Window_OK, Frame_OK, st = "wait", Valid(body), heard \subseteq heard'
  PROVE  LET window == Append(cands, body)
         IN  /\ window \in Seq(Seq(Text)) /\ Len(window) = Len(cands) + 1
             /\ \A i \in DOMAIN window : Fit(window[i], heard')
<1> DEFINE window == Append(cands, body)
<1>1. cands \in Seq(Seq(Text)) /\ body \in Seq(Text)
  BY DEF Window_OK, Frame_OK
<1>2. window \in Seq(Seq(Text)) /\ Len(window) = Len(cands) + 1
  BY <1>1
<1>3. ASSUME NEW i \in DOMAIN window
      PROVE  Fit(window[i], heard')
  <2>1. Fit(body, heard) /\ \A j \in DOMAIN cands : Fit(cands[j], heard)
    BY DEF Window_OK, Frame_OK, Fit
  <2>2. CASE i \in DOMAIN cands
    <3>1. window[i] = cands[i]
      BY <1>1, <2>2
    <3> QED BY <2>1, <2>2, <3>1, KnownGrows
  <2>3. CASE i \notin DOMAIN cands
    <3>1. window[i] = body
      BY <1>1, <1>2, <2>3
    <3> QED BY <2>1, <3>1, KnownGrows
  <2> QED BY <2>2, <2>3
<1> QED BY <1>2, <1>3

LEMMA TakeFrameOK ==
  ASSUME Window_OK, Frame_OK, Table_OK, st = "wait", TakeFrame, UNCHANGED build,
         heard \subseteq heard'
  PROVE  Window_OK' /\ Frame_OK' /\ Table_OK'
<1> DEFINE window == Append(cands, body)
<1>1. Frame_OK' /\ st' = "idle"
  BY ResetOK DEF TakeFrame, Reset
<1>2. window \in Seq(Seq(Text)) /\ Len(window) = Len(cands) + 1
  BY DEF Window_OK, Frame_OK
<1>3. build.window \in 1..4 /\ build.keepOpen \in BOOLEAN
  BY BuildsAssumption DEF Window_OK
<1>4. CASE ~Valid(body) /\ lastOk' = FALSE /\ UNCHANGED <<sampling, table>>
  BY <1>1, <1>4, WindowFixed DEF Table_OK, TrustedIsCommitted
<1>5. CASE Valid(body) /\ WindowFull(window) /\ Commit(window)
  <2>1. window # <<>>
    BY <1>2 DEF Window_OK
  <2>2. Best(window) \in DOMAIN window
    BY <1>2, <2>1, BestIn
  <2>3. table' \in Seq(Text) /\ table' # <<>>
    BY <1>2, <1>5, <2>2, WindowWithFrame DEF Commit, Fit, Sound
  <2>4. Table_OK'
    BY <1>1, <1>5, <2>3 DEF Table_OK, TrustedIsCommitted, Commit
  <2>5. Window_OK'
    BY <1>3, <1>5 DEF Window_OK, Commit
  <2> QED BY <1>1, <2>4, <2>5
<1>6. CASE /\ Valid(body) /\ ~WindowFull(window) /\ cands' = window
           /\ table' = <<>> /\ lastOk' = FALSE /\ UNCHANGED gate
  <2>1. Len(cands') < build.window
    BY <1>2, <1>3, <1>6 DEF WindowFull, Window_OK
  <2>2. \A i \in DOMAIN cands' : Fit(cands'[i], heard')
    BY <1>6, WindowWithFrame
  <2>3. Window_OK'
    BY <1>2, <1>6, <2>1, <2>2 DEF Window_OK
  <2>4. Table_OK'
    BY <1>6, EmptyRows DEF Table_OK, TrustedIsCommitted
  <2> QED BY <1>1, <2>3, <2>4
<1> QED BY <1>4, <1>5, <1>6 DEF TakeFrame

LEMMA TakeTotalOK ==
  ASSUME NEW l, Window_OK, Frame_OK, Table_OK, TakeTotal(l), UNCHANGED build,
         heard \subseteq heard'
  PROVE  Window_OK' /\ Frame_OK' /\ Table_OK'
<1>1. st = "wait" /\ (TakeFrame \/ FailClear)
  BY DEF TakeTotal
<1> QED BY <1>1, TakeFrameOK, FailClearOK

LEMMA TakeRowOK ==
  ASSUME NEW l, Window_OK, Frame_OK, Table_OK, TakeRow(l), UNCHANGED build,
         heard \subseteq heard', Readable(l, heard')
  PROVE  Window_OK' /\ Frame_OK' /\ Table_OK'
<1>1. CASE Ignore
  BY <1>1, IgnoreOK
<1>2. CASE FailClear
  BY <1>2, FailClearOK
<1>3. CASE /\ st # "idle" /\ st # "wait" /\ Len(body) < Slots /\ l.kind = "row"
           /\ body' = Append(body, l.text) /\ UNCHANGED <<sampling, st, decl, result>>
  <2>1. l.text \in Text /\ Known(l.text, heard')
    BY <1>3 DEF Readable
  <2>2. body' \in Seq(Text) /\ Len(body') <= Slots /\ Len(body') = Len(body) + 1
    BY <1>3, <2>1, SlotsAssumption DEF Frame_OK
  <2>a. AllKnown(body', heard')
    <3>1. AllKnown(body, heard')
      BY KnownGrows DEF Frame_OK
    <3>2. body \in Seq(Text) /\ \A i \in DOMAIN body' :
            (i \in DOMAIN body /\ body'[i] = body[i]) \/ body'[i] = l.text
      BY <1>3, <2>1 DEF Frame_OK
    <3> QED BY <2>1, <3>1, <3>2 DEF AllKnown
  <2>3. Frame_OK'
    BY <1>3, <2>2, <2>a DEF Frame_OK
  <2>4. Window_OK'
    BY <1>3, WindowFixed
  <2>5. Table_OK'
    BY <1>3 DEF Table_OK, TrustedIsCommitted, result, sampling
  <2> QED BY <2>3, <2>4, <2>5
<1>4. Len(body) \in Nat
  BY DEF Frame_OK
<1> QED BY <1>1, <1>2, <1>3, <1>4, SlotsAssumption DEF TakeRow

LEMMA LineFinishOK ==
  ASSUME NEW l, Window_OK, Frame_OK, Table_OK, LineFinish(l), UNCHANGED build,
         heard \subseteq heard', Readable(l, heard')
  PROVE  Window_OK' /\ Frame_OK' /\ Table_OK'
<1>1. CASE TakeLong(l)
  BY <1>1, FailClearOK, IgnoreOK DEF TakeLong
<1> QED BY <1>1, TakeStartOK, TakeEndOK, TakeTotalOK, TakeRowOK DEF LineFinish

-----------------------------------------------------------------------------
\* The server keeps its own state.

LEMMA PositionOpen ==
  /\ \A f \in Frames : At(f, 1) \in Position /\ At(f, 1) # Closed
  /\ \A p \in Position : p # Closed =>
       p.frame \in Frames /\ p.line \in 1..LinesOf(p.frame) /\ LinesOf(p.frame) \in Nat
<1>1. \A f \in Frames : LinesOf(f) \in Nat /\ LinesOf(f) >= 3
  <2> SUFFICES ASSUME NEW f \in Frames PROVE LinesOf(f) \in Nat /\ LinesOf(f) >= 3
    OBVIOUS
  <2>1. f.rows \in Seq(Text)
    BY FramesAssumption
  <2> QED BY <2>1 DEF LinesOf
<1>2. \A f \in Frames : At(f, 1) \in Position
  BY <1>1 DEF At, Position
<1>3. \A f : At(f, 1).line = 1 /\ Closed.line = 0
  BY DEF At, Closed
<1> QED BY <1>1, <1>2, <1>3 DEF Open, Position

\* A host that sends on stays connected, at a line of a frame.
LEMMA SendsOn ==
  ASSUME Server_OK, NEW c \in Conns, Open(c), SendsHalf(c) \/ SendsRest(c)
  PROVE  /\ sending' \in [Conns -> Position]
         /\ \A d \in Conns : Open(d)' <=> Open(d)
<1> DEFINE s == sending[c]
<1>1. sending \in [Conns -> Position] /\ s # Closed
  BY DEF Server_OK, Open
<1>2. /\ s \in [frame : Frames, line : Nat, half : BOOLEAN]
      /\ s.line \in 1..LinesOf(s.frame) /\ LinesOf(s.frame) \in Nat
  BY <1>1, PositionOpen DEF Position
<1>3. CASE SendsHalf(c)
  <2>1. [s EXCEPT !.half = TRUE] \in [frame : Frames, line : Nat, half : BOOLEAN]
    BY <1>2
  <2>2. /\ [s EXCEPT !.half = TRUE].line = s.line
        /\ [s EXCEPT !.half = TRUE].frame = s.frame
    BY <1>2
  <2>3. [s EXCEPT !.half = TRUE] \in Position
    BY <1>2, <2>1, <2>2 DEF Position
  <2>4. [s EXCEPT !.half = TRUE] # Closed
    BY <1>2, <2>2 DEF Closed
  <2>5. sending' = [sending EXCEPT ![c] = [s EXCEPT !.half = TRUE]]
    BY <1>1, <1>3 DEF SendsHalf
  <2> QED BY <1>1, <2>3, <2>4, <2>5 DEF Open
<1>4. CASE s.line < LinesOf(s.frame) /\ SendsRest(c)
  <2> DEFINE t == At(s.frame, s.line + 1)
  <2>0. s.frame \in Frames /\ s.line + 1 \in Nat
    BY <1>2
  <2>1. t = [frame |-> s.frame, line |-> s.line + 1, half |-> FALSE]
    BY DEF At
  <2> HIDE DEF t
  <2>2. t.line = s.line + 1 /\ t.frame = s.frame
    BY <2>1
  <2>3. t \in Position
    BY <1>2, <1>4, <2>0, <2>1, <2>2 DEF Position
  <2>4. t # Closed
    BY <1>2, <2>2 DEF Closed
  <2>5. sending' = [sending EXCEPT ![c] = t]
    BY <1>4 DEF SendsRest, t
  <2> QED BY <1>1, <2>3, <2>4, <2>5 DEF Open
<1>5. CASE ~(s.line < LinesOf(s.frame)) /\ SendsRest(c)
  <2>1. PICK f \in Frames : sending' = [sending EXCEPT ![c] = At(f, 1)]
    BY <1>5 DEF SendsRest
  <2> QED BY <1>1, <2>1, PositionOpen DEF Open
<1> QED BY <1>3, <1>4, <1>5

LEMMA HeardFrame ==
  ASSUME Server_OK, NEW c \in Conns, Open(c)
  PROVE  /\ sending[c].frame \in Frames
         /\ sending[c].line \in 1..LinesOf(sending[c].frame)
BY PositionOpen DEF Server_OK, Open

LEMMA StartOverOK ==
  ASSUME Window_OK, StartOver, UNCHANGED build
  PROVE  Window_OK' /\ Frame_OK' /\ Table_OK'
<1>1. Frame_OK'
  BY ResetOK DEF StartOver, ProtocolInit
<1>2. Table_OK'
  BY EmptyRows DEF StartOver, ProtocolInit, Table_OK, TrustedIsCommitted
<1>3. build.window \in 1..4
  BY BuildsAssumption DEF Window_OK
<1>4. Window_OK'
  BY <1>3 DEF StartOver, ProtocolInit, Window_OK
<1> QED BY <1>1, <1>2, <1>4

\* What the parser is left with by a step that does not feed it.
LEMMA ParserKept ==
  ASSUME Window_OK, Frame_OK, Table_OK, UNCHANGED <<build, parser>>, heard \subseteq heard'
  PROVE  Window_OK' /\ Frame_OK' /\ Table_OK'
BY IgnoreOK DEF Ignore

-----------------------------------------------------------------------------
\* The invariant.

LEMMA InvInit == Init => Inv
<1> SUFFICES ASSUME Init PROVE Inv
  OBVIOUS
<1>1. Server_OK
  BY DEF Init, Server_OK, Position
<1>2. Window_OK
  BY BuildsAssumption DEF Init, Window_OK
<1>3. Frame_OK
  BY EmptyRows, SlotsAssumption DEF Init, Frame_OK
<1>4. Table_OK
  BY EmptyRows DEF Init, Table_OK, TrustedIsCommitted
<1> QED BY <1>1, <1>2, <1>3, <1>4 DEF Inv

LEMMA InvServer ==
  ASSUME Inv, NEW c \in Conns, Server(c)
  PROVE  Inv'
<1> USE DEF Inv
<1>1. CASE Accept(c)
  <2>1. Window_OK' /\ Frame_OK' /\ Table_OK'
    BY <1>1, StartOverOK DEF Accept
  <2>2. PICK f \in Frames : sending' = [sending EXCEPT ![c] = At(f, 1)]
    BY <1>1 DEF Accept
  <2>3. sending' \in [Conns -> Position]
    BY <2>2, PositionOpen DEF Server_OK
  <2>4. Server_OK'
    BY <1>1, <2>3 DEF Accept, StartOver, ProtocolInit, Server_OK
  <2> QED BY <2>1, <2>4
<1>2. CASE Ends(c)
  <2>1. Window_OK' /\ Frame_OK' /\ Table_OK'
    BY <1>2, StartOverOK DEF Ends
  <2>2. sending' \in [Conns -> Position]
    BY <1>2 DEF Ends, Server_OK, Position
  <2>3. Server_OK'
    BY <1>2, <2>2 DEF Ends, StartOver, ProtocolInit, Server_OK
  <2> QED BY <2>1, <2>3
<1>3. CASE Dropped(c)
  <2>1. Window_OK' /\ Frame_OK' /\ Table_OK'
    BY <1>3, ParserKept DEF Dropped
  <2>2. sending' \in [Conns -> Position] /\ \A d \in Conns : Open(d)' <=> Open(d)
    BY <1>3, SendsOn DEF Dropped
  <2>3. Server_OK'
    BY <1>3, <2>2 DEF Dropped, Server_OK, NotAlone
  <2> QED BY <2>1, <2>3
<1>4. CASE PbufBegins(c)
  <2>1. Window_OK' /\ Frame_OK' /\ Table_OK'
    BY <1>4, ParserKept DEF PbufBegins, hist
  <2>2. Server_OK'
    BY <1>4 DEF PbufBegins, Server_OK, Open, hist
  <2> QED BY <2>1, <2>2
<1>5. CASE ParseHalf(c)
  <2>1. Open(c) /\ fed # NoConn
    BY <1>5, NamesAssumption DEF ParseHalf, Server_OK
  <2>2. Window_OK' /\ Frame_OK' /\ Table_OK'
    BY <1>5, ParserKept DEF ParseHalf
  <2>3. sending' \in [Conns -> Position] /\ \A d \in Conns : Open(d)' <=> Open(d)
    BY <1>5, <2>1, SendsOn DEF ParseHalf
  <2>4. heard' \subseteq Frames
    BY <1>5, <2>1, HeardFrame DEF ParseHalf, Server_OK
  <2>5. Server_OK'
    BY <1>5, <2>1, <2>3, <2>4 DEF ParseHalf, Server_OK
  <2> QED BY <2>2, <2>5
<1>6. CASE ParseLine(c)
  <2>1. Open(c) /\ fed # NoConn
    BY <1>6, NamesAssumption DEF ParseLine, Server_OK
  <2>2. sending[c].frame \in heard' /\ heard \subseteq heard' /\ UNCHANGED build
    BY <1>6 DEF ParseLine
  <2>3. PICK l : LineFinish(l) /\ Readable(l, heard')
    BY <1>6, <2>1, <2>2, HeardFrame, LineReadable, JoinedReadable DEF ParseLine
  <2>4. Window_OK' /\ Frame_OK' /\ Table_OK'
    BY <2>2, <2>3, LineFinishOK
  <2>5. sending' \in [Conns -> Position] /\ \A d \in Conns : Open(d)' <=> Open(d)
    BY <1>6, <2>1, SendsOn DEF ParseLine
  <2>6. heard' \subseteq Frames /\ alone' \in Conns \cup {NoConn} /\ lost' \in BOOLEAN
    BY <1>6, <2>1, HeardFrame DEF ParseLine, Server_OK, NotAlone
  <2>7. Server_OK'
    BY <1>6, <2>1, <2>5, <2>6 DEF ParseLine, Server_OK
  <2> QED BY <2>4, <2>7
<1> QED BY <1>1, <1>2, <1>3, <1>4, <1>5, <1>6 DEF Server

LEMMA InvNext == Inv /\ [Next]_vars => Inv'
<1> SUFFICES ASSUME Inv, [Next]_vars PROVE Inv'
  OBVIOUS
<1> USE DEF Inv
<1>1. CASE ArmSampleWindow
  <2>1. build.window \in 1..4
    BY BuildsAssumption DEF Window_OK
  <2>2. Window_OK'
    BY <1>1, <2>1 DEF ArmSampleWindow, Window_OK
  <2>3. Frame_OK' /\ Table_OK'
    BY <1>1 DEF ArmSampleWindow, frame, hist, Frame_OK, Table_OK, TrustedIsCommitted
  <2>4. Server_OK'
    BY <1>1 DEF ArmSampleWindow, hist, Server_OK, Open
  <2> QED BY <2>2, <2>3, <2>4
<1>2. CASE PbufEnds
  <2>1. Window_OK' /\ Frame_OK' /\ Table_OK'
    BY <1>2, ParserKept DEF PbufEnds, hist
  <2>2. Server_OK'
    BY <1>2 DEF PbufEnds, Server_OK, Open, hist
  <2> QED BY <2>1, <2>2
<1>3. CASE \E c \in Conns : Server(c)
  BY <1>3, InvServer
<1>4. CASE UNCHANGED vars
  <2>1. Window_OK' /\ Frame_OK' /\ Table_OK'
    BY <1>4, ParserKept DEF vars, hist
  <2>2. Server_OK'
    BY <1>4 DEF vars, Server_OK, Open, hist
  <2> QED BY <2>1, <2>2
<1> QED BY <1>1, <1>2, <1>3, <1>4 DEF Next

LEMMA Invariant == Spec => []Inv
BY InvInit, InvNext, PTL DEF Spec

LEMMA InvTyped == Inv => TypeOK
BY DEF Inv, TypeOK, Server_OK, Window_OK, Frame_OK, Table_OK

\* Every variable keeps its type: the window of candidates (s_cand) and the rows
\* (s_rows) stay in their arrays.
THEOREM TypeCorrect == Spec => []TypeOK
BY Invariant, InvTyped, PTL

\* AppProtocol_LastChecksumOk vouches for a table that is there and final.
THEOREM TrustCommitted == Spec => []TrustedIsCommitted
<1>1. Inv => TrustedIsCommitted
  BY DEF Inv, Table_OK
<1> QED BY <1>1, Invariant, PTL

-----------------------------------------------------------------------------
\* The refinement: a line moves the link as MatrixLink allows.

Allowed ==
  \/ Fit(table, heard)' /\ lastOk' = TRUE
  \/ table' = <<>> /\ lastOk' = FALSE
  \/ table' = table /\ lastOk' = FALSE
  \/ UNCHANGED result

LEMMA LineAllowed ==
  ASSUME Inv, NEW l, LineFinish(l), heard \subseteq heard'
  PROVE  Allowed
<1> USE DEF Inv
<1>1. FailClear => Allowed
  BY DEF FailClear, Allowed
<1>2. Ignore => Allowed
  BY DEF Ignore, parser, Allowed
<1>3. CASE TakeStart(l)
  BY <1>3 DEF TakeStart, Allowed
<1>4. CASE TakeEnd(l)
  BY <1>1, <1>4 DEF TakeEnd, Allowed
<1>5. CASE TakeTotal(l)
  <2>1. CASE FailClear
    BY <1>1, <2>1
  <2>2. CASE TakeFrame /\ st = "wait"
    <3> DEFINE window == Append(cands, body)
    <3>1. CASE Valid(body) /\ WindowFull(window) /\ Commit(window)
      <4>1. window \in Seq(Seq(Text)) /\ window # <<>>
        BY <2>2, <3>1, WindowWithFrame DEF Window_OK
      <4>2. Best(window) \in DOMAIN window
        BY <4>1, BestIn
      <4>3. Fit(window[Best(window)], heard')
        BY <2>2, <3>1, <4>2, WindowWithFrame
      <4>4. table' = window[Best(window)] /\ lastOk' = TRUE
        BY <3>1 DEF Commit
      <4>5. Fit(table', heard')
        BY <4>3, <4>4
      <4> QED BY <4>4, <4>5 DEF Allowed
    <3>2. CASE ~(Valid(body) /\ WindowFull(window) /\ Commit(window))
      BY <2>2, <3>2 DEF TakeFrame, Allowed
    <3> QED BY <3>1, <3>2
  <2> QED BY <1>5, <2>1, <2>2 DEF TakeTotal
<1>6. CASE TakeRow(l)
  <2>1. FailClear \/ UNCHANGED result
    BY <1>6 DEF TakeRow, Ignore, parser
  <2> QED BY <1>1, <2>1 DEF Allowed
<1>7. CASE TakeLong(l)
  BY <1>1, <1>2, <1>7 DEF TakeLong
<1> QED BY <1>3, <1>4, <1>5, <1>6, <1>7 DEF LineFinish

LEMMA AllowedHears == heard \subseteq heard' /\ Allowed => Promise!Hear
<1> SUFFICES ASSUME heard \subseteq heard', Allowed PROVE Promise!Hear
  OBVIOUS
<1>1. CASE Fit(table', heard') /\ lastOk' = TRUE
  BY <1>1 DEF Promise!Hear, Promise!Commits, Promise!Agreed, Fit, Sound, Valid, AllKnown,
              Known, KnownSum
<1>2. CASE ~(Fit(table', heard') /\ lastOk' = TRUE)
  BY <1>2 DEF Allowed, result, Promise!Hear, Promise!Empties, Promise!Distrusts
<1> QED BY <1>1, <1>2

LEMMA StartOverReconnects == StartOver => Promise!Reconnect
BY DEF StartOver, ProtocolInit, Promise!Reconnect, Promise!Empties

LEMMA PromiseInit == Init => Promise!Init
BY DEF Init, Promise!Init

LEMMA PromiseNext == Inv /\ [Next]_vars => [Promise!Next]_(Promise!vars)
<1> SUFFICES ASSUME Inv, [Next]_vars PROVE Promise!Next
  OBVIOUS
<1> USE AllowedHears DEF Promise!Next
<1>1. CASE ArmSampleWindow
  BY <1>1 DEF ArmSampleWindow, hist, Allowed
<1>2. CASE PbufEnds \/ UNCHANGED vars
  BY <1>2 DEF PbufEnds, vars, parser, hist, Allowed
<1>3. ASSUME NEW c \in Conns, Accept(c) \/ Ends(c)
      PROVE  Promise!Next
  BY <1>3, StartOverReconnects DEF Accept, Ends
<1>4. ASSUME NEW c \in Conns, Dropped(c) \/ PbufBegins(c) \/ ParseHalf(c)
      PROVE  Promise!Next
  BY <1>4 DEF Dropped, PbufBegins, ParseHalf, parser, hist, Allowed
<1>5. ASSUME NEW c \in Conns, ParseLine(c)
      PROVE  Promise!Next
  BY <1>5, LineAllowed DEF ParseLine
<1> QED BY <1>1, <1>2, <1>3, <1>4, <1>5 DEF Next, Server

\* However the stream is cut, dropped or mixed, a table that is not empty has rows
\* that were sent, no two for one cell, with the checksum of a frame (line_finish).
THEOREM LinkKeepsPromise == Spec => KeepsPromise
BY PromiseInit, PromiseNext, Invariant, PTL DEF Spec, KeepsPromise, Promise!Spec

-----------------------------------------------------------------------------
\* A frame of which every line is read gets through, one that lacks a line does not:
\* what the parser has of it.

\* The parser's state before line i of frame f, nothing of it having been lost.
Before(f, i, state, count, rows) ==
  Good(f) =>
    /\ i \in 2..LinesOf(f) - 1 =>
         /\ state = "body" /\ count = f.count /\ Len(rows) = i - 2
         /\ \A j \in 1..Len(rows) : rows[j] = f.rows[j]
    /\ i = LinesOf(f) => state = "wait" /\ rows = f.rows

\* And with a line lost.
Behind(f, i, state, count, rows) ==
  Good(f) =>
    /\ i \in 2..LinesOf(f) => state # "wait"
    /\ i \in 2..LinesOf(f) - 1 /\ state = "body" => count = f.count /\ Len(rows) < i - 2

Progress(c) == Open(c) /\ Before(sending[c].frame, sending[c].line, st, decl, body)
Lacks(c)    == Open(c) /\ Behind(sending[c].frame, sending[c].line, st, decl, body)

AloneAt(c) ==
  /\ sending[c].line # 1 /\ ~lastOk
  /\ IF lost THEN Lacks(c) ELSE Progress(c)

AloneInv == \A c \in Conns : alone = c => AloneAt(c)

LEMMA StartTaken ==
  ASSUME NEW f \in Frames, Good(f), LineFinish(Start(f.count))
  PROVE  st' = "body" /\ decl' = f.count /\ body' = <<>>
BY DEF Good, Start, LineFinish, TakeStart, TakeEnd, TakeTotal, TakeRow, TakeLong

LEMMA RowTaken ==
  ASSUME NEW t, t.csv, st = "body", Len(body) < Slots, Len(body) \in Nat,
         LineFinish(Row(t))
  PROVE  st' = "body" /\ decl' = decl /\ body' = Append(body, t)
<1>1. TakeRow(Row(t))
  BY DEF Row, LineFinish, TakeStart, TakeEnd, TakeTotal, TakeLong
<1>2. ~(st = "idle" \/ Len(body) >= Slots) /\ Row(t).kind = "row" /\ Row(t).text = t
  BY SlotsAssumption DEF Row
<1> QED BY <1>1, <1>2 DEF TakeRow

LEMMA EndTaken ==
  ASSUME NEW rows, st = "body", body = rows, decl = Len(rows),
         LineFinish(End(Checksum(rows)))
  PROVE  st' = "wait" /\ body' = rows
<1>1. TakeEnd(End(Checksum(rows)))
  BY DEF End, LineFinish, TakeStart, TakeTotal, TakeRow, TakeLong
<1>2. Agrees(End(Checksum(rows)))
  BY DEF Agrees, End
<1> QED BY <1>1, <1>2 DEF TakeEnd

LEMMA TotalTaken ==
  ASSUME Window_OK, Frame_OK, st = "wait", Valid(body), LineFinish(Total(TRUE))
  PROVE  lastOk' \/ Len(cands') = Len(cands) + 1
<1>1. TakeTotal(Total(TRUE))
  BY DEF Total, LineFinish, TakeStart, TakeEnd, TakeRow, TakeLong
<1>2. TakeFrame
  BY <1>1 DEF TakeTotal
<1>3. Len(Append(cands, body)) = Len(cands) + 1
  BY DEF Window_OK, Frame_OK
<1> QED BY <1>2, <1>3 DEF TakeFrame, Commit

LEMMA SameRows ==
  ASSUME NEW s \in Seq(Text), NEW t \in Seq(Text), Len(s) = Len(t),
         \A j \in 1..Len(s) : s[j] = t[j]
  PROVE  s = t
OBVIOUS

\* A line of a frame of which nothing was lost moves it on.
LEMMA LineProgresses ==
  ASSUME Inv, NEW c \in Conns, fed = c, Intact(c), SendsRest(c),
         sending[c].line = 1 \/ Progress(c),
         LineFinish(Line(sending[c].frame, sending[c].line)), Server_OK'
  PROVE  Progress(c)'
<1> DEFINE f == sending[c].frame
           i == sending[c].line
<1>1. Open(c) /\ f \in Frames /\ i \in 1..LinesOf(f)
  BY HeardFrame, NamesAssumption DEF Inv, Server_OK
<1>2. f.rows \in Seq(Text) /\ LinesOf(f) = Len(f.rows) + 3
  BY <1>1, LineIs
<1>n. Len(f.rows) \in Nat /\ LinesOf(f) \in Nat /\ LinesOf(f) = Len(f.rows) + 3
  BY <1>2
<1>3. Open(c)'
  BY <1>1, SendsOn DEF Inv
<1>4. CASE ~(i < LinesOf(f))
  <2>1. PICK g \in Frames : sending' = [sending EXCEPT ![c] = At(g, 1)]
    BY <1>4 DEF SendsRest
  <2>2. sending'[c].line = 1 /\ sending'[c].frame = g
    BY <2>1 DEF At, Inv, Server_OK
  <2>3. LinesOf(g) = Len(g.rows) + 3 /\ g.rows \in Seq(Text)
    BY FramesAssumption DEF LinesOf
  <2>4. LinesOf(g) # 1 /\ 1 \notin 2..LinesOf(g) - 1
    BY <2>3
  <2> QED BY <1>3, <2>2, <2>4 DEF Progress, Before
<1>5. CASE i < LinesOf(f)
  <2>1. sending' = [sending EXCEPT ![c] = At(f, i + 1)]
    BY <1>5 DEF SendsRest
  <2>2. sending'[c].line = i + 1 /\ sending'[c].frame = f
    BY <2>1 DEF At, Inv, Server_OK
  <2> SUFFICES Before(f, i + 1, st', decl', body')
    BY <1>3, <2>2 DEF Progress
  <2> SUFFICES ASSUME Good(f)
      PROVE  /\ i + 1 \in 2..LinesOf(f) - 1 =>
                  /\ st' = "body" /\ decl' = f.count /\ Len(body') = i - 1
                  /\ \A j \in 1..Len(body') : body'[j] = f.rows[j]
             /\ i + 1 = LinesOf(f) => st' = "wait" /\ body' = f.rows
    <3>1. i + 1 - 2 = i - 1
      BY <1>1
    <3> QED BY <1>1, <1>2, <3>1 DEF Before
  <2>3. f.count = Len(f.rows) /\ f.count \in 1..Slots /\ \A j \in DOMAIN f.rows : f.rows[j].csv
    BY DEF Good
  <2>a. ASSUME i \in 2..LinesOf(f) - 1
        PROVE  /\ st = "body" /\ decl = f.count /\ Len(body) = i - 2
               /\ \A j \in 1..Len(body) : body[j] = f.rows[j]
    BY <2>a DEF Progress, Before
  <2>b. body \in Seq(Text) /\ Len(body) \in Nat
    BY DEF Inv, Frame_OK
  <2>4. CASE i = 1
    <3>1. st' = "body" /\ decl' = f.count /\ body' = <<>>
      BY <1>1, <2>4, LineIs, StartTaken
    <3>2. i + 1 # LinesOf(f) /\ i - 1 = 0
      BY <1>2, <2>3, <2>4
    <3> QED BY <3>1, <3>2, EmptyRows
  <2>5. CASE i \in 2..LinesOf(f) - 2
    <3> i \in 2..LinesOf(f) - 1
      BY <1>2, <2>5
    <3>1. st = "body" /\ decl = f.count /\ Len(body) = i - 2 /\ body \in Seq(Text)
      BY <2>a, <2>b
    <3>2. \A j \in 1..Len(body) : body[j] = f.rows[j]
      BY <2>a
    <3>3. i - 1 \in DOMAIN f.rows /\ LineFinish(Row(f.rows[i - 1]))
      BY <1>1, <2>5, LineIs
    <3>4. Len(body) < Slots
      <4>1. Len(f.rows) <= Slots /\ Slots \in Nat
        BY <2>3, SlotsAssumption
      <4>2. i - 2 < Len(f.rows)
        BY <1>n, <2>5
      <4>3. Len(body) < Len(f.rows)
        BY <3>1, <4>2
      <4> QED BY <1>n, <2>b, <4>1, <4>3
    <3>5. st' = "body" /\ decl' = decl /\ body' = Append(body, f.rows[i - 1])
      BY <2>3, <3>1, <3>3, <3>4, RowTaken
    <3>6. f.rows[i - 1] \in Text
      BY <1>2, <3>3
    <3>7. Len(body') = i - 1 /\ \A j \in 1..Len(body') : body'[j] = f.rows[j]
      BY <2>5, <3>1, <3>2, <3>5, <3>6
    <3>8. i + 1 # LinesOf(f)
      BY <1>n, <2>5
    <3> QED BY <3>1, <3>5, <3>7, <3>8
  <2>6. CASE i = LinesOf(f) - 1
    <3> i \in 2..LinesOf(f) - 1
      BY <1>2, <2>3, <2>6
    <3>1. st = "body" /\ decl = f.count /\ Len(body) = i - 2 /\ body \in Seq(Text)
      BY <2>a, <2>b
    <3>2. \A j \in 1..Len(body) : body[j] = f.rows[j]
      BY <2>a
    <3>3. body = f.rows
      <4>1. i - 2 = Len(f.rows)
        BY <1>n, <2>6
      <4>2. Len(body) = Len(f.rows) /\ f.rows \in Seq(Text)
        BY <1>2, <3>1, <4>1
      <4> QED BY <3>1, <3>2, <4>2, SameRows
    <3>4. LineFinish(End(Checksum(f.rows)))
      BY <1>1, <2>6, LineIs
    <3>5. st' = "wait" /\ body' = f.rows
      BY <2>3, <3>1, <3>3, <3>4, EndTaken
    <3>6. i + 1 \notin 2..LinesOf(f) - 1
      BY <1>2, <2>6
    <3> QED BY <3>5, <3>6
  <2>7. i = 1 \/ i \in 2..LinesOf(f) - 2 \/ i = LinesOf(f) - 1
    BY <1>1, <1>2, <1>5
  <2> QED BY <2>4, <2>5, <2>6, <2>7
<1> QED BY <1>2, <1>4, <1>5, <1>1

\* A line of a frame that lacks one does not make up for it.
LEMMA LineLacks ==
  ASSUME Inv, NEW c \in Conns, Lacks(c), sending[c].line # 1,
         sending[c].line # LinesOf(sending[c].frame), SendsRest(c),
         LineFinish(Line(sending[c].frame, sending[c].line))
  PROVE  Lacks(c)'
<1> DEFINE f == sending[c].frame
           i == sending[c].line
<1>1. Open(c) /\ f \in Frames /\ i \in 1..LinesOf(f)
  BY HeardFrame DEF Inv, Lacks
<1>2. f.rows \in Seq(Text) /\ Len(f.rows) \in Nat /\ LinesOf(f) = Len(f.rows) + 3
  BY <1>1, LineIs
<1>3. i \in 2..LinesOf(f) - 1 /\ i < LinesOf(f) /\ i \in 2..LinesOf(f)
  BY <1>1, <1>2
<1>4. Open(c)' /\ sending'[c].line = i + 1 /\ sending'[c].frame = f
  <2>1. sending' = [sending EXCEPT ![c] = At(f, i + 1)]
    BY <1>3 DEF SendsRest
  <2>2. Open(c)'
    BY <1>1, SendsOn DEF Inv
  <2> QED BY <2>1, <2>2 DEF At, Inv, Server_OK
<1> SUFFICES ASSUME Good(f)
             PROVE  /\ st' # "wait"
                    /\ i + 1 \in 2..LinesOf(f) - 1 /\ st' = "body" =>
                         decl' = f.count /\ Len(body') < i + 1 - 2
  <2>1. Behind(f, i + 1, st', decl', body')
    BY <1>2, <1>3 DEF Behind
  <2>2. Behind(f, i + 1, st', decl', body') => Lacks(c)'
    BY <1>4 DEF Lacks
  <2> QED BY <2>1, <2>2
<1>5. st # "wait" /\ (st = "body" => decl = f.count /\ Len(body) < i - 2)
  BY <1>3 DEF Lacks, Behind
<1>6. f.count = Len(f.rows) /\ \A j \in DOMAIN f.rows : f.rows[j].csv
  BY DEF Good
<1>7. body \in Seq(Text) /\ Len(body) \in Nat
  BY DEF Inv, Frame_OK
<1>8. FailClear => st' = "idle"
  BY DEF FailClear, Reset
<1>9. CASE i \in 2..LinesOf(f) - 2
  <2>0. i - 1 \in DOMAIN f.rows /\ LineFinish(Row(f.rows[i - 1]))
    BY <1>1, <1>9, LineIs
  <2>1. LineFinish(Row(f.rows[i - 1])) /\ f.rows[i - 1] \in Text
    BY <1>2, <2>0
  <2> DEFINE t == f.rows[i - 1]
  <2>2. TakeRow(Row(t))
    BY <1>5, <2>1 DEF Row, LineFinish, TakeStart, TakeEnd, TakeTotal, TakeLong
  <2>3. \/ FailClear
        \/ UNCHANGED <<st, decl, body>>
        \/ body' = Append(body, t) /\ UNCHANGED <<st, decl>>
    <3>1. Row(t).kind = "row" /\ Row(t).text = t
      BY DEF Row
    <3> QED BY <2>2, <3>1 DEF TakeRow, Ignore, parser, frame
  <2>4. Len(Append(body, t)) = Len(body) + 1
    BY <1>7, <2>1
  <2> HIDE DEF t
  <2>5. ASSUME st = "body" PROVE Len(body) < i + 1 - 2 /\ Len(body) + 1 < i + 1 - 2
    BY <1>3, <1>5, <1>7, <2>5
  <2> QED BY <1>5, <1>8, <2>3, <2>4, <2>5
<1>10. CASE i = LinesOf(f) - 1
  <2>1. LineFinish(End(Checksum(f.rows)))
    BY <1>1, <1>10, LineIs
  <2>2. TakeEnd(End(Checksum(f.rows)))
    BY <2>1 DEF End, LineFinish, TakeStart, TakeTotal, TakeRow, TakeLong
  <2>3. st = "body" => decl # Len(body)
    BY <1>2, <1>5, <1>6, <1>7, <1>10
  <2>4. FailClear
    BY <2>2, <2>3 DEF TakeEnd, Agrees
  <2> QED BY <1>8, <2>4
<1> QED BY <1>2, <1>3, <1>9, <1>10

\* A line lost leaves a frame behind.
LEMMA DropLacks ==
  ASSUME Inv, NEW c \in Conns, Progress(c) \/ Lacks(c), sending[c].line # 1,
         SendsRest(c), sending'[c].line # 1, UNCHANGED frame
  PROVE  Lacks(c)'
<1> DEFINE f == sending[c].frame
           i == sending[c].line
<1>1. Open(c) /\ f \in Frames /\ i \in 1..LinesOf(f)
  BY HeardFrame DEF Inv, Lacks, Progress
<1>2. f.rows \in Seq(Text) /\ Len(f.rows) \in Nat /\ LinesOf(f) = Len(f.rows) + 3
  BY <1>1, LineIs
<1>3. i < LinesOf(f)
  <2> SUFFICES ASSUME ~(i < LinesOf(f)) PROVE FALSE
    OBVIOUS
  <2>1. PICK g \in Frames : sending' = [sending EXCEPT ![c] = At(g, 1)]
    BY DEF SendsRest
  <2> QED BY <2>1 DEF At, Inv, Server_OK
<1>4. i \in 2..LinesOf(f) - 1 /\ i \in 2..LinesOf(f)
  BY <1>1, <1>2, <1>3
<1>5. Open(c)' /\ sending'[c].line = i + 1 /\ sending'[c].frame = f
  <2>1. sending' = [sending EXCEPT ![c] = At(f, i + 1)]
    BY <1>3 DEF SendsRest
  <2>2. Open(c)'
    BY <1>1, SendsOn DEF Inv
  <2> QED BY <2>1, <2>2 DEF At, Inv, Server_OK
<1>6. Len(body) \in Nat
  BY DEF Inv, Frame_OK
<1>7. Good(f) => st # "wait" /\ (st = "body" => decl = f.count /\ Len(body) <= i - 2)
  BY <1>4, <1>6 DEF Progress, Lacks, Before, Behind
<1>8. Good(f) => st # "wait" /\ (st = "body" => decl = f.count /\ Len(body) < i + 1 - 2)
  BY <1>4, <1>6, <1>7
<1>9. Behind(f, i + 1, st, decl, body)
  BY <1>2, <1>4, <1>8 DEF Behind
<1>10. Behind(f, i + 1, st', decl', body')
  BY <1>9 DEF frame
<1> QED BY <1>5, <1>10 DEF Lacks

\* Only the last line of a frame makes the table trusted.
LEMMA LineDistrusts ==
  ASSUME NEW l, l.kind # "total", LineFinish(l), ~lastOk
  PROVE  ~lastOk'
<1>1. l # Total(TRUE)
  BY DEF Total
<1> QED BY <1>1 DEF LineFinish, TakeStart, TakeEnd, TakeTotal, TakeRow, TakeLong, FailClear,
                    Ignore, parser, result

LEMMA StartDistrusts ==
  ASSUME NEW n, LineFinish(Start(n))
  PROVE  ~lastOk'
BY DEF Start, LineFinish, TakeStart, TakeEnd, TakeTotal, TakeRow, TakeLong

\* A step that sends no line on a connection keeps what is known of it.
LEMMA AloneKept ==
  ASSUME NEW c \in Conns, AloneAt(c), UNCHANGED <<frame, lost>>, ~lastOk', Open(c)',
         sending'[c].line = sending[c].line, sending'[c].frame = sending[c].frame
  PROVE  AloneAt(c)'
BY DEF AloneAt, Progress, Lacks, frame

LEMMA AloneOpen == ASSUME NEW c \in Conns, AloneAt(c) PROVE Open(c)
BY DEF AloneAt, Progress, Lacks

LEMMA AloneIdle ==
  ASSUME NEW c \in Conns, AloneAt(c), UNCHANGED <<frame, lost>>, ~lastOk',
         sending'[c] = sending[c]
  PROVE  AloneAt(c)'
BY AloneKept, AloneOpen DEF Open

\* Half a line sent, read or dropped, changes nothing either.
LEMMA HalfKeeps ==
  ASSUME Inv, NEW c \in Conns, Open(c), SendsHalf(c)
  PROVE  /\ Open(c)' /\ sending'[c].line = sending[c].line
         /\ sending'[c].frame = sending[c].frame
<1>1. sending[c] \in [frame : Frames, line : Nat, half : BOOLEAN]
  BY DEF Open, Inv, Server_OK, Position
<1>2. sending' = [sending EXCEPT ![c] = [sending[c] EXCEPT !.half = TRUE]]
  BY DEF SendsHalf
<1>3. sending'[c] = [sending[c] EXCEPT !.half = TRUE]
  BY <1>2 DEF Inv, Server_OK
<1>4. Open(c)'
  BY SendsOn DEF Inv
<1> QED BY <1>1, <1>3, <1>4

LEMMA OthersStay ==
  ASSUME Inv, NEW c \in Conns, NEW d \in Conns, c # d, SendsHalf(d) \/ SendsRest(d)
  PROVE  sending'[c] = sending[c]
BY DEF SendsHalf, SendsRest, Inv, Server_OK

LEMMA AloneInit == Init => AloneInv
BY NamesAssumption DEF Init, AloneInv

LEMMA AloneDropped ==
  ASSUME Inv, AloneInv, NEW c \in Conns, alone' = c, NEW d \in Conns, Dropped(d)
  PROVE  AloneAt(c)'
<1>1. alone = c /\ AloneAt(c) /\ Open(c) /\ UNCHANGED <<frame, lastOk>>
  BY NamesAssumption, AloneOpen DEF Dropped, NotAlone, AloneInv, parser, result
<1>2. ~lastOk'
  BY <1>1 DEF AloneAt
<1>3. CASE d # c
  <2>1. sending'[c] = sending[c]
    BY <1>3, OthersStay DEF Dropped
  <2>2. UNCHANGED lost
    BY <1>1, <1>3 DEF Dropped
  <2> QED BY <1>1, <1>2, <2>1, <2>2, AloneIdle
<1>4. CASE d = c /\ SendsHalf(c) /\ UNCHANGED <<alone, lost>>
  <2>1. /\ Open(c)' /\ sending'[c].line = sending[c].line
        /\ sending'[c].frame = sending[c].frame
    BY <1>1, <1>4, HalfKeeps
  <2> QED BY <1>1, <1>2, <1>4, <2>1, AloneKept
<1>5. CASE d = c /\ SendsRest(c) /\ lost' = TRUE /\ sending'[c].line # 1
  <2>1. Progress(c) \/ Lacks(c)
    BY <1>1 DEF AloneAt
  <2>2. sending[c].line # 1
    BY <1>1 DEF AloneAt
  <2>3. Lacks(c)'
    BY <1>1, <1>5, <2>1, <2>2, DropLacks
  <2> QED BY <1>2, <1>5, <2>3 DEF AloneAt
<1> QED BY <1>1, <1>3, <1>4, <1>5, NamesAssumption DEF Dropped, NotAlone

LEMMA AloneParsed ==
  ASSUME Inv, Inv', AloneInv, NEW c \in Conns, alone' = c, NEW d \in Conns, ParseLine(d)
  PROVE  AloneAt(c)'
<1> DEFINE f == sending[c].frame
           i == sending[c].line
<1>1. d = c /\ fed = c /\ SendsRest(c) /\ Intact(c) /\ LineFinish(Line(f, i))
  BY NamesAssumption DEF ParseLine, NotAlone
<1>2. Open(c) /\ f \in Frames /\ i \in 1..LinesOf(f)
  BY <1>1, HeardFrame, NamesAssumption DEF Inv, Server_OK
<1>3. f.rows \in Seq(Text) /\ Len(f.rows) \in Nat /\ LinesOf(f) = Len(f.rows) + 3
  BY <1>2, LineIs
<1>4. CASE i = 1
  <2>1. lost' = FALSE
    BY <1>1, <1>4 DEF ParseLine
  <2>2. Progress(c)'
    BY <1>1, <1>4, LineProgresses DEF Inv
  <2>3. ~lastOk'
    <3>1. LineFinish(Start(f.count))
      BY <1>1, <1>2, <1>4, LineIs
    <3> QED BY <3>1, StartDistrusts
  <2>4. sending'[c].line # 1
    <3>1. i < LinesOf(f)
      BY <1>3, <1>4
    <3>2. sending' = [sending EXCEPT ![c] = At(f, i + 1)]
      BY <1>1, <3>1 DEF SendsRest
    <3> QED BY <1>4, <3>2 DEF At, Inv, Server_OK
  <2> QED BY <2>1, <2>2, <2>3, <2>4 DEF AloneAt
<1>5. CASE i # 1
  <2>1. alone = c /\ sending'[c].line # 1 /\ UNCHANGED lost
    BY <1>1, <1>5, NamesAssumption DEF ParseLine, NotAlone
  <2>2. AloneAt(c)
    BY <2>1 DEF AloneInv
  <2>3. i # LinesOf(f)
    <3> SUFFICES ASSUME i = LinesOf(f) PROVE FALSE
      OBVIOUS
    <3>1. ~(i < LinesOf(f))
      BY <1>3
    <3>2. PICK g \in Frames : sending' = [sending EXCEPT ![c] = At(g, 1)]
      BY <1>1, <3>1 DEF SendsRest
    <3> QED BY <2>1, <3>2 DEF At, Inv, Server_OK
  <2>4. Line(f, i).kind # "total"
    <3>1. i \in 2..LinesOf(f) - 2 \/ i = LinesOf(f) - 1
      BY <1>2, <1>3, <1>5, <2>3
    <3> QED BY <1>2, <3>1, LineIs DEF Row, End
  <2>5. ~lastOk'
    BY <1>1, <2>2, <2>4, LineDistrusts DEF AloneAt
  <2>6. CASE lost
    <3>1. Lacks(c)'
      BY <1>1, <1>5, <2>2, <2>3, <2>6, LineLacks DEF AloneAt
    <3> QED BY <2>1, <2>5, <2>6, <3>1 DEF AloneAt
  <2>7. CASE ~lost
    <3>1. Progress(c)
      BY <2>2, <2>7 DEF AloneAt
    <3>2. Progress(c)'
      BY <1>1, <3>1, LineProgresses DEF Inv
    <3> QED BY <2>1, <2>5, <2>7, <3>2 DEF AloneAt
  <2> QED BY <2>6, <2>7
<1> QED BY <1>4, <1>5

LEMMA AloneNext == Inv /\ Inv' /\ AloneInv /\ [Next]_vars => AloneInv'
<1> SUFFICES ASSUME Inv, Inv', AloneInv, [Next]_vars, NEW c \in Conns, alone' = c
             PROVE  AloneAt(c)'
  BY DEF AloneInv
<1>1. CASE ArmSampleWindow
  BY <1>1, AloneIdle DEF ArmSampleWindow, hist, AloneInv
<1>2. CASE PbufEnds \/ UNCHANGED vars
  BY <1>2, AloneIdle DEF PbufEnds, vars, parser, result, hist, AloneInv, AloneAt
<1>3. ASSUME NEW d \in Conns, Accept(d) \/ Ends(d)
      PROVE  FALSE
  BY <1>3, NamesAssumption DEF Accept, Ends, StartOver
<1>4. ASSUME NEW d \in Conns, PbufBegins(d)
      PROVE  AloneAt(c)'
  BY <1>4, AloneIdle DEF PbufBegins, parser, result, hist, AloneInv, AloneAt
<1>5. ASSUME NEW d \in Conns, Dropped(d)
      PROVE  AloneAt(c)'
  BY <1>5, AloneDropped
<1>6. ASSUME NEW d \in Conns, ParseHalf(d)
      PROVE  AloneAt(c)'
  <2>1. AloneAt(c) /\ Open(c) /\ UNCHANGED <<frame, lost>> /\ ~lastOk'
    BY <1>6, AloneOpen DEF ParseHalf, parser, result, AloneInv, AloneAt
  <2>2. CASE d # c
    <3>1. sending'[c] = sending[c]
      BY <1>6, <2>2, OthersStay DEF ParseHalf
    <3> QED BY <2>1, <3>1, AloneIdle
  <2>3. CASE d = c
    <3>1. /\ Open(c)' /\ sending'[c].line = sending[c].line
          /\ sending'[c].frame = sending[c].frame
      BY <1>6, <2>1, <2>3, HalfKeeps DEF ParseHalf
    <3> QED BY <2>1, <3>1, AloneKept
  <2> QED BY <2>2, <2>3
<1>7. ASSUME NEW d \in Conns, ParseLine(d)
      PROVE  AloneAt(c)'
  BY <1>7, AloneParsed
<1> QED BY <1>1, <1>2, <1>3, <1>4, <1>5, <1>6, <1>7 DEF Next, Server

LEMMA WholeCounts ==
  Inv /\ AloneInv /\ [Next]_vars =>
    \A c \in Conns :
      FrameEnds(c) /\ Good(sending[c].frame) =>
        (lastOk' \/ Len(cands') > Len(cands) <=> ~lost)
<1> SUFFICES ASSUME Inv, AloneInv, [Next]_vars, NEW c \in Conns, FrameEnds(c),
                    Good(sending[c].frame)
             PROVE  lastOk' \/ Len(cands') > Len(cands) <=> ~lost
  OBVIOUS
<1> DEFINE f == sending[c].frame
<1>1. Open(c) /\ fed = c /\ fed # NoConn /\ Intact(c) /\ AloneAt(c)
  BY NamesAssumption DEF FrameEnds, Inv, Server_OK, AloneInv
<1>2. f \in Frames /\ sending[c].line = LinesOf(f)
  BY <1>1, HeardFrame DEF FrameEnds, Inv
<1>3. /\ LinesOf(f) \in 1..LinesOf(f) /\ LinesOf(f) # 1
      /\ LinesOf(f) \in 2..LinesOf(f)
  <2>1. f.rows \in Seq(Text)
    BY <1>2, FramesAssumption
  <2> QED BY <2>1 DEF LinesOf
<1>4. sending'[c].line # sending[c].line
  BY <1>2, <1>3 DEF FrameEnds
<1>5. ~ParseHalf(c)
  BY <1>1, <1>4, HalfKeeps DEF ParseHalf
<1>6. ParseLine(c)
  BY <1>1, <1>4, <1>5
     DEF Next, Server, vars, ArmSampleWindow, PbufEnds, Accept, Ends, Dropped, PbufBegins,
         ParseHalf, ParseLine
<1>7. LineFinish(Total(TRUE))
  <2>1. LineFinish(Line(f, sending[c].line))
    BY <1>1, <1>6 DEF ParseLine
  <2>2. Line(f, sending[c].line) = Total(f.total)
    BY <1>2, <1>3, LineIs
  <2>3. f.total = TRUE
    BY <1>2, FramesAssumption DEF Good
  <2> QED BY <2>1, <2>2, <2>3
<1>8. Len(cands) \in Nat
  BY DEF Inv, Window_OK
<1>9. CASE ~lost
  <2>1. st = "wait" /\ Valid(body)
    BY <1>1, <1>2, <1>9 DEF AloneAt, Progress, Before, Good
  <2>2. lastOk' \/ Len(cands') = Len(cands) + 1
    BY <1>7, <2>1, TotalTaken DEF Inv
  <2> QED BY <1>8, <1>9, <2>2
<1>10. CASE lost
  <2>1. st # "wait" /\ ~lastOk
    BY <1>1, <1>2, <1>3, <1>10 DEF AloneAt, Lacks, Behind
  <2>2. TakeRow(Total(TRUE))
    BY <1>7, <2>1 DEF Total, LineFinish, TakeStart, TakeEnd, TakeTotal, TakeLong
  <2>3. Ignore \/ FailClear
    BY <2>2 DEF TakeRow, Total
  <2>4. cands' = cands /\ ~lastOk'
    BY <2>1, <2>3 DEF Ignore, FailClear, parser, sampling, result
  <2> QED BY <1>8, <1>10, <2>4
<1> QED BY <1>9, <1>10

\* A valid frame of which START and tray_total come through, with no line of another
\* in between, joins the window or fills it if all its lines came, and is refused if
\* one was lost, whatever the parser was doing before (line_finish).
THEOREM WholeFramesCount == Spec => WholeFrameCounts
<1>1. Inv /\ Inv' /\ AloneInv /\ [Next]_vars => AloneInv'
  BY AloneNext
<1>2. Spec => []AloneInv
  BY AloneInit, <1>1, Invariant, PTL DEF Spec
<1> QED BY <1>2, WholeCounts, Invariant, PTL DEF Spec, WholeFrameCounts

-----------------------------------------------------------------------------
\* The best of a window: sums of confidences, and the loop over the candidates.

\* A set of numbers has a least one: the induction of the lemmas below, each of
\* which looks at the least number for which it would be false.
LEMMA LeastOne ==
  ASSUME NEW T \in SUBSET Nat, T # {}
  PROVE  \E m \in T : \A n \in T : ~(n < m)
<1> DEFINE R == {p \in Nat \X Nat : p[1] < p[2]}
<1>1. IsWellFoundedOn(R, Nat)
  BY NatLessThanWellFounded DEF OpToRel
<1>2. \E m \in T : \A n \in T : <<n, m>> \notin R
  <2> HIDE DEF R
  <2> QED BY <1>1, WFMin
<1> QED BY <1>2

\* The sum of confidences, as MapThenSumSet takes it: a function chosen among those
\* that add one element and go on with the rest.
Pick(s)    == CHOOSE x \in s : TRUE
Turn(rows, f, s) == IF s = {} THEN 0 ELSE rows[Pick(s)].conf + f[s \ {Pick(s)}]
ConfSum(rows) == CHOOSE f : f = [s \in SUBSET DOMAIN rows |-> Turn(rows, f, s)]

LEMMA AvgIs ==
  ASSUME NEW rows
  PROVE  AvgConf(rows) = (ConfSum(rows)[DOMAIN rows] * 1000) \div Len(rows)
BY DEF AvgConf, ConfSum, Turn, Pick, MapThenSumSet, MapThenFoldSet

\* Such a function on the sets of at most k elements.
UpTo(D, k) == {s \in SUBSET D : Cardinality(s) <= k}
Sums(rows, k) ==
  \E f \in [UpTo(DOMAIN rows, k) -> Nat] :
    \A s \in UpTo(DOMAIN rows, k) : f[s] = Turn(rows, f, s)

\* A set without its picked element is smaller by one.
LEMMA Smaller ==
  ASSUME NEW D, IsFiniteSet(D), NEW s \in SUBSET D
  PROVE  /\ Cardinality(s) \in Nat /\ Cardinality(s) <= Cardinality(D)
         /\ s = {} <=> Cardinality(s) = 0
         /\ s # {} => /\ Pick(s) \in s
                      /\ s \ {Pick(s)} \in SUBSET D
                      /\ Cardinality(s \ {Pick(s)}) = Cardinality(s) - 1
<1>1. IsFiniteSet(s) /\ Cardinality(s) <= Cardinality(D)
  BY FS_Subset
<1>2. Cardinality(s) \in Nat /\ (s = {} <=> Cardinality(s) = 0)
  BY <1>1, FS_CardinalityType, FS_EmptySet
<1>3. s # {} => Pick(s) \in s
  BY DEF Pick
<1> QED BY <1>1, <1>2, <1>3, FS_RemoveElement

LEMMA RowsSized ==
  ASSUME NEW rows \in Seq(Text)
  PROVE  IsFiniteSet(DOMAIN rows) /\ \A i \in DOMAIN rows : rows[i].conf \in Nat
<1>1. DOMAIN rows = 1..Len(rows) /\ Len(rows) \in Nat
  OBVIOUS
<1>2. IsFiniteSet(DOMAIN rows)
  BY <1>1, FS_Interval
<1>3. ASSUME NEW i \in DOMAIN rows PROVE rows[i].conf \in Nat
  <2>1. rows[i] \in Text
    BY <1>1
  <2> QED BY <2>1 DEF Text
<1> QED BY <1>2, <1>3

LEMMA SumsStep ==
  ASSUME NEW rows \in Seq(Text), NEW k \in Nat, Sums(rows, k)
  PROVE  Sums(rows, k + 1)
<1> DEFINE D == DOMAIN rows
           U == UpTo(D, k)
           V == UpTo(D, k + 1)
<1>1. IsFiniteSet(D) /\ \A i \in D : rows[i].conf \in Nat
  BY RowsSized
<1>2. PICK f \in [U -> Nat] : \A s \in U : f[s] = Turn(rows, f, s)
  BY DEF Sums
<1> DEFINE g == [s \in V |-> IF s \in U THEN f[s] ELSE Turn(rows, f, s)]
<1>3. ASSUME NEW s \in V
      PROVE  /\ g[s] = Turn(rows, f, s) /\ g[s] \in Nat
             /\ s # {} => s \ {Pick(s)} \in U /\ s \ {Pick(s)} \in V
  <2>1. s \in SUBSET D /\ Cardinality(s) <= k + 1
    BY DEF UpTo
  <2>2. ASSUME s # {} PROVE s \ {Pick(s)} \in U /\ s \ {Pick(s)} \in V /\ Pick(s) \in D
    <3> DEFINE r == s \ {Pick(s)}
    <3>1. Cardinality(s) \in Nat /\ Pick(s) \in s /\ r \in SUBSET D
          /\ Cardinality(r) = Cardinality(s) - 1
      BY <1>1, <2>1, <2>2, Smaller
    <3>2. Cardinality(r) <= k /\ Cardinality(r) <= k + 1
      BY <2>1, <3>1
    <3> QED BY <2>1, <3>1, <3>2 DEF UpTo
  <2>3. g[s] = Turn(rows, f, s)
    BY <1>2
  <2>4. Turn(rows, f, s) \in Nat
    <3>1. CASE s = {}
      BY <3>1 DEF Turn
    <3>2. CASE s # {}
      <4>1. f[s \ {Pick(s)}] \in Nat /\ rows[Pick(s)].conf \in Nat
        BY <1>1, <1>2, <2>2, <3>2
      <4> QED BY <3>2, <4>1 DEF Turn
    <3> QED BY <3>1, <3>2
  <2> QED BY <2>2, <2>3, <2>4
<1>4. ASSUME NEW s \in V PROVE g[s] = Turn(rows, g, s)
  <2>1. CASE s = {}
    BY <1>3, <2>1 DEF Turn
  <2>2. CASE s # {}
    <3>1. g[s \ {Pick(s)}] = f[s \ {Pick(s)}]
      BY <1>3, <2>2
    <3>2. g[s] = Turn(rows, f, s)
      BY <1>3
    <3> QED BY <2>2, <3>1, <3>2 DEF Turn
  <2> QED BY <2>1, <2>2
<1>5. g \in [V -> Nat]
  BY <1>3
<1> HIDE DEF g
<1> QED BY <1>4, <1>5 DEF Sums

\* There are such functions for sets of any size.
LEMMA SumsAll ==
  ASSUME NEW rows \in Seq(Text), NEW k \in Nat
  PROVE  Sums(rows, k)
<1> DEFINE T == {n \in Nat : ~Sums(rows, n)}
<1>1. IsFiniteSet(DOMAIN rows)
  BY RowsSized
<1>2. Sums(rows, 0)
  <2> DEFINE f == [s \in UpTo(DOMAIN rows, 0) |-> 0]
  <2>1. ASSUME NEW s \in UpTo(DOMAIN rows, 0) PROVE s = {}
    <3>1. s \in SUBSET DOMAIN rows /\ Cardinality(s) <= 0
      BY DEF UpTo
    <3>2. Cardinality(s) \in Nat /\ (s = {} <=> Cardinality(s) = 0)
      BY <1>1, <3>1, Smaller
    <3> QED BY <3>1, <3>2
  <2>2. \A s \in UpTo(DOMAIN rows, 0) : f[s] = Turn(rows, f, s)
    BY <2>1 DEF Turn
  <2>3. f \in [UpTo(DOMAIN rows, 0) -> Nat]
    OBVIOUS
  <2> HIDE DEF f
  <2> QED BY <2>2, <2>3 DEF Sums
<1>3. SUFFICES ASSUME T # {} PROVE FALSE
  OBVIOUS
<1>4. PICK m \in T : \A n \in T : ~(n < m)
  BY <1>3, LeastOne
<1>5. m \in Nat /\ m # 0 /\ ~Sums(rows, m)
  BY <1>2
<1>6. Sums(rows, m - 1)
  BY <1>4, <1>5
<1>7. Sums(rows, (m - 1) + 1)
  BY <1>5, <1>6, SumsStep
<1> QED BY <1>5, <1>7

\* So the one chosen is one of them, and its values are numbers: the least set
\* whose sum were none would be a number and the sum of a smaller set.
LEMMA ConfSumNat ==
  ASSUME NEW rows \in Seq(Text)
  PROVE  ConfSum(rows)[DOMAIN rows] \in Nat
<1> DEFINE D == DOMAIN rows
           F == ConfSum(rows)
           T == {n \in Nat : \E s \in SUBSET D : Cardinality(s) = n /\ F[s] \notin Nat}
<1>1. IsFiniteSet(D) /\ \A i \in D : rows[i].conf \in Nat
  BY RowsSized
<1>2. Cardinality(D) \in Nat
  BY <1>1, FS_CardinalityType
<1>3. UpTo(D, Cardinality(D)) = SUBSET D
  BY <1>1, Smaller DEF UpTo
<1>4. PICK f \in [SUBSET D -> Nat] : \A s \in SUBSET D : f[s] = Turn(rows, f, s)
  <2>1. Sums(rows, Cardinality(D))
    BY <1>2, SumsAll
  <2> QED BY <1>3, <2>1 DEF Sums
<1>5. f = [s \in SUBSET D |-> Turn(rows, f, s)]
  BY <1>4
<1>6. F = [s \in SUBSET D |-> Turn(rows, F, s)]
  BY <1>5 DEF ConfSum
<1>7. ASSUME NEW s \in SUBSET D PROVE F[s] = Turn(rows, F, s)
  BY <1>6
<1> HIDE DEF F
<1>8. T = {}
  <2>1. SUFFICES ASSUME T # {} PROVE FALSE
    OBVIOUS
  <2>2. PICK m \in T : \A n \in T : ~(n < m)
    BY <2>1, LeastOne
  <2>3. PICK s \in SUBSET D : Cardinality(s) = m /\ F[s] \notin Nat
    BY <2>2
  <2>4. F[s] = Turn(rows, F, s)
    BY <1>7
  <2>5. s # {}
    BY <2>3, <2>4 DEF Turn
  <2> DEFINE r == s \ {Pick(s)}
  <2>6. Cardinality(s) \in Nat /\ Pick(s) \in s /\ r \in SUBSET D
        /\ Cardinality(r) = Cardinality(s) - 1 /\ Cardinality(r) \in Nat
    <3>1. Cardinality(s) \in Nat /\ Pick(s) \in s /\ r \in SUBSET D
          /\ Cardinality(r) = Cardinality(s) - 1
      <4> HIDE DEF T
      <4> QED BY <1>1, <2>5, Smaller
    <3>2. Cardinality(r) \in Nat
      BY <1>1, <3>1, Smaller
    <3> QED BY <3>1, <3>2
  <2>7. F[r] \in Nat
    <3>1. CASE Cardinality(r) \in T
      BY <2>2, <2>3, <2>6, <3>1
    <3>2. CASE Cardinality(r) \notin T
      BY <2>6, <3>2
    <3> QED BY <3>1, <3>2
  <2>8. F[s] = rows[Pick(s)].conf + F[r]
    BY <2>4, <2>5 DEF Turn
  <2>9. rows[Pick(s)].conf \in Nat
    BY <1>1, <2>6
  <2> QED BY <2>3, <2>7, <2>8, <2>9
<1>9. F[D] \in Nat
  BY <1>2, <1>8
<1> QED BY <1>9 DEF F

\* What frames are compared by are numbers.
LEMMA WeightsTyped ==
  ASSUME NEW rows \in Seq(Text), rows # <<>>
  PROVE  NonEmpty(rows) \in Int /\ AvgConf(rows) \in Int
<1>1. ConfSum(rows)[DOMAIN rows] \in Nat /\ Len(rows) \in Nat \ {0}
  BY ConfSumNat
<1>2. AvgConf(rows) \in Int
  BY <1>1, AvgIs
<1>3. NonEmpty(rows) \in Nat
  <2> DEFINE planted == {i \in DOMAIN rows : rows[i].class # 0}
  <2>1. IsFiniteSet(DOMAIN rows) /\ planted \in SUBSET DOMAIN rows
    BY RowsSized
  <2>2. Cardinality(planted) \in Nat
    <3> HIDE DEF planted
    <3> QED BY <2>1, Smaller
  <2> QED BY <2>2 DEF NonEmpty
<1> QED BY <1>2, <1>3

\* Frame a is no better than b.  Of the first n frames of w, b is the best, and the
\* last of the best.
Follows(a, b) ==
  \/ NonEmpty(a) < NonEmpty(b)
  \/ NonEmpty(a) = NonEmpty(b) /\ AvgConf(a) <= AvgConf(b)
Leads(w, n, b) ==
  \A j \in 1..n : Follows(w[j], w[b]) /\ (j > b => ~Follows(w[b], w[j]))

\* A turn of the loop of pick_best_candidate_index keeps the best so far.
LEMMA TurnLeads ==
  ASSUME NEW w \in Seq(Seq(Text)), \A i \in DOMAIN w : w[i] # <<>>,
         NEW n \in DOMAIN w, NEW m \in DOMAIN w, m = n + 1, NEW b \in 1..n, Leads(w, n, b)
  PROVE  Better(w, m, b) \in 1..m /\ Leads(w, m, Better(w, m, b))
<1> DEFINE ne(i) == NonEmpty(w[i])
           av(i) == AvgConf(w[i])
<1>1. \A i \in 1..Len(w) : ne(i) \in Int /\ av(i) \in Int
  BY WeightsTyped
<1>2. /\ b \in 1..Len(w) /\ m \in 1..Len(w) /\ b < m
      /\ 1..n \subseteq 1..Len(w) /\ 1..m = 1..n \cup {m}
  OBVIOUS
<1>3. \A i, j : Follows(w[i], w[j]) <=> ne(i) < ne(j) \/ (ne(i) = ne(j) /\ av(i) <= av(j))
  BY DEF Follows
<1>4. Beats(w, m, b) <=>
        \/ ne(m) > ne(b)
        \/ ne(m) = ne(b) /\ (av(m) > av(b) \/ (av(m) = av(b) /\ m > b))
  BY DEF Beats
<1> HIDE DEF ne, av
<1>5. CASE Beats(w, m, b)
  <2>1. Follows(w[b], w[m]) /\ Follows(w[m], w[m])
    BY <1>1, <1>2, <1>3, <1>4, <1>5
  <2>2. ASSUME NEW j \in 1..n PROVE Follows(w[j], w[m])
    <3>1. Follows(w[j], w[b]) /\ j \in 1..Len(w)
      BY <1>2 DEF Leads
    <3>2. /\ ne(j) < ne(b) \/ (ne(j) = ne(b) /\ av(j) <= av(b))
          /\ ne(b) < ne(m) \/ (ne(b) = ne(m) /\ av(b) <= av(m))
      BY <1>3, <2>1, <3>1
    <3>3. /\ ne(j) \in Int /\ ne(b) \in Int /\ ne(m) \in Int
          /\ av(j) \in Int /\ av(b) \in Int /\ av(m) \in Int
      BY <1>1, <1>2, <3>1
    <3>4. ne(j) < ne(m) \/ (ne(j) = ne(m) /\ av(j) <= av(m))
      BY <3>2, <3>3
    <3> QED BY <1>3, <3>4
  <2>3. Leads(w, m, m)
    BY <1>2, <2>1, <2>2 DEF Leads
  <2> QED BY <1>2, <1>5, <2>3 DEF Better
<1>6. CASE ~Beats(w, m, b)
  <2>1. Follows(w[m], w[b]) /\ ~Follows(w[b], w[m])
    BY <1>1, <1>2, <1>3, <1>4, <1>6
  <2>2. Leads(w, m, b)
    BY <1>2, <2>1 DEF Leads
  <2> QED BY <1>2, <1>6, <2>2 DEF Better
<1> QED BY <1>5, <1>6

LEMMA BestLeads ==
  ASSUME NEW w \in Seq(Seq(Text)), \A i \in DOMAIN w : w[i] # <<>>, Len(w) \in 1..4
  PROVE  Best(w) \in DOMAIN w /\ Leads(w, Len(w), Best(w))
<1> DEFINE n == Len(w)
           b2 == Better(w, 2, 1)
           b3 == Better(w, 3, b2)
           b4 == Better(w, 4, b3)
<1>1. Leads(w, 1, 1)
  BY WeightsTyped DEF Leads, Follows
<1>2. CASE n = 1
  <2>1. b2 = 1 /\ b3 = 1 /\ b4 = 1
    BY <1>2 DEF Better
  <2> QED BY <1>1, <1>2, <2>1 DEF Best
<1>3. ASSUME n >= 2 PROVE b2 \in 1..2 /\ Leads(w, 2, b2)
  <2>1. 1 \in DOMAIN w /\ 2 \in DOMAIN w /\ 1 \in 1..1 /\ 2 = 1 + 1
    BY <1>3
  <2> QED BY <1>1, <2>1, TurnLeads
<1>4. CASE n = 2
  <2>1. b3 = b2 /\ b4 = b2
    BY <1>4 DEF Better
  <2> QED BY <1>3, <1>4, <2>1 DEF Best
<1>5. ASSUME n >= 3 PROVE b3 \in 1..3 /\ Leads(w, 3, b3)
  <2>1. b2 \in 1..2 /\ Leads(w, 2, b2)
    BY <1>3, <1>5
  <2>2. 2 \in DOMAIN w /\ 3 \in DOMAIN w /\ 3 = 2 + 1
    BY <1>5
  <2> HIDE DEF b2
  <2> QED BY <2>1, <2>2, TurnLeads
<1>6. CASE n = 3
  <2>1. b4 = b3
    BY <1>6 DEF Better
  <2> QED BY <1>5, <1>6, <2>1 DEF Best
<1>7. CASE n = 4
  <2>1. b3 \in 1..3 /\ Leads(w, 3, b3)
    BY <1>5, <1>7
  <2>2. b4 \in 1..4 /\ Leads(w, 4, b4)
    <3>1. 3 \in DOMAIN w /\ 4 \in DOMAIN w /\ 4 = 3 + 1
      BY <1>7
    <3> HIDE DEF b3
    <3> QED BY <2>1, <3>1, TurnLeads
  <2> QED BY <1>7, <2>2 DEF Best
<1> QED BY <1>2, <1>4, <1>6, <1>7

LEMMA BestCommitted ==
  ASSUME Inv, TakeFrame, st = "wait", lastOk', heard \subseteq heard'
  PROVE  LET w == Append(cands, body)
         IN  \E b \in DOMAIN w :
               /\ table' = w[b]
               /\ \A j \in DOMAIN w :
                    Follows(w[j], w[b]) /\ (j > b => ~Follows(w[b], w[j]))
<1> DEFINE w == Append(cands, body)
<1>1. Window_OK /\ Frame_OK
  BY DEF Inv
<1>0. Valid(body)
  BY DEF TakeFrame
<1>2. w \in Seq(Seq(Text)) /\ Len(w) = Len(cands) + 1 /\ \A i \in DOMAIN w : w[i] # <<>>
  BY <1>0, <1>1, WindowWithFrame DEF Fit, Sound
<1>3. Len(w) \in 1..4
  <2>1. build.window \in 1..4 /\ Len(cands) \in Nat /\ Len(cands) < build.window
    BY <1>1, BuildsAssumption DEF Window_OK
  <2> QED BY <1>2, <2>1
<1>4. table' = w[Best(w)]
  BY DEF TakeFrame, Commit
<1> HIDE DEF w
<1>5. Best(w) \in DOMAIN w /\ Leads(w, Len(w), Best(w)) /\ DOMAIN w = 1..Len(w)
  <2>1. DOMAIN w = 1..Len(w)
    BY <1>2
  <2>2. Best(w) \in DOMAIN w /\ Leads(w, Len(w), Best(w))
    BY <1>2, <1>3, BestLeads
  <2> QED BY <2>1, <2>2
<1>6. table' = w[Best(w)] /\ \A j \in DOMAIN w :
        Follows(w[j], w[Best(w)]) /\ (j > Best(w) => ~Follows(w[Best(w)], w[j]))
  BY <1>4, <1>5 DEF Leads
<1> QED BY <1>5, <1>6 DEF w

\* Only a frame that ends in a total line makes the table trusted.
LEMMA TrustedByTotal ==
  ASSUME Inv, [Next]_vars, ~lastOk, lastOk'
  PROVE  st = "wait" /\ TakeFrame /\ heard \subseteq heard'
<1>1. PICK c \in Conns : ParseLine(c)
  BY DEF Next, Server, vars, ArmSampleWindow, PbufEnds, Accept, Ends, StartOver, ProtocolInit,
         Dropped, PbufBegins, ParseHalf, parser, result
<1>2. PICK l : LineFinish(l)
  BY <1>1 DEF ParseLine
<1>3. TakeTotal(l)
  BY <1>2 DEF LineFinish, TakeStart, TakeEnd, TakeRow, TakeLong, FailClear, Ignore, parser, result
<1>4. st = "wait" /\ TakeFrame
  BY <1>3 DEF TakeTotal, FailClear
<1> QED BY <1>1, <1>4 DEF ParseLine

LEMMA BestStep ==
  Inv /\ [Next]_vars =>
    (~lastOk /\ lastOk' =>
       LET w == Append(cands, body)
           AtMost(a, b) ==
             \/ NonEmpty(a) < NonEmpty(b)
             \/ NonEmpty(a) = NonEmpty(b) /\ AvgConf(a) <= AvgConf(b)
       IN  \E i \in DOMAIN w :
             /\ table' = w[i]
             /\ \A j \in DOMAIN w : AtMost(w[j], w[i]) /\ (j > i => ~AtMost(w[i], w[j])))
<1> SUFFICES ASSUME Inv, [Next]_vars, ~lastOk, lastOk'
             PROVE  LET w == Append(cands, body)
                    IN  \E b \in DOMAIN w :
                          /\ table' = w[b]
                          /\ \A j \in DOMAIN w :
                               Follows(w[j], w[b]) /\ (j > b => ~Follows(w[b], w[j]))
  BY Zenon DEF Follows
<1> QED BY TrustedByTotal, BestCommitted

\* The frame committed is the last of the best of its window, by plants first and
\* by the average confidence second (pick_best_candidate_index).
THEOREM WindowTakesBest == Spec => BestOfWindow
BY BestStep, Invariant, PTL DEF Spec, BestOfWindow

=============================================================================
