------------------------------ MODULE TextLink ------------------------------
(***************************************************************************)
(* The text link: matrix frames sent by hosts over TCP (app_tcp_server.c)  *)
(* to the line parser of app_protocol.c.  A frame is                       *)
(*                                                                         *)
(*   START,count=n  /  n rows  /  END checksum=...  /  tray_total=...      *)
(*                                                                         *)
(* TCP keeps the order of the bytes but cuts the stream anywhere, a pbuf   *)
(* is parsed or dropped whole, and all the connections feed one parser.    *)
(***************************************************************************)
EXTENDS Integers, Sequences, Functions, FiniteSetsExt

CONSTANTS
  Conns,    \* TCP connections
  Frames,   \* frames the hosts send
  Odd,      \* rows that parts of different lines may read as
  OddSums,  \* checksums, modulo 2^16, that such parts may read as
  Slots,    \* MATRIX_EXPECTED_ROWS, which is MATRIX_MAX_ROWS
  Builds,   \* values of the two build switches
  Nothing,  \* the line buffer is empty
  Joined,   \* it holds parts of different lines
  NoConn

\* A row as it was written; csv: it has eight columns and all are numbers.
\* The cell stands for tray, column and row; sum is that of its characters, those
\* of the columns u, v and z among them.
Text == [cell : 0..Slots + 1, class : 0..2, conf : Nat, sum : Nat, csv : BOOLEAN]

ASSUME SlotsAssumption == Slots \in Nat \ {0}
ASSUME FramesAssumption ==
  Frames \subseteq [rows : Seq(Text), count : Nat, total : BOOLEAN] /\ Odd \subseteq Text
ASSUME BuildsAssumption == Builds \subseteq [window : 1..4, keepOpen : BOOLEAN]
ASSUME NamesAssumption == Nothing # Joined /\ Conns \cap {Nothing, Joined, NoConn} = {}

VARIABLES
  build,    \* MATRIX_SAMPLE_WINDOW_FRAMES, CFG_MATRIX_KEEP_RX_OPEN_AFTER_OK
  sending,  \* by connection: the frame, the line, and whether half of it is out
  fed,      \* the connection whose pbuf is in AppProtocol_OnStream
  buf,      \* s_line: Nothing, the first half of a connection's line, or Joined
  gate,     \* s_gate_open
  cands,    \* s_cand up to s_valid_count
  st,       \* s_st
  decl,     \* s_decl_cnt
  body,     \* s_rows and s_chk_acc, by the text of the rows
  table,    \* s_tbl, by the text of the rows
  lastOk,   \* s_last_ok
  heard,    \* history: frames of which a byte was parsed since AppProtocol_Init
  alone,    \* history: the connection whose frame every line since START is of
  lost      \* history: a line of that frame was dropped

sampling == <<gate, cands>>
frame    == <<st, decl, body>>
result   == <<table, lastOk>>
parser   == <<sampling, frame, result>>
hist     == <<heard, alone, lost>>
vars     == <<build, sending, fed, buf, parser, hist>>

LinesOf(f) == Len(f.rows) + 3
Closed     == [line |-> 0]
Position   ==
  {Closed} \cup {p \in [frame : Frames, line : Nat, half : BOOLEAN] :
                   p.line \in 1..LinesOf(p.frame)}

TypeOK ==
  /\ build \in Builds
  /\ sending \in [Conns -> Position]
  /\ fed \in Conns \cup {NoConn}
  /\ buf \in Conns \cup {Nothing, Joined}
  /\ gate \in BOOLEAN
  /\ cands \in Seq(Seq(Text)) /\ Len(cands) < build.window
  /\ st \in {"idle", "body", "wait"}
  /\ decl \in 0..Slots
  /\ {body, table} \subseteq Seq(Text) /\ Len(body) <= Slots
  /\ lastOk \in BOOLEAN
  /\ heard \subseteq Frames /\ alone \in Conns \cup {NoConn} /\ lost \in BOOLEAN

Init ==
  /\ build \in Builds
  /\ sending = [c \in Conns |-> Closed] /\ fed = NoConn /\ buf = Nothing
  /\ gate = TRUE /\ cands = <<>>
  /\ st = "idle" /\ decl = 0 /\ body = <<>>
  /\ table = <<>> /\ lastOk = FALSE
  /\ heard = {} /\ alone = NoConn /\ lost = FALSE

-----------------------------------------------------------------------------
\* Lines.

\* The sum of the characters of the rows, in whatever order they come.
Checksum(rows) == MapThenSumSet(LAMBDA i : rows[i].sum, DOMAIN rows) % 65536

\* A count that is missing or out of range is 0.
Start(n)  == [kind |-> "start", count |-> n]
Row(t)    == [kind |-> "row", text |-> t]
End(sum)  == [kind |-> "end", fmt |-> TRUE, chk |-> sum]
BadEnd    == [kind |-> "end", fmt |-> FALSE, chk |-> 0]
Total(ok) == [kind |-> "total", ok |-> ok]
Long      == [kind |-> "long"]

Line(f, i) ==
  CASE i = 1              -> Start(f.count)
    [] i = LinesOf(f) - 1 -> End(Checksum(f.rows))
    [] i = LinesOf(f)     -> Total(f.total)
    [] OTHER              -> Row(f.rows[i - 1])

\* What parts of different lines of frames in fs may read as.
JoinedLines(fs) ==
  {Start(n) : n \in 0..Slots} \cup {Row(t) : t \in Odd}
    \cup {End(n) : n \in {Checksum(f.rows) : f \in fs} \cup OddSums}
    \cup {BadEnd, Total(TRUE), Total(FALSE), Long}

\* iround_bounded: a value out of range becomes the nearest in range.
CellOf(t) == IF t.cell < 1 THEN 1 ELSE IF t.cell > Slots THEN Slots ELSE t.cell

\* AppMatrixRaw_ValidateFullGrid, AppMatrixRaw_ValidateSparseSlots: no cell
\* twice; the class is in range since it was parsed.
Valid(rows) == \A i, j \in DOMAIN rows : CellOf(rows[i]) = CellOf(rows[j]) => i = j

-----------------------------------------------------------------------------
\* The sampling window.

NonEmpty(rows) == Cardinality({i \in DOMAIN rows : rows[i].class # 0})
AvgConf(rows)  ==
  (MapThenSumSet(LAMBDA i : rows[i].conf, DOMAIN rows) * 1000) \div Len(rows)

\* Mutant: the surer frame wins, whatever grows on it.
BeatsBySurety(w, i, b) ==
  \/ AvgConf(w[i]) > AvgConf(w[b])
  \/ /\ AvgConf(w[i]) = AvgConf(w[b])
     /\ NonEmpty(w[i]) > NonEmpty(w[b]) \/ (NonEmpty(w[i]) = NonEmpty(w[b]) /\ i > b)

\* Candidate i, which came later, against the best so far.
Beats(w, i, b) ==
  \/ NonEmpty(w[i]) > NonEmpty(w[b])
  \/ /\ NonEmpty(w[i]) = NonEmpty(w[b])
     /\ AvgConf(w[i]) > AvgConf(w[b]) \/ (AvgConf(w[i]) = AvgConf(w[b]) /\ i > b)

\* pick_best_candidate_index: a turn of the loop, and its three turns at most.
Better(w, i, b) == IF i <= Len(w) /\ Beats(w, i, b) THEN i ELSE b
Best(w)         == Better(w, 4, Better(w, 3, Better(w, 2, 1)))

\* AppProtocol_ArmSampleWindow, at the start of every belt run.
ArmSampleWindow ==
  /\ fed = NoConn
  /\ gate' = TRUE /\ cands' = <<>> /\ lastOk' = FALSE
  /\ UNCHANGED <<build, sending, fed, buf, frame, table, hist>>

-----------------------------------------------------------------------------
\* line_finish.

\* proto_reset_transport_state; the line buffer is empty already.
Reset == st' = "idle" /\ decl' = 0 /\ body' = <<>>

\* protocol_fail_clear_matrix
FailClear == Reset /\ table' = <<>> /\ lastOk' = FALSE /\ UNCHANGED sampling

Ignore == UNCHANGED parser

\* Mutant: the rows of an unfinished frame stay.
TakeStartKeepsRows(l) ==
  /\ l.kind = "start"
  /\ table' = <<>> /\ lastOk' = FALSE
  /\ UNCHANGED <<sampling, body>>
  /\ IF l.count \in 1..Slots
     THEN st' = "body" /\ decl' = l.count
     ELSE st' = "idle" /\ decl' = 0

\* Mutant: the table stays trusted while the next frame comes in.
TakeStartTrusts(l) ==
  /\ l.kind = "start"
  /\ UNCHANGED <<sampling, result>>
  /\ IF l.count \in 1..Slots
     THEN st' = "body" /\ decl' = l.count /\ body' = <<>>
     ELSE Reset

\* START: the table is given up.
TakeStart(l) ==
  /\ l.kind = "start"
  /\ table' = <<>> /\ lastOk' = FALSE
  /\ UNCHANGED sampling
  /\ IF l.count \in 1..Slots
     THEN st' = "body" /\ decl' = l.count /\ body' = <<>>
     ELSE Reset

\* Mutant: the checksum is not compared.
AgreesByCount(l) == l.fmt /\ decl = Len(body)

Agrees(l) == l.fmt /\ l.chk = Checksum(body) /\ decl = Len(body)

TakeEnd(l) ==
  /\ l.kind = "end"
  /\ \/ /\ st = "body" /\ Agrees(l)
        /\ st' = "wait" /\ lastOk' = FALSE
        /\ UNCHANGED <<sampling, decl, body, table>>
     \/ ~(st = "body" /\ Agrees(l)) /\ FailClear

\* The best frame of the window becomes the table.
Commit(window) ==
  /\ table' = window[Best(window)] /\ lastOk' = TRUE
  /\ gate' = build.keepOpen /\ cands' = <<>>

\* Mutant: the window takes one frame more.
WindowFullLate(window) == Len(window) > build.window

WindowFull(window) == Len(window) >= build.window

\* A frame that is valid joins the window; one that is not is dropped, and
\* AppMatrix_SetFromTcpParser leaves the table alone.
TakeFrame ==
  /\ Reset
  /\ \/ ~Valid(body) /\ lastOk' = FALSE /\ UNCHANGED <<sampling, table>>
     \/ /\ Valid(body)
        /\ LET window == Append(cands, body)
           IN  \/ WindowFull(window) /\ Commit(window)
               \/ /\ ~WindowFull(window) /\ cands' = window
                  /\ table' = <<>> /\ lastOk' = FALSE /\ UNCHANGED gate

TakeTotal(l) ==
  /\ st = "wait" /\ l.kind \in {"row", "total"}
  /\ IF l = Total(TRUE) THEN TakeFrame ELSE FailClear

\* A row, as any other line is taken for one; rows too many are ignored.
TakeRow(l) ==
  /\ st # "wait" /\ l.kind \in {"row", "total"}
  /\ CASE st = "idle" \/ Len(body) >= Slots -> Ignore
       [] l.kind = "total" \/ ~l.text.csv   -> FailClear
       [] OTHER -> body' = Append(body, l.text) /\ UNCHANGED <<sampling, st, decl, result>>

TakeLong(l) ==
  /\ l.kind = "long"
  /\ IF st = "body" THEN FailClear ELSE Ignore

LineFinish(l) == TakeStart(l) \/ TakeEnd(l) \/ TakeTotal(l) \/ TakeRow(l) \/ TakeLong(l)

-----------------------------------------------------------------------------
\* The TCP server.

ProtocolInit ==
  /\ Reset /\ gate' = TRUE /\ cands' = <<>> /\ lastOk' = FALSE
  /\ buf' = Nothing

StartOver ==
  /\ ProtocolInit /\ table' = <<>>
  /\ heard' = {} /\ alone' = NoConn /\ lost' = FALSE

Open(c) == sending[c] # Closed

\* Line i of frame f comes next.
At(f, i) == [frame |-> f, line |-> i, half |-> FALSE]

\* matrix_accept; a connection that is open stays.
Accept(c) ==
  /\ fed = NoConn /\ ~Open(c)
  /\ \E f \in Frames : sending' = [sending EXCEPT ![c] = At(f, 1)]
  /\ StartOver /\ UNCHANGED <<build, fed>>

\* matrix_recv on FIN or an error, which closes nothing; matrix_tcp_err.
Ends(c) ==
  /\ fed = NoConn /\ Open(c)
  /\ UNCHANGED sending \/ sending' = [sending EXCEPT ![c] = Closed]
  /\ StartOver /\ UNCHANGED <<build, fed>>

\* The host sends on: the rest of the line, or a first half of it.
SendsHalf(c) ==
  /\ ~sending[c].half
  /\ sending' = [sending EXCEPT ![c].half = TRUE]

SendsRest(c) ==
  LET s == sending[c]
  IN  IF s.line < LinesOf(s.frame)
      THEN sending' = [sending EXCEPT ![c] = At(s.frame, s.line + 1)]
      ELSE \E f \in Frames : sending' = [sending EXCEPT ![c] = At(f, 1)]

\* The lines since START are not of one frame, or there was no START.
NotAlone == alone' = NoConn /\ lost' = FALSE

\* A pbuf is dropped, the gate being closed or the sorter in FL2 or FL3.
Dropped(c) ==
  /\ fed = NoConn /\ Open(c)
  /\ \/ SendsHalf(c) /\ UNCHANGED <<alone, lost>>
     \/ /\ SendsRest(c)
        /\ IF alone # c THEN UNCHANGED <<alone, lost>>
           ELSE IF sending'[c].line = 1 THEN NotAlone
           ELSE UNCHANGED alone /\ lost' = TRUE
  /\ buf' = IF buf = c THEN Joined ELSE buf
  /\ UNCHANGED <<build, fed, parser, heard>>

\* A pbuf is parsed: to its end, whatever happens to the gate.
PbufBegins(c) ==
  /\ fed = NoConn /\ Open(c) /\ gate /\ fed' = c
  /\ UNCHANGED <<build, sending, buf, parser, hist>>

PbufEnds ==
  /\ fed # NoConn /\ fed' = NoConn
  /\ UNCHANGED <<build, sending, buf, parser, hist>>

ParseHalf(c) ==
  /\ fed = c /\ SendsHalf(c)
  /\ buf' = IF buf = Nothing THEN c ELSE Joined
  /\ heard' = heard \cup {sending[c].frame}
  /\ UNCHANGED <<build, fed, parser, alone, lost>>

\* The line is in the buffer from its first byte to its last.
Intact(c) == buf = IF sending[c].half THEN c ELSE Nothing

ParseLine(c) ==
  /\ fed = c /\ SendsRest(c) /\ buf' = Nothing
  /\ heard' = heard \cup {sending[c].frame}
  /\ \/ /\ Intact(c) /\ LineFinish(Line(sending[c].frame, sending[c].line))
        /\ IF sending[c].line = 1 THEN alone' = c /\ lost' = FALSE
           ELSE IF alone = c /\ sending'[c].line # 1 THEN UNCHANGED <<alone, lost>>
           ELSE NotAlone
     \/ ~Intact(c) /\ (\E l \in JoinedLines(heard') : LineFinish(l)) /\ NotAlone
  /\ UNCHANGED <<build, fed>>

Server(c) ==
  \/ Accept(c) \/ Ends(c) \/ Dropped(c) \/ PbufBegins(c) \/ ParseHalf(c) \/ ParseLine(c)

Next == ArmSampleWindow \/ PbufEnds \/ \E c \in Conns : Server(c)

Spec == Init /\ [][Next]_vars

-----------------------------------------------------------------------------
(***************************************************************************)
(* Properties.                                                             *)
(***************************************************************************)

Promise == INSTANCE MatrixLink WITH
  Cell <- CellOf, Sum <- Checksum, offered <- heard, trusted <- lastOk

\* The link keeps the promise of MatrixLink: wherever the stream is cut, dropped
\* or mixed with that of another client, the table is empty or has rows of frames
\* sent since the last client came or went, no two for one cell, with the checksum
\* of one of the frames, parts of lines that read as a row or a checksum excepted.
KeepsPromise == Promise!Spec

\* A table that is trusted is there, and no frame is being put together.
TrustedIsCommitted == lastOk => st = "idle" /\ table # <<>> /\ cands = <<>>

Good(f) ==
  /\ f.count = Len(f.rows) /\ f.count \in 1..Slots /\ f.total
  /\ Valid(f.rows) /\ \A i \in DOMAIN f.rows : f.rows[i].csv

\* The last line of a frame comes through, and nothing but lines of that frame
\* since its START.
FrameEnds(c) ==
  /\ fed = c /\ alone = c /\ Intact(c)
  /\ sending[c].line = LinesOf(sending[c].frame) /\ sending'[c].line = 1

\* Such a frame, if it is valid, joins the window or fills it when all its lines
\* came through, whatever the parser was doing before; when one was lost it does
\* not, whatever its checksum: only rows of another frame can stand in for its own.
WholeFrameCounts ==
  [][\A c \in Conns :
       FrameEnds(c) /\ Good(sending[c].frame) =>
         (lastOk' \/ Len(cands') > Len(cands) <=> ~lost)]_vars

\* Of the frames of a window the one with the most seedlings is committed, of
\* those the one with the highest confidence, of those the last.
BestOfWindow ==
  [][~lastOk /\ lastOk' =>
       LET w == Append(cands, body)
           AtMost(a, b) ==
             \/ NonEmpty(a) < NonEmpty(b)
             \/ NonEmpty(a) = NonEmpty(b) /\ AvgConf(a) <= AvgConf(b)
       IN  \E i \in DOMAIN w :
             /\ table' = w[i]
             /\ \A j \in DOMAIN w : AtMost(w[j], w[i]) /\ (j > i => ~AtMost(w[i], w[j]))]_vars

\* docs: once the gate is closed only a belt run or a new client opens it, and
\* what arrives is not parsed: the table it was closed on stays as it is.
ClosedGateKeepsTable ==
  [][~gate /\ ~gate' => UNCHANGED <<table, lastOk>>]_vars
=============================================================================
