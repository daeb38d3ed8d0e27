---------------------------- MODULE ModbusMaster ----------------------------
(***************************************************************************)
(* The Modbus master of the RS485 bus: ModbusMaster_TxnExec called by      *)
(* main() and by a caller that preempts it, as an emergency stop would.    *)
(* A frame is a record; an answer on its way is on the wire, an answer the *)
(* receive interrupt has stored is in the ring.                            *)
(***************************************************************************)
EXTENDS Integers, Sequences, FiniteSets, SequencesExt

CONSTANTS
  Requests,  \* the requests the callers make
  None,      \* no request: the caller is not in TxnExec
  Garbled,   \* a frame whose CRC is wrong
  Lateness,  \* TRUE: an answer may arrive after the next request was sent
  Depth,     \* MB_HIST_DEPTH
  MaxWire,   \* bound: answers on the wire
  MaxRing    \* bound: frames in the ring

Contexts == {"main", "isr"}
Slaves   == {r.slave : r \in Requests}
Codes    == {r.fc : r \in Requests}

ASSUME RequestsAssumption ==
  \A r \in Requests : DOMAIN r = {"slave", "fc", "waits", "wellFormed"}
                        /\ r.waits \in BOOLEAN /\ r.wellFormed \in BOOLEAN
ASSUME BoundsAssumption ==
  Depth \in Nat \ {0} /\ {MaxWire, MaxRing} \subseteq Nat /\ Lateness \subseteq BOOLEAN

VARIABLES
  owner,     \* s_mb_owner
  pc,        \* where each caller is in TxnExec
  rq, rs,    \* its request, and its result
  att,       \* the attempt it is at
  wire,      \* answers under way
  ring,      \* frames received and not read
  last,      \* s_last_result
  hist, w, count,  \* s_hist, s_hist_w, s_hist_count
  late,      \* an answer may be late
  carried,   \* history: how often the request of the call was carried out
  log        \* history: the last transactions, newest first

diag == <<last, hist, w, count, log>>
vars == <<owner, pc, rq, rs, att, wire, ring, diag, late, carried>>

Errors == {"OK", "TIMEOUT", "CRC", "SLAVE", "FC", "LEN", "BUF", "ARG", "EXCEPTION"}

\* ModbusTxnResult_t by its error; "none" before there is one
Results == Errors \cup {"none"}

\* What is asked for, an exception, or an answer whose length is not that of its
\* function, with a good CRC.
Replies == {"data", "exception", "misfit"}

Answers == [slave : Slaves, fc : Codes, reply : Replies]

TypeOK ==
  /\ owner \in BOOLEAN /\ late \in BOOLEAN
  /\ pc \in [Contexts -> {"idle", "take", "send", "recv", "save", "push", "release"}]
  /\ rq \in [Contexts -> Requests \cup {None}]
  /\ rs \in [Contexts -> Results]
  /\ wire \in Seq(Answers) /\ ring \in Seq(Answers \cup {Garbled})
  /\ last \in Results /\ hist \in [0..Depth - 1 -> Results]
  /\ w \in 0..Depth - 1 /\ count \in 0..Depth
  /\ att \in [Contexts -> 0..2] /\ carried \in [Contexts -> 0..3]
  /\ log \in Seq(Results)

Init ==
  /\ owner = FALSE /\ late \in Lateness
  /\ pc = [c \in Contexts |-> "idle"]
  /\ rq = [c \in Contexts |-> None]
  /\ rs = [c \in Contexts |-> "none"]
  /\ wire = <<>> /\ ring = <<>>
  /\ last = "none" /\ hist = [i \in 0..Depth - 1 |-> "none"] /\ w = 0 /\ count = 0
  /\ att = [c \in Contexts |-> 0] /\ carried = [c \in Contexts |-> 0] /\ log = <<>>

-----------------------------------------------------------------------------
(***************************************************************************)
(* The mutex.                                                              *)
(***************************************************************************)
Goto(c, l) == pc' = [pc EXCEPT ![c] = l]

\* Nothing runs main() while its preempter is in a call.
Runs(c) == c = "main" => pc["isr"] = "idle"

\* A caller enters TxnExec, through a wrapper or with a request of its own.
Begin(c, r) ==
  /\ Runs(c) /\ pc[c] = "idle" /\ Goto(c, "take")
  /\ rq' = [rq EXCEPT ![c] = r]
  /\ UNCHANGED <<owner, rs, att, wire, ring, diag, late, carried>>

\* TxnExec returns and its request and result go out of the model.
Return(c) ==
  /\ Goto(c, "idle")
  /\ rq' = [rq EXCEPT ![c] = None]
  /\ rs' = [rs EXCEPT ![c] = "none"]
  /\ att' = [att EXCEPT ![c] = 0]
  /\ carried' = [carried EXCEPT ![c] = 0]

\* Mutant: the way out of a call that found the bus busy releases it.
BusyReleases(c) == Return(c) /\ owner' = FALSE

\* mutex_take_ms timed out: TxnExec returns BUSY, its result not written.
Busy(c) == Return(c) /\ UNCHANGED owner

\* mutex_take_ms
Take(c) ==
  /\ Runs(c) /\ pc[c] = "take"
  /\ \/ /\ ~owner /\ owner' = TRUE /\ Goto(c, "send")
        /\ att' = [att EXCEPT ![c] = 1]
        /\ UNCHANGED <<rq, rs, carried>>
     \/ owner /\ Busy(c)
  /\ UNCHANGED <<wire, ring, diag, late>>

\* mutex_release, after which TxnExec returns
Release(c) ==
  /\ Runs(c) /\ pc[c] = "release" /\ Return(c)
  /\ owner' = FALSE
  /\ UNCHANGED <<wire, ring, diag, late>>

-----------------------------------------------------------------------------
(***************************************************************************)
(* One attempt.                                                            *)
(***************************************************************************)

\* Mutant: the ring keeps what it has.
FlushForgotten(q) == q

\* BSP_USART1_RxFlush
RxFlush(q) == <<>>

MaxTry(r) == IF r.waits THEN 2 ELSE 1

\* Mutant: one attempt too many.
RetriesOnceMore(r, e, n) == e \in {"TIMEOUT", "CRC"} /\ n <= MaxTry(r)

\* TIMEOUT and CRC are retried, nothing else.
Retries(r, e, n) == e \in {"TIMEOUT", "CRC"} /\ n < MaxTry(r)

\* Mutant: the attempts are not counted.
NotCounted(n) == n

NextAttempt(n) == n + 1

\* What becomes of an attempt: another one, or the result of the call.
Ends(c, e) ==
  /\ rs' = [rs EXCEPT ![c] = e]
  /\ \/ /\ Retries(rq[c], e, att[c])
        /\ att' = [att EXCEPT ![c] = NextAttempt(@)] /\ Goto(c, "send")
     \/ ~Retries(rq[c], e, att[c]) /\ UNCHANGED att /\ Goto(c, "save")

\* Up to 3 are told apart.
Counted(n) == IF n < 3 THEN n + 1 ELSE n

Answer(r, reply) == [slave |-> r.slave, fc |-> r.fc, reply |-> reply]

\* The frame is lost, or the slave carries it out, or refuses it; unless answers may
\* be late, all that were under way have come by the time the ring is flushed.
Transmit(c) ==
  LET before == IF late THEN wire ELSE <<>>
      come   == IF late THEN ring ELSE ring \o wire
  IN  /\ ring' = RxFlush(come)
      /\ \/ wire' = before /\ UNCHANGED carried
         \/ /\ Len(before) < MaxWire
            /\ \E reply \in Replies :
                 /\ wire' = Append(before, Answer(rq[c], reply))
                 /\ carried' = [carried EXCEPT ![c] =
                      IF reply = "exception" THEN @ ELSE Counted(@)]

\* txn_once_inner up to the wait for an answer
Send(c) ==
  /\ Runs(c) /\ pc[c] = "send"
  /\ IF rq[c].wellFormed
     THEN /\ Transmit(c)
          /\ IF rq[c].waits THEN Goto(c, "recv") /\ UNCHANGED <<rs, att>> ELSE Ends(c, "OK")
     ELSE Ends(c, "ARG") /\ UNCHANGED <<wire, ring, carried>>
  /\ UNCHANGED <<owner, rq, diag, late>>

\* txn_once_inner, ModbusMaster_ParseResponse: one frame against the request
Checked(r, f) ==
  IF f = Garbled THEN "CRC"
  ELSE IF f.slave # r.slave THEN "SLAVE"
  ELSE IF f.fc # r.fc THEN "FC"
  ELSE IF f.reply = "exception" THEN "EXCEPTION"
  ELSE IF f.reply = "misfit" THEN "LEN" ELSE "OK"

\* master_recv_adu: nothing came; or what is in the ring up to a silence is one frame;
\* or it is too long for the buffer, or was cut off by the timeout.
Receive(c) ==
  /\ Runs(c) /\ pc[c] = "recv"
  /\ \/ ring = <<>> /\ Ends(c, "TIMEOUT") /\ UNCHANGED ring
     \/ \E n \in 1..Len(ring) :
          /\ ring' = SubSeq(ring, n + 1, Len(ring))
          /\ \/ n = 1 /\ Ends(c, Checked(rq[c], ring[1]))
             \/ n > 1 /\ \E e \in {"CRC", "BUF"} : Ends(c, e)
             \/ Ends(c, "TIMEOUT")
  /\ UNCHANGED <<owner, rq, wire, diag, late, carried>>

\* The bus: an answer arrives, in any order, whole or not, or is lost; a full ring
\* loses it too.
Arrive(i) ==
  /\ wire' = RemoveAt(wire, i)
  /\ \/ /\ Len(ring) < MaxRing
        /\ \E f \in {wire[i], Garbled} : ring' = Append(ring, f)
     \/ UNCHANGED ring
  /\ UNCHANGED <<owner, pc, rq, rs, att, diag, late, carried>>

-----------------------------------------------------------------------------
(***************************************************************************)
(* The last result and the history.                                        *)
(***************************************************************************)
\* The copy of the result before hist_push_locked.
SaveLast(c) ==
  /\ Runs(c) /\ pc[c] = "save" /\ Goto(c, "push")
  /\ last' = rs[c]
  /\ UNCHANGED <<owner, rq, rs, att, wire, ring, hist, w, count, log, late, carried>>

\* Mutant: the ring of entries has no end.
NextSlotRunsOn(n) == n + 1

NextSlot(n) == (n + 1) % Depth

\* hist_push_locked
PushHist(c) ==
  /\ Runs(c) /\ pc[c] = "push" /\ Goto(c, "release")
  /\ hist' = [hist EXCEPT ![w] = rs[c]]
  /\ w' = NextSlot(w)
  /\ count' = IF count < Depth THEN count + 1 ELSE count
  /\ log' = SubSeq(<<rs[c]>> \o log, 1, IF Len(log) < Depth THEN Len(log) + 1 ELSE Depth)
  /\ UNCHANGED <<owner, rq, rs, att, wire, ring, last, late, carried>>

\* Mutant: the slot the next entry goes to.
HistGetNext(n) == hist[(w + Depth - n) % Depth]

\* ModbusMaster_HistGet, for n < HistCount
HistGet(n) == hist[(w + Depth - 1 - n) % Depth]

HistCount == count

-----------------------------------------------------------------------------
TxnExec(c) ==
  Take(c) \/ Send(c) \/ Receive(c) \/ SaveLast(c) \/ PushHist(c) \/ Release(c)

Next ==
  \/ \E c \in Contexts : TxnExec(c) \/ \E r \in Requests : Begin(c, r)
  \/ \E i \in DOMAIN wire : Arrive(i)

Spec == Init /\ [][Next]_vars

\* A caller runs on, main() also if it is preempted again and again; every wait has
\* a timeout.  The slaves need not answer.
FairSpec == Spec /\ \A c \in Contexts : SF_vars(TxnExec(c))

-----------------------------------------------------------------------------
(***************************************************************************)
(* Properties.                                                             *)
(***************************************************************************)
InTransaction(c) == pc[c] \in {"send", "recv", "save", "push", "release"}

\* Two frames never interleave: one transaction at a time, whoever preempts whom, and
\* the owner flag says whether there is one.
OneTransaction ==
  /\ owner <=> \E c \in Contexts : InTransaction(c)
  /\ \A c, d \in Contexts : InTransaction(c) /\ InTransaction(d) => c = d

\* With the ring flushed before each request, and no answer later than that, a caller
\* is told OK only if the slave carried its request out, and never gets an answer of
\* another slave or to another function.
OnlyOwnAnswers ==
  \A c \in Contexts :
    ~late /\ pc[c] \in {"save", "push", "release"} =>
      /\ rs[c] = "OK" /\ rq[c].waits => carried[c] > 0
      /\ rs[c] \notin {"SLAVE", "FC"}

\* Between transactions the last result and the history show the most recent ones,
\* newest first; a call that found the bus busy leaves no trace there.
HistoryIsRecent ==
  ~owner =>
    /\ HistCount = Len(log)
    /\ \A n \in 1..HistCount : HistGet(n - 1) = log[n]
    /\ last = IF log = <<>> THEN "none" ELSE log[1]

\* A request is sent at most as often as its flags allow, so a slave carries it out
\* at most twice, and once if no answer is waited for.
CarriedWithinTries ==
  \A c \in Contexts : pc[c] # "idle" => carried[c] <= MaxTry(rq[c])

\* Every call comes back, whatever the slaves and the other caller do.
CallsEnd == \A c \in Contexts : pc[c] # "idle" ~> pc[c] = "idle"
=============================================================================
