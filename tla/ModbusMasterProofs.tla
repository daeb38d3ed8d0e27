------------------------- MODULE ModbusMasterProofs -------------------------
(***************************************************************************)
(* Theorems about ModbusMaster for every set of requests, every depth of   *)
(* the history and every bound of the bus.                                 *)
(***************************************************************************)
EXTENDS ModbusMaster, SequenceTheorems, TLAPS

-----------------------------------------------------------------------------
(***************************************************************************)
(* Sequences of frames.                                                    *)
(***************************************************************************)

\* Taking one frame out of a sequence leaves frames of the same kind.
LEMMA RemoveAtSeq ==
  ASSUME NEW S, NEW s \in Seq(S), NEW i \in DOMAIN s
  PROVE  RemoveAt(s, i) \in Seq(S)
<1>0. i \in 1..Len(s) /\ Len(s) \in Nat BY LenProperties
<1>1. SubSeq(s, 1, i - 1) \in Seq(S)
  BY <1>0, SubSeqProperties, ElementOfSeq
<1>2. SubSeq(s, i + 1, Len(s)) \in Seq(S)
  BY <1>0, SubSeqProperties, ElementOfSeq
<1>3. QED BY <1>1, <1>2, ConcatProperties DEF RemoveAt

\* What is left of a sequence behind its first frames.
LEMMA RestSeq ==
  ASSUME NEW S, NEW s \in Seq(S), NEW n \in 1..Len(s)
  PROVE  SubSeq(s, n + 1, Len(s)) \in Seq(S)
<1>0. Len(s) \in Nat BY LenProperties
<1>1. \A i \in n + 1..Len(s) : s[i] \in S BY <1>0, ElementOfSeq
<1>2. QED BY <1>0, <1>1, SubSeqProperties

-----------------------------------------------------------------------------
(***************************************************************************)
(* Types.                                                                  *)
(***************************************************************************)
Labels == {"idle", "take", "send", "recv", "save", "push", "release"}

\* A caller in TxnExec has a request.
HasRequest == \A c \in Contexts : pc[c] # "idle" => rq[c] \in Requests

Typed == TypeOK /\ HasRequest

LEMMA TypedRequests ==
  ASSUME Typed, NEW c \in Contexts, pc[c] # "idle"
  PROVE  /\ rq[c] \in Requests /\ rq[c].slave \in Slaves /\ rq[c].fc \in Codes
         /\ rq[c].waits \in BOOLEAN /\ rq[c].wellFormed \in BOOLEAN
         /\ MaxTry(rq[c]) \in 1..2
         /\ \A reply \in Replies : Answer(rq[c], reply) \in Answers
BY RequestsAssumption DEF Typed, HasRequest, Slaves, Codes, MaxTry, Answer, Answers

\* What an attempt leaves behind is typed.
LEMMA EndsTyped ==
  ASSUME Typed, NEW c \in Contexts, NEW e \in Errors, Ends(c, e),
         pc[c] \in {"send", "recv"}, rq' = rq
  PROVE  /\ pc' \in [Contexts -> Labels] /\ rs' \in [Contexts -> Results]
         /\ att' \in [Contexts -> 0..2] /\ HasRequest'
<1>1. rq[c] \in Requests /\ MaxTry(rq[c]) \in 1..2 BY TypedRequests
<1>2. /\ pc \in [Contexts -> Labels] /\ rs \in [Contexts -> Results]
      /\ att \in [Contexts -> 0..2]
  BY DEF Typed, TypeOK, Labels
<1>3. rs' \in [Contexts -> Results] BY <1>2 DEF Ends, Results
<1>4. CASE Retries(rq[c], e, att[c])
  <2>1. att[c] < MaxTry(rq[c]) /\ att[c] + 1 \in 0..2
    BY <1>1, <1>2, <1>4 DEF Retries
  <2>2. pc' \in [Contexts -> Labels] /\ att' \in [Contexts -> 0..2]
    BY <1>2, <1>4, <2>1 DEF Ends, Goto, Labels, NextAttempt
  <2>3. QED BY <1>1, <1>2, <1>3, <2>2, <1>4 DEF Typed, HasRequest, Ends, Goto
<1>5. CASE ~Retries(rq[c], e, att[c])
  BY <1>1, <1>2, <1>3, <1>5 DEF Typed, HasRequest, Ends, Goto, Labels
<1>6. QED BY <1>4, <1>5

LEMMA TransmitTyped ==
  ASSUME Typed, NEW c \in Contexts, Transmit(c), pc[c] = "send"
  PROVE  /\ wire' \in Seq(Answers) /\ ring' \in Seq(Answers \cup {Garbled})
         /\ carried' \in [Contexts -> 0..3]
<1>1. ring' = <<>> BY DEF Transmit, RxFlush
<1>2. wire \in Seq(Answers) /\ carried \in [Contexts -> 0..3] /\ late \in BOOLEAN
  BY DEF Typed, TypeOK
<1>3. PICK before \in Seq(Answers) :
        \/ wire' = before /\ UNCHANGED carried
        \/ \E reply \in Replies :
             /\ wire' = Append(before, Answer(rq[c], reply))
             /\ carried' = [carried EXCEPT ![c] = IF reply = "exception" THEN @ ELSE Counted(@)]
  <2>1. (IF late THEN wire ELSE <<>>) \in Seq(Answers) BY <1>2
  <2>2. QED BY <2>1 DEF Transmit
<1>4. \A reply \in Replies : Answer(rq[c], reply) \in Answers BY TypedRequests
<1>5. wire' \in Seq(Answers) BY <1>3, <1>4
<1>6. carried' \in [Contexts -> 0..3] BY <1>2, <1>3 DEF Counted
<1>7. QED BY <1>1, <1>5, <1>6

LEMMA CheckedIsError == \A r, f : Checked(r, f) \in Errors
BY DEF Checked, Errors

LEMMA ReceiveTyped ==
  ASSUME Typed, NEW c \in Contexts, Receive(c)
  PROVE  Typed'
<1>0. pc[c] = "recv" /\ UNCHANGED <<owner, rq, wire, diag, late, carried>> BY DEF Receive
<1>1. ring \in Seq(Answers \cup {Garbled}) BY DEF Typed, TypeOK
<1>2. PICK e \in Errors : Ends(c, e)
  <2>1. \/ Ends(c, "TIMEOUT") \/ Ends(c, Checked(rq[c], ring[1]))
        \/ \E e \in {"CRC", "BUF"} : Ends(c, e)
    BY DEF Receive
  <2>2. QED BY <2>1, CheckedIsError DEF Errors
<1>3. ring' \in Seq(Answers \cup {Garbled})
  <2>1. CASE UNCHANGED ring BY <1>1, <2>1
  <2>2. CASE \E n \in 1..Len(ring) : ring' = SubSeq(ring, n + 1, Len(ring))
    BY <1>1, <2>2, RestSeq
  <2>3. QED BY <2>1, <2>2 DEF Receive
<1>4. /\ pc' \in [Contexts -> Labels] /\ rs' \in [Contexts -> Results]
      /\ att' \in [Contexts -> 0..2] /\ HasRequest'
  BY <1>0, <1>2, EndsTyped
<1>5. QED BY <1>0, <1>3, <1>4 DEF Typed, TypeOK, diag, Labels

LEMMA SendTyped ==
  ASSUME Typed, NEW c \in Contexts, Send(c)
  PROVE  Typed'
<1>0. pc[c] = "send" /\ UNCHANGED <<owner, rq, diag, late>> BY DEF Send
<1>1. CASE rq[c].wellFormed /\ rq[c].waits
  <2>1. Transmit(c) /\ Goto(c, "recv") /\ UNCHANGED <<rs, att>> BY <1>1 DEF Send
  <2>2. rq[c] \in Requests BY <1>0, TypedRequests
  <2>3. QED BY <1>0, <2>1, <2>2, TransmitTyped DEF Typed, TypeOK, HasRequest, diag, Goto
<1>2. CASE rq[c].wellFormed /\ ~rq[c].waits
  <2>1. Transmit(c) /\ Ends(c, "OK") BY <1>2 DEF Send
  <2>2. "OK" \in Errors BY DEF Errors
  <2>3. QED BY <1>0, <2>1, <2>2, TransmitTyped, EndsTyped DEF Typed, TypeOK, diag, Labels
<1>3. CASE ~rq[c].wellFormed
  <2>1. Ends(c, "ARG") /\ UNCHANGED <<wire, ring, carried>> BY <1>3 DEF Send
  <2>2. "ARG" \in Errors BY DEF Errors
  <2>3. QED BY <1>0, <2>1, <2>2, EndsTyped DEF Typed, TypeOK, diag, Labels
<1>4. QED BY <1>1, <1>2, <1>3

LEMMA ArriveTyped ==
  ASSUME Typed, NEW i \in DOMAIN wire, Arrive(i)
  PROVE  Typed'
<1>1. /\ wire \in Seq(Answers) /\ ring \in Seq(Answers \cup {Garbled})
  BY DEF Typed, TypeOK
<1>2. wire' \in Seq(Answers) BY <1>1, RemoveAtSeq DEF Arrive
<1>3. wire[i] \in Answers BY <1>1, ElementOfSeq, LenProperties
<1>4. ring' \in Seq(Answers \cup {Garbled})
  <2>1. CASE UNCHANGED ring BY <1>1, <2>1
  <2>2. CASE \E f \in {wire[i], Garbled} : ring' = Append(ring, f)
    BY <1>1, <1>3, <2>2, AppendProperties
  <2>3. QED BY <2>1, <2>2 DEF Arrive
<1>5. QED BY <1>2, <1>4 DEF Arrive, Typed, TypeOK, HasRequest, diag

LEMMA NextSlotRange ==
  ASSUME NEW n \in 0..Depth - 1
  PROVE  /\ NextSlot(n) \in 0..Depth - 1
         /\ NextSlot(n) = IF n = Depth - 1 THEN 0 ELSE n + 1
BY BoundsAssumption DEF NextSlot

\* The newest entry goes to the front of the log, the oldest beyond its depth is dropped.
LEMMA LogPush ==
  ASSUME NEW S, NEW s \in Seq(S), NEW x \in S,
         NEW t, t = SubSeq(<<x>> \o s, 1, IF Len(s) < Depth THEN Len(s) + 1 ELSE Depth)
  PROVE  /\ t \in Seq(S)
         /\ Len(t) = IF Len(s) < Depth THEN Len(s) + 1 ELSE Depth
         /\ t[1] = x
         /\ \A n \in 2..Len(t) : t[n] = s[n - 1]
<1> DEFINE u == <<x>> \o s
           m == IF Len(s) < Depth THEN Len(s) + 1 ELSE Depth
<1>1. /\ u \in Seq(S) /\ Len(u) = Len(s) + 1 /\ u[1] = x
      /\ \A n \in 2..Len(u) : u[n] = s[n - 1]
  <2>1. <<x>> \in Seq(S) /\ Len(<<x>>) = 1 /\ <<x>>[1] = x OBVIOUS
  <2>2. Len(s) \in Nat BY LenProperties
  <2>3. QED BY <2>1, <2>2, ConcatProperties
<1>2. Len(s) \in Nat /\ m \in 1..Len(u) BY <1>1, BoundsAssumption, LenProperties
<1>3. \A n \in 1..m : u[n] \in S BY <1>1, <1>2, ElementOfSeq
<1> HIDE DEF u, m
<1>4. /\ SubSeq(u, 1, m) \in Seq(S) /\ Len(SubSeq(u, 1, m)) = m
      /\ \A n \in 1..m : SubSeq(u, 1, m)[n] = u[n]
  BY <1>1, <1>2, <1>3, SubSeqProperties
<1>5. t = SubSeq(u, 1, m) BY DEF u, m
<1>6. QED BY <1>1, <1>2, <1>4, <1>5 DEF m

LEMMA PushTyped ==
  ASSUME Typed, NEW c \in Contexts, PushHist(c)
  PROVE  Typed'
<1>1. /\ rs[c] \in Results /\ log \in Seq(Results) /\ w \in 0..Depth - 1
      /\ count \in 0..Depth /\ hist \in [0..Depth - 1 -> Results]
  BY DEF Typed, TypeOK
<1>2. log' \in Seq(Results) BY <1>1, LogPush DEF PushHist
<1>3. w' \in 0..Depth - 1 BY <1>1, NextSlotRange DEF PushHist
<1>4. count' \in 0..Depth BY <1>1, BoundsAssumption DEF PushHist
<1>5. hist' \in [0..Depth - 1 -> Results] BY <1>1 DEF PushHist
<1>6. QED BY <1>2, <1>3, <1>4, <1>5 DEF PushHist, Typed, TypeOK, HasRequest, Goto

\* A call that returns leaves no request.
LEMMA ReturnTyped ==
  ASSUME Typed, NEW c \in Contexts, Return(c)
  PROVE  /\ pc' \in [Contexts -> Labels] /\ rq' \in [Contexts -> Requests \cup {None}]
         /\ rs' \in [Contexts -> Results] /\ att' \in [Contexts -> 0..2]
         /\ carried' \in [Contexts -> 0..3] /\ HasRequest'
<1>1. /\ pc \in [Contexts -> Labels] /\ rq \in [Contexts -> Requests \cup {None}]
      /\ rs \in [Contexts -> Results] /\ att \in [Contexts -> 0..2]
      /\ carried \in [Contexts -> 0..3]
  BY DEF Typed, TypeOK, Labels
<1>2. pc' \in [Contexts -> Labels] BY <1>1 DEF Return, Goto, Labels
<1>3. rs' \in [Contexts -> Results] BY <1>1 DEF Return, Results
<1>4. HasRequest' BY <1>1 DEF Return, Goto, Typed, HasRequest
<1>5. QED BY <1>1, <1>2, <1>3, <1>4 DEF Return

LEMMA TypedNext == Typed /\ [Next]_vars => Typed'
<1> SUFFICES ASSUME Typed, [Next]_vars PROVE Typed' OBVIOUS
<1>1. ASSUME NEW c \in Contexts, NEW r \in Requests, Begin(c, r) PROVE Typed'
  BY <1>1 DEF Begin, Goto, Typed, TypeOK, HasRequest, diag
<1>2. ASSUME NEW c \in Contexts, Take(c) PROVE Typed'
  <2>1. CASE owner
    <3>1. Return(c) /\ UNCHANGED <<owner, wire, ring, diag, late>>
      BY <1>2, <2>1 DEF Take, Busy
    <3>2. QED BY <3>1, ReturnTyped DEF Typed, TypeOK, Labels, diag
  <2>2. CASE ~owner
    <3>1. /\ Goto(c, "send") /\ owner' = TRUE /\ att' = [att EXCEPT ![c] = 1]
          /\ UNCHANGED <<rq, rs, carried, wire, ring, diag, late>> /\ pc[c] = "take"
      BY <1>2, <2>2 DEF Take
    <3>2. pc' \in [Contexts -> Labels] /\ att' \in [Contexts -> 0..2] /\ HasRequest'
      BY <3>1 DEF Goto, Typed, TypeOK, HasRequest, Labels
    <3>3. QED BY <3>1, <3>2 DEF Typed, TypeOK, Labels, diag
  <2>3. QED BY <2>1, <2>2
<1>3. ASSUME NEW c \in Contexts, Release(c) PROVE Typed'
  BY <1>3, ReturnTyped DEF Release, Typed, TypeOK, Labels, diag
<1>4. ASSUME NEW c \in Contexts, SaveLast(c) PROVE Typed'
  BY <1>4 DEF SaveLast, Goto, Typed, TypeOK, HasRequest
<1>5. CASE UNCHANGED vars
  BY <1>5 DEF vars, diag, Typed, TypeOK, HasRequest
<1>6. QED
  BY <1>1, <1>2, <1>3, <1>4, <1>5, SendTyped, ReceiveTyped, PushTyped, ArriveTyped
     DEF Next, TxnExec

LEMMA TypedInit == Init => Typed
<1> SUFFICES ASSUME Init PROVE Typed OBVIOUS
<1>1. 0 \in 0..Depth - 1 /\ 0 \in 0..Depth BY BoundsAssumption
<1>2. wire \in Seq(Answers) /\ ring \in Seq(Answers \cup {Garbled}) /\ log \in Seq(Results)
  BY DEF Init
<1>3. /\ owner \in BOOLEAN /\ late \in BOOLEAN
  BY BoundsAssumption DEF Init
<1>4. /\ rs \in [Contexts -> Results] /\ last \in Results
      /\ hist \in [0..Depth - 1 -> Results]
  BY DEF Init, Results
<1>5. /\ pc \in [Contexts -> {"idle", "take", "send", "recv", "save", "push", "release"}]
      /\ rq \in [Contexts -> Requests \cup {None}]
      /\ att \in [Contexts -> 0..2] /\ carried \in [Contexts -> 0..3]
  BY DEF Init
<1>6. w \in 0..Depth - 1 /\ count \in 0..Depth BY <1>1 DEF Init
<1>7. HasRequest BY DEF Init, HasRequest
<1>8. QED BY <1>2, <1>3, <1>4, <1>5, <1>6, <1>7 DEF Typed, TypeOK

\* Every variable of the master keeps its type; a caller in TxnExec has a request.
THEOREM TypeCorrect == Spec => []TypeOK
<1>1. Typed => TypeOK BY DEF Typed
<1>2. QED BY <1>1, TypedInit, TypedNext, PTL DEF Spec

-----------------------------------------------------------------------------
(***************************************************************************)
(* The mutex: only the step that finds the owner flag clear enters, and    *)
(* only the caller that entered clears it.                                 *)
(***************************************************************************)
LEMMA OneTransactionNext == Typed /\ OneTransaction /\ [Next]_vars => OneTransaction'
<1> SUFFICES ASSUME Typed, OneTransaction, [Next]_vars PROVE OneTransaction' OBVIOUS
<1>0. /\ pc \in [Contexts -> Labels] /\ owner \in BOOLEAN
  BY DEF Typed, TypeOK, Labels
<1>1. ASSUME NEW c \in Contexts, NEW r \in Requests, Begin(c, r) PROVE OneTransaction'
  BY <1>0, <1>1 DEF Begin, Goto, OneTransaction, InTransaction
<1>2. ASSUME NEW c \in Contexts, Take(c) PROVE OneTransaction'
  BY <1>0, <1>2 DEF Take, Busy, Return, Goto, OneTransaction, InTransaction
<1>3. ASSUME NEW c \in Contexts, Release(c) PROVE OneTransaction'
  BY <1>0, <1>3 DEF Release, Return, Goto, OneTransaction, InTransaction
<1>4. ASSUME NEW c \in Contexts, NEW l \in {"send", "recv", "save", "push", "release"},
             InTransaction(c), Goto(c, l), UNCHANGED owner
      PROVE  OneTransaction'
  BY <1>0, <1>4 DEF Goto, OneTransaction, InTransaction
<1>5. ASSUME NEW c \in Contexts, Send(c) \/ Receive(c) \/ SaveLast(c) \/ PushHist(c)
      PROVE  OneTransaction'
  <2>1. InTransaction(c) /\ UNCHANGED owner
    BY <1>5 DEF Send, Receive, SaveLast, PushHist, InTransaction
  <2>2. \E l \in {"send", "recv", "save", "push", "release"} : Goto(c, l)
    BY <1>5 DEF Send, Receive, SaveLast, PushHist, Ends
  <2>3. QED BY <1>4, <2>1, <2>2
<1>6. ASSUME NEW i \in DOMAIN wire, Arrive(i) PROVE OneTransaction'
  BY <1>6 DEF Arrive, OneTransaction, InTransaction
<1>7. CASE UNCHANGED vars
  BY <1>7 DEF vars, OneTransaction, InTransaction
<1>8. QED BY <1>1, <1>2, <1>3, <1>5, <1>6, <1>7 DEF Next, TxnExec

\* Two frames never interleave on the bus, whoever preempts whom and where.
THEOREM MutualExclusion == Spec => []OneTransaction
<1>1. Init => OneTransaction BY DEF Init, OneTransaction, InTransaction
<1>2. QED BY <1>1, TypedInit, TypedNext, OneTransactionNext, PTL DEF Spec

-----------------------------------------------------------------------------
(***************************************************************************)
(* Answers.  While a caller waits, and no answer is later than the flush   *)
(* before its request, every answer on the wire or in the ring is one to   *)
(* this request, and a good one says that it was carried out.              *)
(***************************************************************************)
Own(c) == {a \in Answers : /\ a.slave = rq[c].slave /\ a.fc = rq[c].fc
                           /\ a.reply = "exception" \/ carried[c] > 0}

Waiting(c) ==
  pc[c] = "recv" => wire \in Seq(Own(c)) /\ ring \in Seq(Own(c) \cup {Garbled})

Told(c) ==
  pc[c] \in {"save", "push", "release"} =>
    /\ rs[c] = "OK" /\ rq[c].waits => carried[c] > 0
    /\ rs[c] \notin {"SLAVE", "FC"}

OwnInv == ~late => \A c \in Contexts : Waiting(c) /\ Told(c)

\* While one caller is in its transaction, a step of it says nothing of the other.
LEMMA OthersOut ==
  ASSUME Typed, OneTransaction, NEW c \in Contexts, InTransaction(c),
         NEW l, Goto(c, l), NEW d \in Contexts, d # c
  PROVE  (Waiting(d) /\ Told(d))'
BY DEF Typed, TypeOK, OneTransaction, InTransaction, Goto, Waiting, Told

LEMMA SendOwn ==
  ASSUME Typed, OneTransaction, ~late, NEW c \in Contexts, Send(c)
  PROVE  (Waiting(c) /\ Told(c))'
<1>0. /\ pc[c] = "send" /\ rq' = rq /\ pc \in [Contexts -> Labels]
      /\ rs \in [Contexts -> Results] /\ carried \in [Contexts -> 0..3]
  BY DEF Send, Typed, TypeOK, Labels
<1>1. CASE rq[c].wellFormed /\ rq[c].waits
  <2>1. Transmit(c) /\ pc'[c] = "recv" BY <1>0, <1>1 DEF Send, Goto
  <2>2. ring' = <<>> BY <2>1 DEF Transmit, RxFlush
  <2>3. CASE wire' = <<>>
    BY <2>1, <2>2, <2>3 DEF Waiting, Told
  <2>4. CASE \E reply \in Replies :
               /\ wire' = Append(<<>>, Answer(rq[c], reply))
               /\ carried' = [carried EXCEPT ![c] = IF reply = "exception" THEN @ ELSE Counted(@)]
    <3>1. PICK reply \in Replies :
               /\ wire' = Append(<<>>, Answer(rq[c], reply))
               /\ carried' = [carried EXCEPT ![c] = IF reply = "exception" THEN @ ELSE Counted(@)]
      BY <2>4
    <3>2. Answer(rq[c], reply) \in Answers BY <1>0, TypedRequests
    <3>3. reply = "exception" \/ carried'[c] > 0 BY <1>0, <3>1 DEF Counted
    <3>4. Answer(rq[c], reply) \in Own(c)' BY <1>0, <3>2, <3>3 DEF Own, Answer
    <3>5. wire' \in Seq(Own(c)') BY <3>1, <3>4
    <3>6. QED BY <2>1, <2>2, <3>5 DEF Waiting, Told
  <2>5. QED BY <2>1, <2>3, <2>4 DEF Transmit
<1>2. CASE rq[c].wellFormed /\ ~rq[c].waits
  <2>1. Ends(c, "OK") BY <1>2 DEF Send
  <2>2. pc'[c] \in {"send", "save"} /\ rs'[c] = "OK"
    BY <1>0, <2>1 DEF Ends, Goto
  <2>3. QED BY <1>0, <1>2, <2>2 DEF Waiting, Told
<1>3. CASE ~rq[c].wellFormed
  <2>1. Ends(c, "ARG") BY <1>3 DEF Send
  <2>2. pc'[c] \in {"send", "save"} /\ rs'[c] = "ARG"
    BY <1>0, <2>1 DEF Ends, Goto
  <2>3. QED BY <1>0, <2>2 DEF Waiting, Told
<1>4. QED BY <1>1, <1>2, <1>3

LEMMA ReceiveOwn ==
  ASSUME Typed, ~late, NEW c \in Contexts, Waiting(c), Receive(c)
  PROVE  (Waiting(c) /\ Told(c))'
<1>0. /\ pc[c] = "recv" /\ rq' = rq /\ carried' = carried
      /\ pc \in [Contexts -> Labels] /\ rs \in [Contexts -> Results]
  BY DEF Receive, Typed, TypeOK, Labels
<1>1. ASSUME NEW e \in Errors, Ends(c, e), e \notin {"SLAVE", "FC"},
             e = "OK" => carried[c] > 0
      PROVE  (Waiting(c) /\ Told(c))'
  <2>1. pc'[c] \in {"send", "save"} /\ rs'[c] = e BY <1>0, <1>1 DEF Ends, Goto
  <2>2. QED BY <1>0, <1>1, <2>1 DEF Waiting, Told
<1>2. CASE Ends(c, "TIMEOUT") BY <1>1, <1>2 DEF Errors
<1>3. CASE \E e \in {"CRC", "BUF"} : Ends(c, e) BY <1>1, <1>3 DEF Errors
<1>4. CASE 1 \in 1..Len(ring) /\ Ends(c, Checked(rq[c], ring[1]))
  <2>1. ring \in Seq(Own(c) \cup {Garbled}) BY <1>0 DEF Waiting
  <2>2. ring[1] \in Own(c) \cup {Garbled} BY <1>4, <2>1, ElementOfSeq
  <2>3. /\ Checked(rq[c], ring[1]) \in {"CRC", "EXCEPTION", "LEN", "OK"}
        /\ Checked(rq[c], ring[1]) = "OK" => carried[c] > 0
    BY <2>2 DEF Checked, Own
  <2>4. QED BY <1>1, <1>4, <2>3 DEF Errors
<1>5. QED BY <1>2, <1>3, <1>4 DEF Receive

LEMMA ArriveOwn ==
  ASSUME Typed, NEW i \in DOMAIN wire, Arrive(i), NEW c \in Contexts, Waiting(c)
  PROVE  Waiting(c)'
<1>1. SUFFICES ASSUME pc[c] = "recv"
      PROVE  wire' \in Seq(Own(c)) /\ ring' \in Seq(Own(c) \cup {Garbled})
  BY DEF Arrive, Waiting, Own
<1>2. wire \in Seq(Own(c)) /\ ring \in Seq(Own(c) \cup {Garbled})
  BY <1>1 DEF Waiting
<1>3. wire' \in Seq(Own(c)) BY <1>2, RemoveAtSeq DEF Arrive
<1>4. wire[i] \in Own(c) BY <1>2, ElementOfSeq, LenProperties
<1>5. CASE UNCHANGED ring BY <1>2, <1>3, <1>5
<1>6. CASE \E f \in {wire[i], Garbled} : ring' = Append(ring, f)
  BY <1>2, <1>3, <1>4, <1>6, AppendProperties
<1>7. QED BY <1>5, <1>6 DEF Arrive

LEMMA LateKept == [Next]_vars => late' = late
BY DEF Next, vars, TxnExec, Begin, Take, Release, Send, Receive, SaveLast, PushHist, Arrive

LEMMA OwnNext == Typed /\ OneTransaction /\ OwnInv /\ [Next]_vars => OwnInv'
<1> SUFFICES ASSUME Typed, OneTransaction, OwnInv, [Next]_vars, ~late,
                    NEW d \in Contexts
             PROVE  (Waiting(d) /\ Told(d))'
  BY LateKept DEF OwnInv
<1>0. Waiting(d) /\ Told(d) /\ pc \in [Contexts -> Labels]
  BY DEF OwnInv, Typed, TypeOK, Labels
<1>1. ASSUME NEW c \in Contexts, NEW r \in Requests, Begin(c, r)
      PROVE  (Waiting(d) /\ Told(d))'
  BY <1>0, <1>1 DEF Begin, Goto, Waiting, Told, Own, Typed, TypeOK
<1>2. ASSUME NEW c \in Contexts, Take(c) \/ Release(c)
      PROVE  (Waiting(d) /\ Told(d))'
  <2>1. CASE d = c
    <3>1. pc'[d] \in {"idle", "send"}
      BY <1>0, <1>2, <2>1 DEF Take, Release, Busy, Return, Goto
    <3>2. QED BY <3>1 DEF Waiting, Told
  <2>2. CASE d # c
    <3>1. /\ pc'[d] = pc[d] /\ rq'[d] = rq[d] /\ rs'[d] = rs[d]
          /\ carried'[d] = carried[d] /\ wire' = wire /\ ring' = ring
      BY <1>0, <1>2, <2>2
         DEF Take, Release, Busy, Return, Goto, Typed, TypeOK
    <3>2. QED BY <1>0, <3>1 DEF Waiting, Told, Own
  <2>3. QED BY <2>1, <2>2
<1>3. ASSUME NEW c \in Contexts, Send(c) \/ Receive(c) \/ SaveLast(c) \/ PushHist(c)
      PROVE  (Waiting(d) /\ Told(d))'
  <2>1. InTransaction(c) BY <1>3 DEF Send, Receive, SaveLast, PushHist, InTransaction
  <2>2. PICK l \in Labels : Goto(c, l)
    BY <1>3 DEF Send, Receive, SaveLast, PushHist, Ends, Labels
  <2>3. CASE d # c BY <2>1, <2>2, <2>3, OthersOut
  <2>4. CASE d = c
    <3>1. CASE Send(c) BY <2>4, <3>1, SendOwn
    <3>2. CASE Receive(c) BY <1>0, <2>4, <3>2, ReceiveOwn
    <3>3. CASE SaveLast(c)
      BY <1>0, <2>4, <3>3 DEF SaveLast, Goto, Waiting, Told
    <3>4. CASE PushHist(c)
      BY <1>0, <2>4, <3>4 DEF PushHist, Goto, Waiting, Told
    <3>5. QED BY <1>3, <3>1, <3>2, <3>3, <3>4
  <2>5. QED BY <2>3, <2>4
<1>4. ASSUME NEW i \in DOMAIN wire, Arrive(i) PROVE (Waiting(d) /\ Told(d))'
  BY <1>0, <1>4, ArriveOwn DEF Arrive, Told
<1>5. CASE UNCHANGED vars BY <1>0, <1>5 DEF vars, Waiting, Told, Own
<1>6. QED BY <1>1, <1>2, <1>3, <1>4, <1>5 DEF Next, TxnExec

\* On a bus where no answer is later than the next flush, OK means that the slave
\* carried the request out, and nobody gets an answer to another request.
THEOREM AnswersBelong == Spec => []OnlyOwnAnswers
<1>1. Init => OneTransaction /\ OwnInv
  BY DEF Init, OneTransaction, InTransaction, OwnInv, Waiting, Told
<1>2. OwnInv => OnlyOwnAnswers BY DEF OwnInv, OnlyOwnAnswers, Told
<1>3. QED
  BY <1>1, <1>2, TypedInit, TypedNext, OneTransactionNext, OwnNext, PTL DEF Spec

-----------------------------------------------------------------------------
(***************************************************************************)
(* Attempts.  The bound on what a slave carries out follows the attempt:   *)
(* none before the first, one more at each.                                *)
(***************************************************************************)
Tries(c) ==
  /\ pc[c] \in {"idle", "take"} => carried[c] = 0
  /\ pc[c] = "send" => carried[c] < att[c] /\ att[c] <= MaxTry(rq[c])
  /\ pc[c] \in {"recv", "save", "push", "release"} =>
       carried[c] <= att[c] /\ att[c] <= MaxTry(rq[c])

TriesInv == \A c \in Contexts : Tries(c)

LEMMA EndsTries ==
  ASSUME Typed, NEW c \in Contexts, NEW e, Ends(c, e), pc[c] \in {"send", "recv"},
         rq' = rq, carried'[c] \in 0..3, carried'[c] <= att[c],
         att[c] <= MaxTry(rq[c])
  PROVE  Tries(c)'
<1>1. /\ pc \in [Contexts -> Labels] /\ att \in [Contexts -> 0..2]
      /\ MaxTry(rq[c]) \in 1..2
  BY TypedRequests DEF Typed, TypeOK, Labels
<1>3. CASE Retries(rq[c], e, att[c])
  BY <1>1, <1>3 DEF Ends, Goto, Retries, NextAttempt, Tries
<1>4. CASE ~Retries(rq[c], e, att[c])
  BY <1>1, <1>4 DEF Ends, Goto, Tries
<1>5. QED BY <1>3, <1>4

LEMMA SendTries ==
  ASSUME Typed, NEW c \in Contexts, Tries(c), Send(c)
  PROVE  Tries(c)'
<1>0. /\ pc[c] = "send" /\ rq' = rq /\ pc \in [Contexts -> Labels]
      /\ att \in [Contexts -> 0..2] /\ carried \in [Contexts -> 0..3]
  BY DEF Send, Typed, TypeOK, Labels
<1>1. carried[c] < att[c] /\ att[c] <= MaxTry(rq[c]) BY <1>0 DEF Tries
<1>2. carried'[c] \in 0..3 /\ carried'[c] <= att[c]
  <2>1. CASE carried' = carried BY <1>0, <1>1, <2>1
  <2>2. CASE \E reply \in Replies :
               carried' = [carried EXCEPT ![c] = IF reply = "exception" THEN @ ELSE Counted(@)]
    BY <1>0, <1>1, <2>2 DEF Counted
  <2>3. QED BY <2>1, <2>2 DEF Send, Transmit
<1>3. CASE \E e : Ends(c, e) BY <1>0, <1>1, <1>2, <1>3, EndsTries
<1>4. CASE Goto(c, "recv") /\ UNCHANGED att
  BY <1>0, <1>1, <1>2, <1>4 DEF Goto, Tries
<1>5. QED BY <1>3, <1>4 DEF Send

LEMMA TriesNext == Typed /\ TriesInv /\ [Next]_vars => TriesInv'
<1> SUFFICES ASSUME Typed, TriesInv, [Next]_vars, NEW d \in Contexts
             PROVE  Tries(d)'
  BY DEF TriesInv
<1>0. /\ Tries(d) /\ pc \in [Contexts -> Labels] /\ att \in [Contexts -> 0..2]
      /\ carried \in [Contexts -> 0..3] /\ rq \in [Contexts -> Requests \cup {None}]
  BY DEF TriesInv, Typed, TypeOK, Labels
<1>1. ASSUME NEW c \in Contexts, NEW r \in Requests, Begin(c, r) PROVE Tries(d)'
  BY <1>0, <1>1 DEF Begin, Goto, Tries
<1>2. ASSUME NEW c \in Contexts, TxnExec(c), c # d PROVE Tries(d)'
  <2>1. /\ pc'[d] = pc[d] /\ rq'[d] = rq[d] /\ att'[d] = att[d]
        /\ carried'[d] = carried[d]
    BY <1>0, <1>2 DEF TxnExec, Take, Busy, Return, Release, Send, Transmit, Receive,
                      SaveLast, PushHist, Ends, Goto
  <2>2. QED BY <1>0, <2>1 DEF Tries
<1>3. CASE Take(d)
  <2>1. CASE owner BY <1>0, <1>3, <2>1 DEF Take, Busy, Return, Goto, Tries
  <2>2. CASE ~owner
    <3>1. rq[d] \in Requests /\ MaxTry(rq[d]) \in 1..2 BY <1>3, TypedRequests DEF Take
    <3>2. QED BY <1>0, <1>3, <2>2, <3>1 DEF Take, Goto, Tries
  <2>3. QED BY <2>1, <2>2
<1>4. CASE Release(d) BY <1>0, <1>4 DEF Release, Return, Goto, Tries
<1>5. CASE Send(d) BY <1>0, <1>5, SendTries
<1>6. CASE Receive(d)
  <2>1. /\ pc[d] = "recv" /\ rq' = rq /\ carried'[d] = carried[d] /\ carried[d] \in 0..3
        /\ \E e : Ends(d, e)
    BY <1>0, <1>6 DEF Receive
  <2>2. QED BY <1>0, <2>1, EndsTries DEF Tries
<1>7. CASE SaveLast(d) \/ PushHist(d)
  BY <1>0, <1>7 DEF SaveLast, PushHist, Goto, Tries
<1>8. ASSUME NEW i \in DOMAIN wire, Arrive(i) PROVE Tries(d)'
  BY <1>0, <1>8 DEF Arrive, Tries
<1>9. CASE UNCHANGED vars BY <1>0, <1>9 DEF vars, Tries
<1>10. QED
  BY <1>1, <1>2, <1>3, <1>4, <1>5, <1>6, <1>7, <1>8, <1>9 DEF Next, TxnExec

\* A request is carried out at most twice, and at most once if nobody waits for it.
THEOREM TriesBounded == Spec => []CarriedWithinTries
<1>1. Init => TriesInv BY DEF Init, TriesInv, Tries
<1>2. Typed /\ TriesInv => CarriedWithinTries
  <2> SUFFICES ASSUME Typed, TriesInv, NEW c \in Contexts, pc[c] # "idle"
               PROVE  carried[c] <= MaxTry(rq[c])
    BY DEF CarriedWithinTries
  <2>1. /\ MaxTry(rq[c]) \in 1..2 /\ pc[c] \in Labels
        /\ att[c] \in 0..2 /\ carried[c] \in 0..3
    BY TypedRequests DEF Typed, TypeOK, Labels
  <2>2. QED BY <2>1 DEF TriesInv, Tries, Labels
<1>3. QED BY <1>1, <1>2, TypedInit, TypedNext, TriesNext, PTL DEF Spec

-----------------------------------------------------------------------------
(***************************************************************************)
(* The history.  Slot(x, n) is the slot of the n-th newest entry when the  *)
(* next one goes to x.                                                     *)
(***************************************************************************)
Slot(x, n) == IF n <= x THEN x - n ELSE x + Depth - n

LEMMA HistGetSlot ==
  ASSUME w \in 0..Depth - 1, NEW n \in 1..Depth
  PROVE  HistGet(n - 1) = hist[Slot(w, n)]
<1>1. Depth \in Nat \ {0} BY BoundsAssumption
<1>2. w + Depth - 1 - (n - 1) = w + Depth - n BY <1>1
<1>3. (w + Depth - n) % Depth = Slot(w, n)
  <2>1. CASE n <= w
    <3>1. w - n \in 0..Depth - 1 BY <1>1, <2>1
    <3>2. w + Depth - n = (w - n) + 1 * Depth BY <1>1
    <3>3. QED BY <1>1, <2>1, <3>1, <3>2 DEF Slot
  <2>2. CASE ~(n <= w)
    <3>1. w + Depth - n \in 0..Depth - 1 BY <1>1, <2>2
    <3>2. QED BY <1>1, <2>2, <3>1 DEF Slot
  <2>3. QED BY <2>1, <2>2
<1>4. QED BY <1>2, <1>3 DEF HistGet

Newest == IF log = <<>> THEN "none" ELSE log[1]

Recorded ==
  /\ Len(log) = count
  /\ \A n \in 1..count : hist[Slot(w, n)] = log[n]

Shown ==
  /\ \A c \in Contexts : pc[c] = "push" => last = rs[c]
  /\ (\A c \in Contexts : pc[c] # "push") => last = Newest

HistInv == Recorded /\ Shown

LEMMA PushRecorded ==
  ASSUME Typed, Recorded, NEW c \in Contexts, PushHist(c)
  PROVE  Recorded' /\ log' # <<>> /\ log'[1] = rs[c]
<1>0. /\ w \in 0..Depth - 1 /\ count \in 0..Depth /\ Depth \in Nat \ {0}
      /\ hist \in [0..Depth - 1 -> Results] /\ log \in Seq(Results) /\ rs[c] \in Results
  BY BoundsAssumption DEF Typed, TypeOK
<1>1. /\ log' \in Seq(Results) /\ log'[1] = rs[c]
      /\ Len(log') = IF Len(log) < Depth THEN Len(log) + 1 ELSE Depth
      /\ \A n \in 2..Len(log') : log'[n] = log[n - 1]
  BY <1>0, LogPush DEF PushHist
<1>2. Len(log') = count' BY <1>0, <1>1 DEF PushHist, Recorded
<1>3. w' = IF w = Depth - 1 THEN 0 ELSE w + 1 BY <1>0, NextSlotRange DEF PushHist
<1>4. hist' = [hist EXCEPT ![w] = rs[c]] /\ count' \in 1..Depth
  BY <1>0 DEF PushHist
<1>5. ASSUME NEW n \in 1..count' PROVE hist'[Slot(w', n)] = log'[n]
  <2>1. CASE n = 1
    <3>1. Slot(w', n) = w BY <1>0, <1>3, <2>1 DEF Slot
    <3>2. QED BY <1>0, <1>1, <1>4, <2>1, <3>1
  <2>2. CASE n # 1
    <3>1. n \in 2..count' /\ n - 1 \in 1..count /\ n <= Depth
      BY <1>0, <1>4, <2>2 DEF PushHist
    <3>2. Slot(w', n) = Slot(w, n - 1) /\ Slot(w, n - 1) # w
          /\ Slot(w, n - 1) \in 0..Depth - 1
      BY <1>0, <1>3, <3>1 DEF Slot
    <3>3. hist'[Slot(w', n)] = hist[Slot(w, n - 1)] BY <1>0, <1>4, <3>2
    <3>4. QED BY <1>1, <1>2, <3>1, <3>3 DEF Recorded
  <2>3. QED BY <2>1, <2>2
<1>6. log' # <<>> BY <1>1, <1>2, <1>4
<1>7. QED BY <1>1, <1>2, <1>5, <1>6 DEF Recorded

LEMMA HistNext == Typed /\ OneTransaction /\ HistInv /\ [Next]_vars => HistInv'
<1> SUFFICES ASSUME Typed, OneTransaction, HistInv, [Next]_vars PROVE HistInv' OBVIOUS
<1>0. /\ pc \in [Contexts -> Labels] /\ rs \in [Contexts -> Results]
  BY DEF Typed, TypeOK, Labels
<1>1. ASSUME UNCHANGED diag, NEW c \in Contexts, NEW l \in Labels \ {"push"}, Goto(c, l),
             pc[c] # "push", \A d \in Contexts \ {c} : rs'[d] = rs[d]
      PROVE  HistInv'
  BY <1>0, <1>1 DEF diag, HistInv, Recorded, Shown, Newest, Goto
<1>2. ASSUME NEW c \in Contexts, NEW r \in Requests, Begin(c, r) PROVE HistInv'
  BY <1>1, <1>2 DEF Begin, Goto, Labels
<1>3. ASSUME NEW c \in Contexts, Take(c) \/ Release(c) PROVE HistInv'
  <2>1. PICK l \in Labels \ {"push"} : Goto(c, l)
    BY <1>3 DEF Take, Release, Busy, Return, Labels
  <2>2. /\ UNCHANGED diag /\ pc[c] # "push"
        /\ \A d \in Contexts \ {c} : rs'[d] = rs[d]
    BY <1>0, <1>3 DEF Take, Release, Busy, Return
  <2>3. QED BY <1>1, <2>1, <2>2
<1>4. ASSUME NEW c \in Contexts, Send(c) \/ Receive(c) PROVE HistInv'
  <2>1. PICK l \in Labels \ {"push"} : Goto(c, l)
    BY <1>4 DEF Send, Receive, Ends, Labels
  <2>2. /\ UNCHANGED diag /\ pc[c] # "push"
        /\ \A d \in Contexts \ {c} : rs'[d] = rs[d]
    BY <1>0, <1>4 DEF Send, Receive, Ends
  <2>3. QED BY <1>1, <2>1, <2>2
<1>5. ASSUME NEW c \in Contexts, SaveLast(c) PROVE HistInv'
  <2>1. \A d \in Contexts : pc'[d] = "push" => d = c
    BY <1>0, <1>5 DEF SaveLast, Goto, OneTransaction, InTransaction
  <2>2. pc'[c] = "push" /\ last' = rs'[c] /\ UNCHANGED <<hist, w, count, log>>
    BY <1>0, <1>5 DEF SaveLast, Goto
  <2>3. QED BY <2>1, <2>2 DEF HistInv, Recorded, Shown
<1>6. ASSUME NEW c \in Contexts, PushHist(c) PROVE HistInv'
  <2>1. Recorded' /\ log' # <<>> /\ log'[1] = rs[c] BY <1>6, PushRecorded DEF HistInv
  <2>2. \A d \in Contexts : pc'[d] # "push"
    BY <1>0, <1>6 DEF PushHist, Goto, OneTransaction, InTransaction
  <2>3. last' = rs[c] BY <1>6 DEF PushHist, HistInv, Shown
  <2>4. QED BY <2>1, <2>2, <2>3 DEF HistInv, Shown, Newest
<1>7. ASSUME NEW i \in DOMAIN wire, Arrive(i) PROVE HistInv'
  BY <1>7 DEF Arrive, diag, HistInv, Recorded, Shown, Newest
<1>8. CASE UNCHANGED vars
  BY <1>8 DEF vars, diag, HistInv, Recorded, Shown, Newest
<1>9. QED
  BY <1>2, <1>3, <1>4, <1>5, <1>6, <1>7, <1>8 DEF Next, TxnExec

\* Between transactions the history and the last result are those of the most recent
\* ones, newest first, for every depth of the history.
THEOREM HistoryRight == Spec => []HistoryIsRecent
<1>1. Init => OneTransaction /\ HistInv
  BY DEF Init, OneTransaction, InTransaction, HistInv, Recorded, Shown, Newest
<1>2. Typed /\ OneTransaction /\ HistInv => HistoryIsRecent
  <2> SUFFICES ASSUME Typed, OneTransaction, HistInv, ~owner PROVE HistoryIsRecent
    BY DEF HistoryIsRecent
  <2>0. w \in 0..Depth - 1 /\ count \in 0..Depth BY DEF Typed, TypeOK
  <2>1. \A c \in Contexts : pc[c] # "push" BY DEF OneTransaction, InTransaction
  <2>2. last = IF log = <<>> THEN "none" ELSE log[1] BY <2>1 DEF HistInv, Shown, Newest
  <2>3. ASSUME NEW n \in 1..HistCount PROVE HistGet(n - 1) = log[n]
    <3>1. n \in 1..Depth /\ n \in 1..count BY <2>0, BoundsAssumption DEF HistCount
    <3>2. HistGet(n - 1) = hist[Slot(w, n)] BY <2>0, <3>1, HistGetSlot
    <3>3. QED BY <3>1, <3>2 DEF HistInv, Recorded
  <2>4. QED BY <2>2, <2>3 DEF HistoryIsRecent, HistInv, Recorded, HistCount
<1>3. QED
  BY <1>1, <1>2, TypedInit, TypedNext, OneTransactionNext, HistNext, PTL DEF Spec
=============================================================================
