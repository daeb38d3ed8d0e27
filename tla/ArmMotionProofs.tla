-------------------------- MODULE ArmMotionProofs --------------------------
(***************************************************************************)
(* Proofs about the blocking motions, for both builds and for a bus that   *)
(* works and one that fails: the types, the table that tells where the     *)
(* seedling is, the seedling that only a stop drops, the machine at rest,  *)
(* the one move after a stop, and the promise of MotionCall.               *)
(***************************************************************************)
EXTENDS ArmMotion, FiniteSetTheorems, SequenceTheorems, TLAPS

-----------------------------------------------------------------------------
(***************************************************************************)
(* The inductive invariant.                                                *)
(***************************************************************************)

\* A drive reports its target reached only when it is there, and only a drive
\* that is enabled and not stopped moves.
HonestDrives ==
  \A j \in Joints :
    /\ servo[j].reached => servo[j].pos = servo[j].target
    /\ servo[j].moving => servo[j].enabled /\ ~servo[j].estop

\* From its target on, a step finds the drive with the target it was sent; in
\* its wait, the drive moves only as long as it has not arrived.
Commanded ==
  /\ Does({"enable", "trigger", "wait"}) => servo[Now.joint].target = Now.to
  /\ Does({"wait"}) /\ servo[Now.joint].moving => servo[Now.joint].pos # Now.to

\* The positions of a transfer between which a joint stays where it was sent.
Parked(j, p) ==
  CASE j = 1 /\ p = "src" -> 5..17
    [] j = 2 /\ p = "src" -> 9..21
    [] j = 1 /\ p = "dst" -> 21..32
    [] j = 2 /\ p = "dst" -> 25..32

InPlace ==
  call = "pick" =>
    \A j \in Joints, p \in {"src", "dst"} :
      pc \in Parked(j, p) => servo[j].pos = p /\ ~servo[j].moving

\* With no write lost, a drive moves only while the program waits for it.
MovesInWait ==
  ~lossy =>
    \A j \in Joints : servo[j].moving => Does({"wait"}) /\ Now.joint = j

\* Where a transfer may have the cylinder down and the gripper closed, and what
\* a stop in between leaves of it.
Cylinder ==
  /\ z => call = "stop" \/ (call = "pick" /\ pc \in 11..14 \cup 27..30)
  /\ call = "pick" /\ pc \in {11, 12, 27, 28} /\ ~latch => z
  /\ call = "pick" /\ pc \in {12, 28} /\ latch => ~z

Gripper ==
  /\ grip => call = "stop" \/ (call = "pick" /\ pc \in 13..28)
  /\ seed = "held" => grip
  /\ seed = "held" /\ call = "pick" => ~latch

\* A belt runs only while the program waits for its photocell.
Conveyor == belt # {} => call = "belt" /\ pc = 10

\* A transfer carries the seedling it found in the source row, and no other.
Carried ==
  call = "pick" =>
    /\ from # "held"
    /\ from # "src" => seed = from
    /\ from = "src" =>
         /\ pc \in 1..12 => seed = "src"
         /\ pc \in 13..28 /\ ~latch => seed = "held"
         /\ pc = 28 /\ latch => seed = "dst"
         /\ pc \in 29..32 => seed = "dst"

\* The table: a transfer runs only for a row it has not moved, and what it has
\* moved is gone from there.
Moved ==
  /\ call = "pick" => table = "src"
  /\ table = "dst" => seed \in {"dst", "lost"} /\ (from = "src" => seed = "dst")

\* Behind the latch a transfer starts no move but the one it then waits for.
StartedLate ==
  call = "pick" /\ latch =>
    IF Does({"wait"}) THEN started \subseteq {Now.joint} ELSE started = {}

Inv ==
  /\ TypeOK /\ HonestDrives /\ Commanded /\ InPlace /\ MovesInWait
  /\ Cylinder /\ Gripper /\ Conveyor /\ Carried /\ Moved /\ StartedLate

-----------------------------------------------------------------------------
(***************************************************************************)
(* The programs, step by step.                                             *)
(***************************************************************************)
Motors == {"target", "enable", "trigger", "wait"}
Kinds  == Motors \cup {"poll", "down", "up", "grip", "release", "transfer", "start", "photo"}
Errors == {"src", "dst", "pick_stop", "place_stop", "belt"}
AStep  == [do : Kinds, joint : Joints \cup {0}, to : Places,
           err : Errors \cup {"home", "none"}]

LEMMA FunIsSeq ==
  ASSUME NEW S, NEW n \in Nat, NEW f \in [1..n -> S]
  PROVE  f \in Seq(S) /\ Len(f) = n
BY SeqDef, LenProperties

\* s is a, of length n, followed by b, of length m.
Joins(s, a, b, n, m) ==
  /\ s \in Seq(AStep) /\ Len(s) = n + m
  /\ \A i \in 1..n : s[i] = a[i]
  /\ \A i \in 1..m : s[n + i] = b[i]

LEMMA Joined ==
  ASSUME NEW a \in Seq(AStep), NEW b \in Seq(AStep)
  PROVE  Joins(a \o b, a, b, Len(a), Len(b))
<1>1. /\ a \o b \in Seq(AStep) /\ Len(a \o b) = Len(a) + Len(b)
      /\ Len(a) \in Nat /\ Len(b) \in Nat
  BY ConcatProperties, LenProperties
<1>2. \A i \in 1 .. Len(a) + Len(b) :
        (a \o b)[i] = IF i <= Len(a) THEN a[i] ELSE b[i - Len(a)]
  BY ConcatProperties
<1>3. ASSUME NEW i \in 1..Len(a) PROVE (a \o b)[i] = a[i]
  BY <1>1, <1>2
<1>4. ASSUME NEW i \in 1..Len(b) PROVE (a \o b)[Len(a) + i] = b[i]
  <2>1. /\ Len(a) + i \in 1..Len(a) + Len(b)
        /\ ~(Len(a) + i <= Len(a)) /\ (Len(a) + i) - Len(a) = i
    BY <1>1
  <2>2. QED
    BY <1>2, <2>1
<1>5. QED
  BY <1>1, <1>3, <1>4 DEF Joins

\* Step i of a move of joint j to p.
Moves(s, i, j, p) ==
  /\ s.joint = j /\ s.to = p /\ s.err = p
  /\ s.do = IF i = 1 THEN "target" ELSE IF i = 2 THEN "enable"
            ELSE IF i = 3 THEN "trigger" ELSE "wait"

LEMMA GotoSteps ==
  ASSUME NEW j \in Joints, NEW p \in Places
  PROVE  /\ Goto(j, p) \in Seq(AStep) /\ Len(Goto(j, p)) = 4
         /\ \A i \in 1..4 : Moves(Goto(j, p)[i], i, j, p)
<1> DEFINE do == <<"target", "enable", "trigger", "wait">>
<1>1. ASSUME NEW i \in 1..4
      PROVE  do[i] = IF i = 1 THEN "target" ELSE IF i = 2 THEN "enable"
                     ELSE IF i = 3 THEN "trigger" ELSE "wait"
  <2>1. i = 1 \/ i = 2 \/ i = 3 \/ i = 4
    OBVIOUS
  <2>2. QED
    BY <2>1
<1> HIDE DEF do
<1>2. Goto(j, p) = [i \in 1..4 |-> Step(do[i], j, p, p)]
  BY DEF Goto, do
<1>3. ASSUME NEW i \in 1..4 PROVE Step(do[i], j, p, p) \in AStep
  <2>1. do[i] \in Kinds
    BY <1>1 DEF Kinds, Motors
  <2>2. QED
    BY <2>1 DEF Step, AStep, Places, Errors
<1>4. Goto(j, p) \in [1..4 -> AStep]
  BY <1>2, <1>3
<1>5. Goto(j, p) \in Seq(AStep) /\ Len(Goto(j, p)) = 4
  BY <1>4, FunIsSeq
<1>6. QED
  BY <1>1, <1>2, <1>5 DEF Step, Moves

\* s is the program of a move of both joints to p, from its step n + 1 on.
MovesBoth(s, n, p) ==
  /\ \A i \in 1..4 : Moves(s[n + i], i, 1, p)
  /\ \A i \in 1..4 : Moves(s[n + 4 + i], i, 2, p)

LEMMA MoveToSteps ==
  ASSUME NEW p \in Places
  PROVE  MoveTo(p) \in Seq(AStep) /\ Len(MoveTo(p)) = 8 /\ MovesBoth(MoveTo(p), 0, p)
<1>1. /\ Goto(1, p) \in Seq(AStep) /\ Len(Goto(1, p)) = 4
      /\ Goto(2, p) \in Seq(AStep) /\ Len(Goto(2, p)) = 4
  BY GotoSteps DEF Joints
<1>2. Joins(MoveTo(p), Goto(1, p), Goto(2, p), 4, 4)
  BY <1>1, Joined DEF MoveTo
<1>3. MoveTo(p) \in Seq(AStep) /\ Len(MoveTo(p)) = 8
  BY <1>2 DEF Joins
<1>4. ASSUME NEW i \in 1..4
      PROVE  Moves(MoveTo(p)[0 + i], i, 1, p) /\ Moves(MoveTo(p)[0 + 4 + i], i, 2, p)
  <2>1. MoveTo(p)[0 + i] = Goto(1, p)[i] /\ MoveTo(p)[0 + 4 + i] = Goto(2, p)[i]
    BY <1>2 DEF Joins
  <2>2. Moves(Goto(1, p)[i], i, 1, p) /\ Moves(Goto(2, p)[i], i, 2, p)
    BY GotoSteps DEF Joints
  <2>3. QED
    BY <2>1, <2>2
<1>5. QED
  BY <1>3, <1>4 DEF MovesBoth

\* s, of n steps, does do, with the error e.
AreValves(s, do, e, n) ==
  /\ s \in Seq(AStep) /\ Len(s) = n
  /\ \A i \in 1..n : s[i].do = do[i] /\ s[i].err = e

LEMMA ValveSteps ==
  ASSUME NEW n \in Nat, NEW do \in [1..n -> Kinds], NEW e \in Errors
  PROVE  AreValves(Valves(do, e), do, e, n)
<1>1. Valves(do, e) = [i \in 1..n |-> Output(do[i], e)]
  BY DEF Valves
<1>2. ASSUME NEW i \in 1..n PROVE Output(do[i], e) \in AStep
  BY DEF Output, Step, AStep, Places
<1>3. Valves(do, e) \in [1..n -> AStep]
  BY <1>1, <1>2
<1>4. Valves(do, e) \in Seq(AStep) /\ Len(Valves(do, e)) = n
  BY <1>3, FunIsSeq
<1>5. QED
  BY <1>1, <1>4 DEF Output, Step, AreValves

\* Step i of the sequences at the source and at the target row.
Picks(s, i) ==
  /\ s.err = "pick_stop"
  /\ s.do = IF i = 2 THEN "down" ELSE IF i = 4 THEN "grip" ELSE IF i = 6 THEN "up"
            ELSE "poll"

SetsDown(s, i) ==
  /\ s.err = "place_stop"
  /\ s.do = IF i = 2 THEN "down" ELSE IF i = 4 THEN "release" ELSE IF i = 6 THEN "up"
            ELSE "poll"

LEMMA PickSteps ==
  /\ PickSequence \in Seq(AStep) /\ Len(PickSequence) = 8
  /\ \A i \in 1..8 : Picks(PickSequence[i], i)
<1> DEFINE do == <<"poll", "down", "poll", "grip", "poll", "up", "poll", "poll">>
<1>1. ASSUME NEW i \in 1..8
      PROVE  do[i] = IF i = 2 THEN "down" ELSE IF i = 4 THEN "grip"
                     ELSE IF i = 6 THEN "up" ELSE "poll"
  <2>1. i = 1 \/ i = 2 \/ i = 3 \/ i = 4 \/ i = 5 \/ i = 6 \/ i = 7 \/ i = 8
    OBVIOUS
  <2>2. QED
    BY <2>1
<1>2. do = [i \in 1..8 |-> do[i]]
  OBVIOUS
<1>3. PickSequence = Valves(do, "pick_stop")
  BY DEF PickSequence
<1> HIDE DEF do
<1>4. \A i \in 1..8 : do[i] \in Kinds
  BY <1>1 DEF Kinds
<1>5. do \in [1..8 -> Kinds] /\ "pick_stop" \in Errors
  BY <1>2, <1>4 DEF Errors
<1>6. AreValves(PickSequence, do, "pick_stop", 8)
  BY <1>3, <1>5, ValveSteps
<1>7. QED
  BY <1>1, <1>6 DEF Picks, AreValves

LEMMA PlaceSteps ==
  /\ PlaceSequence \in Seq(AStep) /\ Len(PlaceSequence) = 7
  /\ \A i \in 1..7 : SetsDown(PlaceSequence[i], i)
<1> DEFINE do == <<"poll", "down", "poll", "release", "poll", "up", "poll">>
<1>1. ASSUME NEW i \in 1..7
      PROVE  do[i] = IF i = 2 THEN "down" ELSE IF i = 4 THEN "release"
                     ELSE IF i = 6 THEN "up" ELSE "poll"
  <2>1. i = 1 \/ i = 2 \/ i = 3 \/ i = 4 \/ i = 5 \/ i = 6 \/ i = 7
    OBVIOUS
  <2>2. QED
    BY <2>1
<1>2. do = [i \in 1..7 |-> do[i]]
  OBVIOUS
<1>3. PlaceSequence = Valves(do, "place_stop")
  BY DEF PlaceSequence
<1> HIDE DEF do
<1>4. \A i \in 1..7 : do[i] \in Kinds
  BY <1>1 DEF Kinds
<1>5. do \in [1..7 -> Kinds] /\ "place_stop" \in Errors
  BY <1>2, <1>4 DEF Errors
<1>6. AreValves(PlaceSequence, do, "place_stop", 7)
  BY <1>3, <1>5, ValveSteps
<1>7. QED
  BY <1>1, <1>6 DEF SetsDown, AreValves

\* A transfer has 32 steps: a move to the source row, eight for the pick, a move
\* to the target row, seven for the place, and the table at the end.
LEMMA TransferSteps ==
  /\ PickPlace \in Seq(AStep) /\ Len(PickPlace) = 32
  /\ MovesBoth(PickPlace, 0, "src")
  /\ \A i \in 1..8 : Picks(PickPlace[8 + i], i)
  /\ MovesBoth(PickPlace, 16, "dst")
  /\ \A i \in 1..7 : SetsDown(PickPlace[24 + i], i)
  /\ PickPlace[32].do = "transfer"
<1> DEFINE a == MoveTo("src")
           b == PickSequence
           c == MoveTo("dst")
           d == PlaceSequence
           e == Transfer
<1>1. /\ a \in Seq(AStep) /\ Len(a) = 8 /\ MovesBoth(a, 0, "src")
      /\ c \in Seq(AStep) /\ Len(c) = 8 /\ MovesBoth(c, 0, "dst")
  BY MoveToSteps DEF Places
<1>2. /\ b \in Seq(AStep) /\ Len(b) = 8 /\ \A i \in 1..8 : Picks(b[i], i)
      /\ d \in Seq(AStep) /\ Len(d) = 7 /\ \A i \in 1..7 : SetsDown(d[i], i)
  BY PickSteps, PlaceSteps
<1>3. e \in Seq(AStep) /\ Len(e) = 1 /\ e[1].do = "transfer"
  <2>1. Output("transfer", "none") \in AStep /\ Output("transfer", "none").do = "transfer"
    BY DEF Output, Step, AStep, Places, Kinds
  <2>2. QED
    BY <2>1 DEF Transfer
<1>4. PickPlace = (((a \o b) \o c) \o d) \o e
  BY <1>1, <1>2, <1>3 DEF PickPlace
<1> HIDE DEF a, b, c, d, e
<1> DEFINE ab == a \o b
           abc == ab \o c
           abcd == abc \o d
<1>5. Joins(ab, a, b, 8, 8) /\ ab \in Seq(AStep) /\ Len(ab) = 16
  <2>1. Joins(ab, a, b, 8, 8)
    BY <1>1, <1>2, Joined
  <2> HIDE DEF ab
  <2>2. QED
    BY <2>1 DEF Joins
<1> HIDE DEF ab
<1>6. Joins(abc, ab, c, 16, 8) /\ abc \in Seq(AStep) /\ Len(abc) = 24
  <2>1. Joins(abc, ab, c, 16, 8)
    BY <1>1, <1>5, Joined
  <2> HIDE DEF abc
  <2>2. QED
    BY <2>1 DEF Joins
<1> HIDE DEF abc
<1>7. Joins(abcd, abc, d, 24, 7) /\ abcd \in Seq(AStep) /\ Len(abcd) = 31
  <2>1. Joins(abcd, abc, d, 24, 7)
    BY <1>2, <1>6, Joined
  <2> HIDE DEF abcd
  <2>2. QED
    BY <2>1 DEF Joins
<1>8. PickPlace = abcd \o e
  BY <1>4 DEF ab, abc, abcd
<1> HIDE DEF abcd
<1>9. Joins(PickPlace, abcd, e, 31, 1) /\ PickPlace \in Seq(AStep) /\ Len(PickPlace) = 32
  <2>1. Joins(PickPlace, abcd, e, 31, 1)
    BY <1>3, <1>7, <1>8, Joined
  <2>2. QED
    BY <2>1 DEF Joins
<1>10. ASSUME NEW i \in 1..8 PROVE PickPlace[i] = a[i] /\ PickPlace[16 + i] = c[i]
  <2>0. /\ i \in 1..16 /\ i \in 1..24 /\ i \in 1..31
        /\ 16 + i \in 1..24 /\ 16 + i \in 1..31
    OBVIOUS
  <2>1. ab[i] = a[i] /\ abc[i] = ab[i] /\ abcd[i] = abc[i] /\ PickPlace[i] = abcd[i]
    BY <1>5, <1>6, <1>7, <1>9, <2>0 DEF Joins
  <2>3. abc[16 + i] = c[i] /\ abcd[16 + i] = abc[16 + i] /\ PickPlace[16 + i] = abcd[16 + i]
    BY <1>6, <1>7, <1>9, <2>0 DEF Joins
  <2>4. QED
    BY <2>1, <2>3
<1>11. ASSUME NEW i \in 1..8 PROVE Picks(PickPlace[8 + i], i)
  <2>1. 8 + i \in 1..16 /\ 8 + i \in 1..24 /\ 8 + i \in 1..31
    OBVIOUS
  <2>2. /\ ab[8 + i] = b[i] /\ abc[8 + i] = ab[8 + i]
        /\ abcd[8 + i] = abc[8 + i] /\ PickPlace[8 + i] = abcd[8 + i]
    BY <1>5, <1>6, <1>7, <1>9, <2>1 DEF Joins
  <2>3. QED
    BY <1>2, <2>2
<1>12. ASSUME NEW i \in 1..7 PROVE SetsDown(PickPlace[24 + i], i)
  <2>1. 24 + i \in 1..31
    OBVIOUS
  <2>2. abcd[24 + i] = d[i] /\ PickPlace[24 + i] = abcd[24 + i]
    BY <1>7, <1>9, <2>1 DEF Joins
  <2>3. QED
    BY <1>2, <2>2
<1>13. PickPlace[32].do = "transfer"
  <2>1. PickPlace[31 + 1] = e[1]
    BY <1>9 DEF Joins
  <2>2. QED
    BY <1>3, <2>1
<1>14. ASSUME NEW i \in 1..4
       PROVE  /\ Moves(PickPlace[0 + i], i, 1, "src") /\ Moves(PickPlace[0 + 4 + i], i, 2, "src")
              /\ Moves(PickPlace[16 + i], i, 1, "dst") /\ Moves(PickPlace[16 + 4 + i], i, 2, "dst")
  <2>1. i \in 1..8 /\ 4 + i \in 1..8
    OBVIOUS
  <2>2. /\ PickPlace[i] = a[i] /\ PickPlace[4 + i] = a[4 + i]
        /\ PickPlace[16 + i] = c[i] /\ PickPlace[16 + (4 + i)] = c[4 + i]
    BY <1>10, <2>1
  <2>3. /\ 0 + i = i /\ 0 + 4 + i = 4 + i /\ 16 + 4 + i = 16 + (4 + i)
    OBVIOUS
  <2>4. /\ Moves(a[0 + i], i, 1, "src") /\ Moves(a[0 + 4 + i], i, 2, "src")
        /\ Moves(c[0 + i], i, 1, "dst") /\ Moves(c[0 + 4 + i], i, 2, "dst")
    BY <1>1 DEF MovesBoth
  <2>5. QED
    BY <2>2, <2>3, <2>4
<1>15. QED
  BY <1>9, <1>11, <1>12, <1>13, <1>14 DEF MovesBoth

LEMMA BeltSteps ==
  /\ RunUntilSensor \in Seq(AStep) /\ Len(RunUntilSensor) = 2
  /\ RunUntilSensor[1].do = "start" /\ RunUntilSensor[2].do = "photo"
  /\ RunUntilSensor[2].err = "belt"
<1> DEFINE do == <<"start", "photo">>
<1>1. do[1] = "start" /\ do[2] = "photo" /\ do = [i \in 1..2 |-> do[i]]
  OBVIOUS
<1>2. RunUntilSensor = Valves(do, "belt")
  BY DEF RunUntilSensor
<1> HIDE DEF do
<1>3. \A i \in 1..2 : do[i] \in Kinds
  BY <1>1 DEF Kinds
<1>4. do \in [1..2 -> Kinds] /\ "belt" \in Errors
  BY <1>1, <1>3 DEF Errors
<1>5. AreValves(RunUntilSensor, do, "belt", 2)
  BY <1>2, <1>4, ValveSteps
<1>6. QED
  BY <1>1, <1>5 DEF AreValves

\* Both programs that go home begin with the same eight steps.
LEMMA HomeSteps ==
  /\ GoHome \in Seq(AStep) /\ Len(GoHome) = 8 /\ MovesBoth(GoHome, 0, "home")
  /\ GoHome \o RunUntilSensor \in Seq(AStep) /\ Len(GoHome \o RunUntilSensor) = 10
  /\ MovesBoth(GoHome \o RunUntilSensor, 0, "home")
  /\ (GoHome \o RunUntilSensor)[9].do = "start"
  /\ (GoHome \o RunUntilSensor)[10].do = "photo"
  /\ (GoHome \o RunUntilSensor)[10].err = "belt"
<1> DEFINE h == GoHome
           b == RunUntilSensor
           p == h \o b
<1>1. h \in Seq(AStep) /\ Len(h) = 8 /\ MovesBoth(h, 0, "home")
  BY MoveToSteps DEF GoHome, Places
<1>2. b \in Seq(AStep) /\ Len(b) = 2 /\ b[1].do = "start" /\ b[2].do = "photo" /\ b[2].err = "belt"
  BY BeltSteps
<1> HIDE DEF h, b
<1>3. Joins(p, h, b, 8, 2)
  BY <1>1, <1>2, Joined
<1> HIDE DEF p
<1>4. p \in Seq(AStep) /\ Len(p) = 10 /\ \A i \in 1..8 : p[i] = h[i]
  BY <1>3 DEF Joins
<1>5. p[8 + 1] = b[1] /\ p[8 + 2] = b[2]
  BY <1>3 DEF Joins
<1>6. MovesBoth(p, 0, "home")
  <2>1. ASSUME NEW i \in 1..4
        PROVE  Moves(p[0 + i], i, 1, "home") /\ Moves(p[0 + 4 + i], i, 2, "home")
    <3>1. p[0 + i] = h[0 + i] /\ p[0 + 4 + i] = h[0 + 4 + i]
      BY <1>4
    <3>2. QED
      BY <1>1, <3>1 DEF MovesBoth
  <2>2. QED
    BY <2>1 DEF MovesBoth
<1>7. p[9].do = "start" /\ p[10].do = "photo" /\ p[10].err = "belt"
  BY <1>2, <1>5
<1>8. QED
  BY <1>1, <1>4, <1>6, <1>7 DEF h, b, p

\* What the step at position n of the program c does, with which joint, and
\* where to.
HomeKind(n) ==
  IF n \in {1, 5} THEN "target" ELSE IF n \in {2, 6} THEN "enable"
  ELSE IF n \in {3, 7} THEN "trigger" ELSE IF n \in {4, 8} THEN "wait"
  ELSE IF n = 9 THEN "start" ELSE "photo"

PickKind(n) ==
  IF n \in {1, 5, 17, 21} THEN "target" ELSE IF n \in {2, 6, 18, 22} THEN "enable"
  ELSE IF n \in {3, 7, 19, 23} THEN "trigger" ELSE IF n \in {4, 8, 20, 24} THEN "wait"
  ELSE IF n \in {10, 26} THEN "down" ELSE IF n \in {14, 30} THEN "up"
  ELSE IF n = 12 THEN "grip" ELSE IF n = 28 THEN "release"
  ELSE IF n = 32 THEN "transfer" ELSE "poll"

KindAt(c, n)  == IF c = "pick" THEN PickKind(n) ELSE HomeKind(n)
JointAt(n)    == IF n \in 1..4 \cup 17..20 THEN 1 ELSE 2
PlaceAt(c, n) == IF c # "pick" THEN "home" ELSE IF n <= 8 THEN "src" ELSE "dst"
Length(c)     == IF c = "pick" THEN 32 ELSE IF c = "home" THEN 8 ELSE 10

IsStep(s, c, n) ==
  /\ s.do = KindAt(c, n)
  /\ s.do \in Motors => s.joint = JointAt(n) /\ s.to = PlaceAt(c, n) /\ s.err = s.to
  /\ s.do \in {"poll", "photo"} => s.err \in Errors

LEMMA TransferAt ==
  ASSUME NEW n \in 1..32
  PROVE  IsStep(PickPlace[n], "pick", n)
<1> USE DEF IsStep, KindAt, PickKind, JointAt, PlaceAt, Errors, Motors
<1>1. CASE n \in 1..4
  <2>1. Moves(PickPlace[0 + n], n, 1, "src")
    BY <1>1, TransferSteps DEF MovesBoth
  <2>2. QED
    BY <1>1, <2>1 DEF Moves
<1>2. CASE n \in 5..8
  <2> DEFINE k == n - 4
  <2>1. k \in 1..4 /\ n = 0 + 4 + k
    BY <1>2
  <2> HIDE DEF k
  <2>2. Moves(PickPlace[0 + 4 + k], k, 2, "src")
    BY <2>1, TransferSteps DEF MovesBoth
  <2>3. QED
    BY <1>2, <2>1, <2>2 DEF Moves
<1>3. CASE n \in 9..16
  <2> DEFINE k == n - 8
  <2>1. k \in 1..8 /\ n = 8 + k
    BY <1>3
  <2> HIDE DEF k
  <2>2. Picks(PickPlace[8 + k], k)
    BY <2>1, TransferSteps
  <2>3. QED
    BY <1>3, <2>1, <2>2 DEF Picks
<1>4. CASE n \in 17..20
  <2> DEFINE k == n - 16
  <2>1. k \in 1..4 /\ n = 16 + k
    BY <1>4
  <2> HIDE DEF k
  <2>2. Moves(PickPlace[16 + k], k, 1, "dst")
    BY <2>1, TransferSteps DEF MovesBoth
  <2>3. QED
    BY <1>4, <2>1, <2>2 DEF Moves
<1>5. CASE n \in 21..24
  <2> DEFINE k == n - 20
  <2>1. k \in 1..4 /\ n = 16 + 4 + k
    BY <1>5
  <2> HIDE DEF k
  <2>2. Moves(PickPlace[16 + 4 + k], k, 2, "dst")
    BY <2>1, TransferSteps DEF MovesBoth
  <2>3. QED
    BY <1>5, <2>1, <2>2 DEF Moves
<1>6. CASE n \in 25..31
  <2> DEFINE k == n - 24
  <2>1. k \in 1..7 /\ n = 24 + k
    BY <1>6
  <2> HIDE DEF k
  <2>2. SetsDown(PickPlace[24 + k], k)
    BY <2>1, TransferSteps
  <2>3. QED
    BY <1>6, <2>1, <2>2 DEF SetsDown
<1>7. CASE n = 32
  BY <1>7, TransferSteps
<1>8. QED
  BY <1>1, <1>2, <1>3, <1>4, <1>5, <1>6, <1>7

LEMMA HomeAt ==
  ASSUME NEW s, MovesBoth(s, 0, "home"), NEW c \in {"home", "belt"}, NEW n \in 1..8
  PROVE  IsStep(s[n], c, n)
<1> USE DEF IsStep, KindAt, HomeKind, JointAt, PlaceAt, Motors
<1>1. CASE n \in 1..4
  <2>1. Moves(s[0 + n], n, 1, "home")
    BY <1>1 DEF MovesBoth
  <2>2. QED
    BY <1>1, <2>1 DEF Moves
<1>2. CASE n \in 5..8
  <2> DEFINE k == n - 4
  <2>1. k \in 1..4 /\ n = 0 + 4 + k
    BY <1>2
  <2> HIDE DEF k
  <2>2. Moves(s[0 + 4 + k], k, 2, "home")
    BY <2>1 DEF MovesBoth
  <2>3. QED
    BY <1>2, <2>1, <2>2 DEF Moves
<1>3. QED
  BY <1>1, <1>2

LEMMA ProgramAt ==
  /\ DOMAIN Program = {"pick", "home", "belt"}
  /\ \A c \in {"pick", "home", "belt"} :
       /\ Len(Program[c]) = Length(c)
       /\ \A n \in 1..Length(c) : IsStep(Program[c][n], c, n)
<1>1. /\ DOMAIN Program = {"pick", "home", "belt"}
      /\ Program["pick"] = PickPlace /\ Program["home"] = GoHome
      /\ Program["belt"] = GoHome \o RunUntilSensor
  BY DEF Program
<1>2. ASSUME NEW n \in 1..32 PROVE IsStep(Program["pick"][n], "pick", n)
  BY <1>1, TransferAt
<1>3. ASSUME NEW n \in 1..8 PROVE IsStep(Program["home"][n], "home", n)
  BY <1>1, HomeAt, HomeSteps
<1>4. ASSUME NEW n \in 1..10 PROVE IsStep(Program["belt"][n], "belt", n)
  <2>1. CASE n \in 1..8
    BY <1>1, <2>1, HomeAt, HomeSteps
  <2>2. CASE n \in {9, 10}
    BY <1>1, <2>2, HomeSteps DEF IsStep, KindAt, HomeKind, Motors, Errors
  <2>3. QED
    BY <2>1, <2>2
<1>5. /\ Len(Program["pick"]) = 32 /\ Len(Program["home"]) = 8 /\ Len(Program["belt"]) = 10
  BY <1>1, TransferSteps, HomeSteps
<1>6. QED
  BY <1>1, <1>2, <1>3, <1>4, <1>5 DEF Length

-----------------------------------------------------------------------------
(***************************************************************************)
(* How the control moves.                                                  *)
(***************************************************************************)
Motions == {"pick", "home", "belt"}

\* Where the program is, in a state of the right types.
LEMMA NowIs ==
  ASSUME TypeOK
  PROVE  /\ Running <=> call \in Motions
         /\ Running => pc \in 1..Length(call) /\ IsStep(Now, call, pc)
<1>1. Running <=> call \in Motions
  BY ProgramAt DEF Running, Motions
<1>2. Running => pc \in 1..Length(call)
  BY <1>1, ProgramAt DEF TypeOK, Motions
<1>3. Running => IsStep(Now, call, pc)
  BY <1>1, <1>2, ProgramAt DEF Now, Motions
<1>4. QED
  BY <1>1, <1>2, <1>3

LEMMA DoesAt ==
  ASSUME TypeOK, NEW S, Does(S)
  PROVE  /\ call \in Motions /\ pc \in 1..Length(call)
         /\ IsStep(Now, call, pc) /\ KindAt(call, pc) \in S
BY NowIs DEF Does, IsStep

\* The control alone, which is what the step of a state depends on.
ControlOK ==
  /\ call \in Motions \cup {"none", "stop"}
  /\ call \in Motions => pc \in 1..Length(call)

LEMMA DoesNext ==
  ASSUME ControlOK', NEW S
  PROVE  /\ Does(S)' <=> call' \in Motions /\ KindAt(call', pc') \in S
         /\ call' \in Motions => IsStep(Now', call', pc')
<1>1. Running' <=> call' \in Motions
  BY ProgramAt DEF Running, Motions
<1>2. ASSUME call' \in Motions PROVE IsStep(Now', call', pc')
  BY <1>2, ProgramAt DEF ControlOK, Now, Motions
<1>3. QED
  BY <1>1, <1>2 DEF Does, IsStep

\* The kinds of steps, where they are, and what comes after them.
LEMMA Kind ==
  ASSUME NEW c \in Motions, NEW n \in 1..Length(c)
  PROVE  /\ KindAt(c, n) \in Kinds
         /\ JointAt(n) \in Joints
         /\ KindAt(c, n) \in {"target", "enable", "trigger"} => n + 1 \in 1..Length(c)
         /\ KindAt(c, n) \in {"poll", "down", "up", "grip", "release", "transfer"} => c = "pick"
         /\ KindAt(c, n) \in {"start", "photo"} => c = "belt"
         /\ KindAt(c, n) = "transfer" <=> c = "pick" /\ n = 32
         /\ KindAt(c, n) \in Motors => PlaceAt(c, n) \in Places
<1> USE DEF Motions, Length, KindAt, JointAt, Kinds, Motors, Joints, PlaceAt, Places
<1>1. CASE c = "pick"
  BY <1>1 DEF PickKind
<1>2. CASE c = "home"
  BY <1>2 DEF HomeKind
<1>3. CASE c = "belt"
  BY <1>3 DEF HomeKind
<1>4. QED
  BY <1>1, <1>2, <1>3

\* Ends: the last step of a motion is done.  Fails: the stop after it.
Goes(n) == call' = call /\ pc' = n /\ result' = result
Ends    == call' = "none" /\ pc' = 1 /\ result' = "ok"
Fails   == call' = "stop" /\ pc' = 1 /\ result' \in Errors

LEMMA Advances ==
  ASSUME TypeOK, Running, Advance
  PROVE  \/ pc < Length(call) /\ Goes(pc + 1)
         \/ pc = Length(call) /\ Ends
<1>1. pc \in 1..Length(call) /\ Len(Program[call]) = Length(call)
  BY NowIs, ProgramAt DEF Motions
<1>2. Length(call) \in Nat
  BY DEF Length
<1>3. CASE pc + 1 > Length(call)
  BY <1>1, <1>2, <1>3 DEF Advance, Proceed, Ends
<1>4. CASE ~(pc + 1 > Length(call))
  BY <1>1, <1>2, <1>4 DEF Advance, Proceed, Goes
<1>5. QED
  BY <1>3, <1>4

LEMMA MotorErrors ==
  ASSUME TypeOK, Does(Motors), MotorError
  PROVE  \/ call = "pick" /\ Fails
         \/ call \in {"home", "belt"} /\ pc \in 1..4 /\ Goes(5)
         \/ call = "belt" /\ pc \in 5..8 /\ Goes(9)
         \/ call = "home" /\ pc \in 5..8 /\ Ends
<1>1. /\ call \in Motions /\ pc \in 1..Length(call) /\ KindAt(call, pc) \in Motors
      /\ Now.joint = JointAt(pc) /\ Now.to = PlaceAt(call, pc) /\ Now.err = Now.to
  BY DoesAt DEF IsStep
<1>2. Len(Program[call]) = Length(call)
  BY <1>1, ProgramAt DEF Motions
<1>3. CASE call = "pick"
  <2>1. Now.to \in {"src", "dst"}
    BY <1>1, <1>3 DEF PlaceAt
  <2>2. QED
    BY <1>1, <1>3, <2>1 DEF MotorError, Fails, Errors
<1>4. CASE call # "pick"
  <2>1. call \in {"home", "belt"} /\ Now.to = "home" /\ Proceed(4 * Now.joint + 1)
    BY <1>1, <1>4 DEF PlaceAt, MotorError, Motions
  <2>2. pc \in 1..8
    BY <1>1, <2>1 DEF Length, KindAt, HomeKind, Motors
  <2>3. CASE pc \in 1..4
    <3>1. 4 * Now.joint + 1 = 5 /\ ~(5 > Length(call))
      BY <1>1, <2>1, <2>3 DEF JointAt, Length
    <3>2. QED
      BY <1>2, <2>1, <2>3, <3>1 DEF Proceed, Goes
  <2>4. CASE pc \in 5..8
    <3>1. 4 * Now.joint + 1 = 9
      BY <1>1, <2>4 DEF JointAt
    <3>2. CASE call = "home"
      BY <1>2, <2>1, <2>4, <3>1, <3>2 DEF Proceed, Ends, Length
    <3>3. CASE call = "belt"
      BY <1>2, <2>1, <2>4, <3>1, <3>3 DEF Proceed, Goes, Length
    <3>4. QED
      BY <2>1, <3>2, <3>3
  <2>5. QED
    BY <2>2, <2>3, <2>4
<1>5. QED
  BY <1>3, <1>4

LEMMA Failures ==
  ASSUME TypeOK, Does({"poll", "photo"}), Failure
  PROVE  call \in {"pick", "belt"} /\ Fails
<1>1. /\ call \in Motions /\ pc \in 1..Length(call) /\ KindAt(call, pc) \in {"poll", "photo"}
      /\ Now.err \in Errors
  BY DoesAt DEF IsStep
<1>2. call \in {"pick", "belt"}
  BY <1>1, Kind
<1>3. QED
  BY <1>1, <1>2 DEF Failure, Fails

-----------------------------------------------------------------------------
(***************************************************************************)
(* What the steps do to the drives.                                        *)
(***************************************************************************)

\* e is what d is after any of the writes that stop a drive, or after none.
Slowed(d, e) ==
  /\ e \in Drive
  /\ e.target = d.target /\ e.pos = d.pos /\ e.reached = d.reached
  /\ e = d \/ ~e.moving

LEMMA Slows ==
  ASSUME NEW d \in Drive
  PROVE  /\ Slowed(d, d) /\ Slowed(d, Disable(d)) /\ Slowed(d, ClearTrigger(d))
         /\ Slowed(d, SetEstop(d)) /\ Slowed(d, ClearEstop(ClearTrigger(d)))
         /\ ~Disable(d).moving /\ ~ClearTrigger(d).moving /\ ~SetEstop(d).moving
         /\ ~ClearEstop(ClearTrigger(d)).moving
BY DEF Drive, Slowed, Disable, ClearTrigger, SetEstop, ClearEstop, Places

LEMMA Writes ==
  ASSUME NEW d \in Drive, NEW s, s.to \in Places
  PROVE  /\ s.do = "target" =>
              /\ Written(d, s) \in Drive /\ Written(d, s).target = s.to
              /\ Written(d, s).pos = d.pos /\ Written(d, s).moving = d.moving
              /\ Written(d, s).enabled = d.enabled /\ Written(d, s).estop = d.estop
              /\ Written(d, s).reached <=> d.pos = s.to
         /\ s.do = "enable" =>
              /\ Written(d, s) \in Drive /\ Written(d, s).target = d.target
              /\ Written(d, s).pos = d.pos /\ Written(d, s).moving = d.moving
              /\ Written(d, s).enabled /\ Written(d, s).estop = d.estop
              /\ Written(d, s).reached = d.reached
         /\ s.do = "trigger" =>
              /\ Written(d, s) \in Drive /\ Written(d, s).target = d.target
              /\ Written(d, s).pos = d.pos /\ Written(d, s).enabled = d.enabled
              /\ Written(d, s).estop = d.estop
              /\ IF d.enabled /\ ~d.estop
                 THEN /\ Written(d, s).moving <=> d.pos # d.target
                      /\ Written(d, s).reached <=> d.pos = d.target
                 ELSE Written(d, s) = d
<1>1. CASE s.do = "target"
  <2>1. Written(d, s) = WriteTarget(d, s.to)
    BY <1>1 DEF Written
  <2>2. QED
    BY <1>1, <2>1 DEF WriteTarget, Drive, Places
<1>2. CASE s.do = "enable"
  <2>1. Written(d, s) = Enable(d)
    BY <1>2 DEF Written
  <2>2. QED
    BY <1>2, <2>1 DEF Enable, Drive, Places
<1>3. CASE s.do = "trigger"
  <2>1. Written(d, s) = TriggerMove(d)
    BY <1>3 DEF Written
  <2>2. CASE d.enabled /\ ~d.estop
    BY <1>3, <2>1, <2>2 DEF TriggerMove, Drive, Places
  <2>3. CASE ~(d.enabled /\ ~d.estop)
    BY <1>3, <2>1, <2>3 DEF TriggerMove
  <2>4. QED
    BY <2>2, <2>3
<1>4. QED
  BY <1>1, <1>2, <1>3

LEMMA ServoWrites ==
  ASSUME TypeOK, ServoWrite, NEW j, j = Now.joint
  PROVE  /\ j \in Joints /\ Now.to \in Places
         /\ servo' \in [Joints -> Drive]
         /\ \A k \in Joints \ {j} : servo'[k] = servo[k]
         /\ \/ servo'[j] = Written(servo[j], Now) /\ Advance
            \/ lossy /\ servo'[j] \in {servo[j], Written(servo[j], Now)} /\ MotorError
<1>1. /\ call \in Motions /\ pc \in 1..Length(call)
      /\ IsStep(Now, call, pc) /\ KindAt(call, pc) \in {"target", "enable", "trigger"}
  BY DoesAt DEF ServoWrite
<1>2. Now.joint = JointAt(pc) /\ Now.to = PlaceAt(call, pc)
        /\ Now.do \in {"target", "enable", "trigger"}
  BY <1>1 DEF IsStep, Motors
<1>3. j \in Joints /\ Now.to \in Places
  BY <1>1, <1>2, Kind DEF Motors
<1>4. servo \in [Joints -> Drive]
  BY DEF TypeOK
<1>5. Written(servo[j], Now) \in Drive
  BY <1>2, <1>3, <1>4, Writes
<1> DEFINE sent == [servo EXCEPT ![j] = Written(servo[j], Now)]
<1>6. \/ servo' = sent /\ Advance
      \/ lossy /\ servo' \in {sent, servo} /\ MotorError
  BY DEF ServoWrite
<1>7. /\ sent \in [Joints -> Drive] /\ sent[j] = Written(servo[j], Now)
      /\ \A k \in Joints \ {j} : sent[k] = servo[k]
  BY <1>3, <1>4, <1>5
<1> HIDE DEF sent
<1>8. QED
  BY <1>3, <1>4, <1>6, <1>7

\* The drives keep their targets and places, and none begins to move.
Slow ==
  /\ servo' \in [Joints -> Drive]
  /\ \A j \in Joints : Slowed(servo[j], servo'[j])

LEMMA Unansweredly ==
  ASSUME TypeOK, Does({"wait"}), NEW w, NEW some,
         \A d \in {w} \cup some : Slowed(servo[Now.joint], d),
         Unanswered(w, some)
  PROVE  /\ Slow /\ Now.joint \in Joints
         /\ \A k \in Joints \ {Now.joint} : servo'[k] = servo[k]
         /\ ~lossy => servo'[Now.joint] = w
<1>1. /\ call \in Motions /\ pc \in 1..Length(call)
      /\ IsStep(Now, call, pc) /\ KindAt(call, pc) \in {"wait"}
  BY DoesAt
<1>2. Now.joint \in Joints
  BY <1>1, Kind DEF IsStep, Motors
<1> DEFINE j == Now.joint
<1>3. servo \in [Joints -> Drive]
  BY DEF TypeOK
<1>4. PICK d \in {w} \cup (IF lossy THEN some \cup {servo[j]} ELSE {}) :
        servo' = [servo EXCEPT ![j] = d]
  BY DEF Unanswered
<1>5. Slowed(servo[j], d)
  BY <1>2, <1>3, <1>4, Slows
<1>6. d \in Drive
  BY <1>5 DEF Slowed
<1>7. /\ servo' \in [Joints -> Drive] /\ servo'[j] = d
      /\ \A k \in Joints \ {j} : servo'[k] = servo[k]
  BY <1>2, <1>3, <1>4, <1>6
<1>8. \A k \in Joints : Slowed(servo[k], servo'[k])
  BY <1>3, <1>5, <1>7, Slows
<1>9. ~lossy => d = w
  BY <1>4
<1>10. QED
  BY <1>2, <1>7, <1>8, <1>9 DEF Slow

LEMMA Waits ==
  ASSUME TypeOK, WaitPosition
  PROVE  /\ Slow /\ Now.joint \in Joints
         /\ \A k \in Joints \ {Now.joint} : servo'[k] = servo[k]
         /\ ~lossy => ~servo'[Now.joint].moving
         /\ \/ MotorError
            \/ ~latch /\ Arrived(servo[Now.joint], Now) /\ Advance
<1>1. Does({"wait"})
  BY DEF WaitPosition
<1>2. Now.joint \in Joints
  BY <1>1, DoesAt, Kind DEF IsStep, Motors
<1>3. servo[Now.joint] \in Drive
  BY <1>2 DEF TypeOK
<1>4. CASE StopDrive
  <2> DEFINE w    == Disable(servo[Now.joint])
             some == {ClearTrigger(servo[Now.joint])}
  <2>1. Unanswered(w, some)
    BY <1>4 DEF StopDrive
  <2>2. ~w.moving /\ \A d \in {w} \cup some : Slowed(servo[Now.joint], d)
    BY <1>3, Slows
  <2> HIDE DEF w, some
  <2>3. QED
    BY <1>1, <2>1, <2>2, Unansweredly DEF WaitPosition, PollEscalate
<1>5. CASE EndTrigger
  <2> DEFINE w    == ClearTrigger(servo[Now.joint])
             some == {}
  <2>1. Unanswered(w, some)
    BY <1>5 DEF EndTrigger
  <2>2. ~w.moving /\ \A d \in {w} \cup some : Slowed(servo[Now.joint], d)
    BY <1>3, Slows
  <2> HIDE DEF w, some
  <2>3. QED
    BY <1>1, <2>1, <2>2, Unansweredly DEF WaitPosition, PollEscalate
<1>6. QED
  BY <1>4, <1>5 DEF WaitPosition

\* Everything else that is not a drive's own motion slows them at most.
LEMMA Slowly ==
  ASSUME TypeOK,
         \/ UNCHANGED servo
         \/ SafeStop \/ BeginGoHome \/ RequestEstop \/ RequestClearFault
  PROVE  Slow
<1>1. servo \in [Joints -> Drive]
  BY DEF TypeOK
<1>2. CASE UNCHANGED servo
  BY <1>1, <1>2, Slows DEF Slow
<1>3. CASE SafeStop
  <2>1. PICK lost \in Losses :
          servo' = [j \in Joints |-> IF j \in lost THEN servo[j] ELSE Disable(servo[j])]
    BY <1>3 DEF SafeStop
  <2>2. ASSUME NEW j \in Joints PROVE Slowed(servo[j], servo'[j])
    BY <1>1, <2>1, Slows
  <2>3. QED
    BY <2>1, <2>2 DEF Slow, Slowed
<1>4. CASE BeginGoHome
  <2>1. PICK stopped \in {{}, Joints}, lost \in Losses :
          servo' = [j \in Joints |-> IF j \in stopped \ lost THEN Disable(servo[j])
                                                             ELSE servo[j]]
    BY <1>4 DEF BeginGoHome
  <2>2. ASSUME NEW j \in Joints PROVE Slowed(servo[j], servo'[j])
    BY <1>1, <2>1, Slows
  <2>3. QED
    BY <2>1, <2>2 DEF Slow, Slowed
<1>5. CASE RequestEstop
  <2>1. PICK lost \in Losses \cup (IF BusBusy THEN {Joints} ELSE {}), half \in Losses :
          servo' = [j \in Joints |-> IF j \in lost THEN servo[j]
                                     ELSE IF j \in half THEN Disable(servo[j])
                                     ELSE SetEstop(servo[j])]
    BY <1>5 DEF RequestEstop
  <2>2. ASSUME NEW j \in Joints PROVE Slowed(servo[j], servo'[j])
    BY <1>1, <2>1, Slows
  <2>3. QED
    BY <2>1, <2>2 DEF Slow, Slowed
<1>6. CASE RequestClearFault
  <2>1. PICK lost \in Losses :
          servo' = [j \in Joints |-> IF j \in lost THEN servo[j]
                                     ELSE ClearEstop(ClearTrigger(servo[j]))]
    BY <1>6 DEF RequestClearFault
  <2>2. ASSUME NEW j \in Joints PROVE Slowed(servo[j], servo'[j])
    BY <1>1, <2>1, Slows
  <2>3. QED
    BY <2>1, <2>2 DEF Slow, Slowed
<1>7. QED
  BY <1>2, <1>3, <1>4, <1>5, <1>6

LEMMA DriveMoves ==
  ASSUME TypeOK, NEW j \in Joints, DriveLeaves(j) \/ DriveArrives(j)
  PROVE  /\ servo' \in [Joints -> Drive]
         /\ \A k \in Joints \ {j} : servo'[k] = servo[k]
         /\ servo[j].moving /\ servo'[j].target = servo[j].target
         /\ servo'[j].enabled = servo[j].enabled /\ servo'[j].estop = servo[j].estop
         /\ \/ servo'[j].pos = "between" /\ ~servo'[j].reached
            \/ servo'[j].pos = servo'[j].target /\ ~servo'[j].moving
<1>1. servo \in [Joints -> Drive]
  BY DEF TypeOK
<1>2. CASE DriveLeaves(j)
  <2> DEFINE e == [servo[j] EXCEPT !.pos = "between", !.reached = FALSE]
  <2>1. servo' = [servo EXCEPT ![j] = e] /\ servo[j].moving
    BY <1>1, <1>2 DEF DriveLeaves
  <2>2. /\ e \in Drive /\ e.target = servo[j].target /\ e.pos = "between" /\ ~e.reached
        /\ e.enabled = servo[j].enabled /\ e.estop = servo[j].estop
    BY <1>1 DEF Drive
  <2> HIDE DEF e
  <2>3. /\ servo' \in [Joints -> Drive] /\ servo'[j] = e
        /\ \A k \in Joints \ {j} : servo'[k] = servo[k]
    BY <1>1, <2>1, <2>2
  <2>4. QED
    BY <2>1, <2>2, <2>3
<1>3. CASE DriveArrives(j)
  <2> DEFINE e == [servo[j] EXCEPT !.pos = servo[j].target, !.moving = FALSE, !.reached = TRUE]
  <2>1. servo' = [servo EXCEPT ![j] = e] /\ servo[j].moving
    BY <1>1, <1>3 DEF DriveArrives
  <2>2. /\ e \in Drive /\ e.target = servo[j].target /\ e.pos = e.target /\ ~e.moving
        /\ e.enabled = servo[j].enabled /\ e.estop = servo[j].estop
    BY <1>1 DEF Drive
  <2> HIDE DEF e
  <2>3. /\ servo' \in [Joints -> Drive] /\ servo'[j] = e
        /\ \A k \in Joints \ {j} : servo'[k] = servo[k]
    BY <1>1, <2>1, <2>2
  <2>4. QED
    BY <2>1, <2>2, <2>3
<1>4. QED
  BY <1>2, <1>3

-----------------------------------------------------------------------------
(***************************************************************************)
(* The types.                                                              *)
(***************************************************************************)
TypesOfControl ==
  /\ call \in {"none", "pick", "home", "belt", "stop"}
  /\ pc \in 1..(IF Running THEN Len(Program[call]) ELSE 1)
  /\ result \in {"none", "ok", "src", "dst", "pick_stop", "place_stop", "belt"}

\* What a step may do with the control.
ControlStep ==
  \/ UNCHANGED <<call, pc, result>>
  \/ call \in Motions /\ \E n \in 1..Length(call) : Goes(n)
  \/ Ends \/ Fails
  \/ call = "none" /\ call' \in Motions /\ pc' = 1 /\ result' = "none"
  \/ call = "stop" /\ call' = "none" /\ UNCHANGED <<pc, result>>

LEMMA ControlTypes ==
  ASSUME TypeOK, ControlStep
  PROVE  TypesOfControl' /\ ControlOK'
<1>1. /\ call \in {"none", "pick", "home", "belt", "stop"}
      /\ result \in {"none", "ok", "src", "dst", "pick_stop", "place_stop", "belt"}
      /\ call \in Motions => pc \in 1..Length(call)
      /\ call \notin Motions => pc = 1
  BY NowIs DEF TypeOK
<1>2. /\ call' \in {"none", "pick", "home", "belt", "stop"}
      /\ result' \in {"none", "ok", "src", "dst", "pick_stop", "place_stop", "belt"}
      /\ call' \in Motions => pc' \in 1..Length(call')
      /\ call' \notin Motions => pc' = 1
  <2>1. \A c \in Motions : 1 \in 1..Length(c)
    BY DEF Length
  <2>2. QED
    BY <1>1, <2>1 DEF ControlStep, Motions, Goes, Ends, Fails, Errors
<1>3. Running' <=> call' \in Motions
  BY ProgramAt DEF Running, Motions
<1>4. call' \in Motions => Len(Program[call']) = Length(call')
  BY ProgramAt DEF Motions
<1>5. pc' \in 1..(IF Running' THEN Len(Program[call']) ELSE 1)
  <2>1. CASE call' \in Motions
    BY <1>2, <1>3, <1>4, <2>1
  <2>2. CASE call' \notin Motions
    BY <1>2, <1>3, <2>2
  <2>3. QED
    BY <2>1, <2>2
<1>6. TypesOfControl'
  BY <1>2, <1>5 DEF TypesOfControl
<1>7. QED
  BY <1>2, <1>6 DEF ControlOK, Motions

\* Each action moves the control in one of these ways.
LEMMA ControlSteps ==
  ASSUME TypeOK, [Next]_vars
  PROVE  ControlStep
<1>1. Running => call \in Motions /\ pc \in 1..Length(call)
  BY NowIs
<1>2. ASSUME Running, Advance PROVE ControlStep
  <2>1. Length(call) \in Nat
    BY DEF Length
  <2>2. pc < Length(call) => pc + 1 \in 1..Length(call)
    BY <1>1, <1>2, <2>1
  <2>3. QED
    BY <1>1, <1>2, <2>2, Advances DEF ControlStep
<1>3. ASSUME Does(Motors), MotorError PROVE ControlStep
  <2>1. CASE call = "pick" /\ Fails
    BY <2>1 DEF ControlStep
  <2>2. CASE call \in {"home", "belt"} /\ pc \in 1..4 /\ Goes(5)
    <3>1. call \in Motions /\ 5 \in 1..Length(call)
      BY <2>2 DEF Length, Motions
    <3>2. QED
      BY <2>2, <3>1 DEF ControlStep
  <2>3. CASE call = "belt" /\ pc \in 5..8 /\ Goes(9)
    <3>1. call \in Motions /\ 9 \in 1..Length(call)
      BY <2>3 DEF Length, Motions
    <3>2. QED
      BY <2>3, <3>1 DEF ControlStep
  <2>4. CASE call = "home" /\ pc \in 5..8 /\ Ends
    BY <2>4 DEF ControlStep
  <2>5. QED
    BY <1>3, <2>1, <2>2, <2>3, <2>4, MotorErrors
<1>4. ASSUME Does({"poll", "photo"}), Failure PROVE ControlStep
  BY <1>4, Failures DEF ControlStep
<1>5. CASE ServoWrite
  BY <1>2, <1>3, <1>5 DEF ServoWrite, Does, Motors
<1>6. CASE WaitPosition
  BY <1>2, <1>3, <1>6 DEF WaitPosition, Does, Motors
<1>7. CASE Delay
  BY <1>2, <1>4, <1>7 DEF Delay, Does
<1>8. CASE Valve
  BY <1>2, <1>8 DEF Valve, Does
<1>9. CASE ApplyTransfer
  BY <1>2, <1>9 DEF ApplyTransfer, Does
<1>10. CASE StartBelt
  BY <1>2, <1>10 DEF StartBelt, Does
<1>11. CASE WaitPhoto
  BY <1>4, <1>11 DEF WaitPhoto, PhotoFails, Does
<1>12. CASE PhotoTriggered
  BY <1>2, <1>12 DEF PhotoTriggered, Does
<1>13. CASE SafeStop
  BY <1>13 DEF SafeStop, ControlStep
<1>14. CASE BeginPickPlace \/ BeginGoHome \/ BeginConveyor
  BY <1>14 DEF BeginPickPlace, BeginGoHome, BeginConveyor, Begin, ControlStep, Motions
<1>15. CASE NewMatrix \/ RequestEstop \/ RequestClearFault
  BY <1>15 DEF NewMatrix, RequestEstop, RequestClearFault, ControlStep
<1>16. CASE Drives
  BY <1>16 DEF Drives, DriveLeaves, DriveArrives, ControlStep
<1>17. CASE UNCHANGED vars
  BY <1>17 DEF vars, ControlStep
<1>18. QED
  BY <1>5, <1>6, <1>7, <1>8, <1>9, <1>10, <1>11, <1>12, <1>13, <1>14, <1>15, <1>16, <1>17
     DEF Next, Run, Calls

\* A step of the program writes a drive, waits for one, or leaves them alone.
LEMMA ServoSteps ==
  ASSUME TypeOK, [Next]_vars
  PROVE  ServoWrite \/ Drives \/ Slow
<1>1. CASE WaitPosition
  BY <1>1, Waits
<1>2. CASE Delay \/ Valve \/ ApplyTransfer \/ StartBelt \/ WaitPhoto \/ PhotoTriggered
           \/ BeginPickPlace \/ BeginConveyor \/ NewMatrix \/ UNCHANGED vars
  <2>1. UNCHANGED servo
    BY <1>2 DEF Delay, Valve, ApplyTransfer, StartBelt, WaitPhoto, StopBelt, PhotoTriggered,
                BeginPickPlace, BeginConveyor, NewMatrix, vars
  <2>2. QED
    BY <2>1, Slowly
<1>3. CASE SafeStop \/ BeginGoHome \/ RequestEstop \/ RequestClearFault
  BY <1>3, Slowly
<1>4. QED
  BY <1>1, <1>2, <1>3 DEF Next, Run, Calls

\* The outputs: what moves the seedling.
LEMMA Drops ==
  ASSUME TypeOK
  PROVE  /\ Dropped \in {"src", "dst", "lost"}
         /\ seed # "held" => Dropped = seed
BY DEF TypeOK, Dropped

TypesOfOutputs ==
  /\ latch \in BOOLEAN /\ lossy \in BOOLEAN
  /\ z \in BOOLEAN /\ grip \in BOOLEAN
  /\ belt \in SUBSET Belts
  /\ seed \in {"src", "held", "dst", "lost"}
  /\ table \in {"src", "dst"} /\ from \in {"src", "held", "dst", "lost"}

LEMMA OutputTypes ==
  ASSUME TypeOK, [Next]_vars
  PROVE  TypesOfOutputs'
<1> USE DEF TypesOfOutputs
<1>1. TypesOfOutputs /\ Dropped \in {"src", "held", "dst", "lost"}
  BY Drops DEF TypeOK
<1>2. AllSafe => /\ z' \in BOOLEAN /\ grip' \in BOOLEAN /\ belt' \in SUBSET Belts
                 /\ seed' \in {"src", "held", "dst", "lost"}
  BY <1>1 DEF AllSafe
<1>3. CASE ServoWrite \/ WaitPosition \/ Delay \/ UNCHANGED vars \/ Drives
  <2>1. UNCHANGED <<latch, lossy, outputs, table, from>>
    BY <1>3 DEF ServoWrite, WaitPosition, Delay, vars, Drives, DriveLeaves, DriveArrives
  <2>2. QED
    BY <1>1, <2>1 DEF outputs
<1>4. CASE Valve
  <2>1. UNCHANGED <<latch, lossy, table, from>>
    BY <1>4 DEF Valve
  <2>2. SetZ(TRUE) \/ SetZ(FALSE) \/ GripOn \/ GripOff
    BY <1>4 DEF Valve
  <2>3. QED
    BY <1>1, <2>1, <2>2 DEF SetZ, GripOn, GripOff
<1>5. CASE ApplyTransfer
  BY <1>1, <1>5 DEF ApplyTransfer, outputs
<1>6. CASE StartBelt
  <2>1. PICK b \in Belts : belt' = {b}
    BY <1>6 DEF StartBelt
  <2>2. QED
    BY <1>1, <1>6, <2>1 DEF StartBelt
<1>7. CASE WaitPhoto \/ PhotoTriggered
  BY <1>1, <1>7 DEF WaitPhoto, PhotoTriggered, StopBelt
<1>8. CASE SafeStop \/ RequestEstop \/ RequestClearFault
  BY <1>1, <1>2, <1>8 DEF SafeStop, RequestEstop, RequestClearFault
<1>9. CASE BeginPickPlace \/ BeginConveyor
  BY <1>1, <1>9 DEF BeginPickPlace, BeginConveyor, Begin, outputs
<1>10. CASE BeginGoHome
  BY <1>1, <1>2, <1>10 DEF BeginGoHome, Begin
<1>11. CASE NewMatrix
  BY <1>1, <1>11 DEF NewMatrix
<1>12. QED
  BY <1>3, <1>4, <1>5, <1>6, <1>7, <1>8, <1>9, <1>10, <1>11 DEF Next, Run, Calls

LEMMA StartedTypes ==
  ASSUME TypeOK, [Next]_vars
  PROVE  started' \in SUBSET Joints
<1>1. started \in SUBSET Joints
  BY DEF TypeOK
<1>2. CASE ServoWrite
  <2>1. Now.joint \in Joints
    BY <1>2, ServoWrites
  <2>2. QED
    BY <1>1, <1>2, <2>1 DEF ServoWrite
<1>3. CASE WaitPosition \/ Delay \/ Valve \/ ApplyTransfer \/ StartBelt \/ WaitPhoto \/ SafeStop
           \/ PhotoTriggered
  BY <1>1, <1>3 DEF WaitPosition, Delay, Valve, ApplyTransfer, StartBelt, WaitPhoto, StopBelt,
                    SafeStop, PhotoTriggered
<1>4. CASE Calls
  BY <1>1, <1>4 DEF Calls, BeginPickPlace, BeginGoHome, BeginConveyor, NewMatrix, RequestEstop,
                    RequestClearFault
<1>5. CASE Drives \/ UNCHANGED vars
  BY <1>1, <1>5 DEF Drives, DriveLeaves, DriveArrives, vars
<1>6. QED
  BY <1>2, <1>3, <1>4, <1>5 DEF Next, Run

LEMMA ServoTypes ==
  ASSUME TypeOK, [Next]_vars
  PROVE  servo' \in [Joints -> Drive]
BY ServoSteps, ServoWrites, DriveMoves DEF Drives, Slow

LEMMA TypesStep == TypeOK /\ [Next]_vars => TypeOK'
<1> SUFFICES ASSUME TypeOK, [Next]_vars PROVE TypeOK'
  OBVIOUS
<1>1. TypesOfControl'
  BY ControlSteps, ControlTypes
<1>2. QED
  BY <1>1, OutputTypes, StartedTypes, ServoTypes DEF TypeOK, TypesOfControl, TypesOfOutputs

LEMMA InitTypes == Init => TypeOK
<1> SUFFICES ASSUME Init PROVE TypeOK
  OBVIOUS
<1>1. ~Running /\ call = "none" /\ pc = 1
  BY ProgramAt DEF Init, Running
<1>2. servo \in [Joints -> Drive]
  BY DEF Init, Drive, Places
<1>3. lossy \in BOOLEAN
  BY BuildAssumption DEF Init
<1>4. TypesOfControl
  BY <1>1 DEF Init, TypesOfControl
<1>5. TypesOfOutputs
  BY <1>3 DEF Init, TypesOfOutputs
<1>6. started \in SUBSET Joints
  BY DEF Init
<1>7. QED
  BY <1>2, <1>4, <1>5, <1>6 DEF TypeOK, TypesOfControl, TypesOfOutputs

\* Every variable keeps to its values: the program never runs past its end, a
\* motion that failed leaves one of the five errors the code has, and a drive is
\* where a target was or between two (AppArm_PickPlace, AppArm_GoHome and
\* AppConveyor_RunUntilSensor, whichever step fails or is interrupted).
THEOREM TypeCorrect == Spec => []TypeOK
<1>1. Init => TypeOK
  BY InitTypes
<1>2. TypeOK /\ [Next]_vars => TypeOK'
  BY TypesStep
<1>3. QED
  BY <1>1, <1>2, PTL DEF Spec

-----------------------------------------------------------------------------
(***************************************************************************)
(* The motion its caller sees.                                             *)
(***************************************************************************)
Outcome == IF result \in {"none", "ok"} THEN result ELSE "failed"

LEMMA MotionInit == Init => Whole!Init
BY DEF Init, Whole!Init

LEMMA MotionStep ==
  ASSUME TypeOK, [Next]_vars
  PROVE  [Whole!Next]_(Whole!vars)
<1> DEFINE Same == UNCHANGED <<call, result, latch, table>>
<1>1. Same => UNCHANGED Whole!vars
  BY DEF Whole!vars
<1>2. ASSUME call \in Motions, UNCHANGED <<latch, table>>, call # "pick", Ends
      PROVE  Whole!Succeed
  BY <1>2 DEF Whole!Succeed, Ends, Motions
<1>3. ASSUME call \in {"pick", "belt"}, UNCHANGED <<latch, table>>, Fails
      PROVE  Whole!Fail
  BY <1>3 DEF Whole!Fail, Fails, Errors
<1>4. ASSUME NEW n, Goes(n), UNCHANGED <<latch, table>>
      PROVE  UNCHANGED Whole!vars
  BY <1>1, <1>4 DEF Goes
<1>5. ASSUME Running, Advance, UNCHANGED <<latch, table>>, KindAt(call, pc) # "transfer"
      PROVE  Whole!Succeed \/ UNCHANGED Whole!vars
  <2>1. call \in Motions /\ pc \in 1..Length(call)
    BY <1>5, NowIs
  <2>2. CASE Goes(pc + 1)
    BY <1>4, <1>5, <2>2
  <2>3. CASE pc = Length(call) /\ Ends
    <3>1. call # "pick"
      BY <1>5, <2>1, <2>3, Kind DEF Length
    <3>2. QED
      BY <1>2, <1>5, <2>1, <2>3, <3>1
  <2>4. QED
    BY <1>5, <2>2, <2>3, Advances
<1>6. ASSUME Does(Motors), MotorError, UNCHANGED <<latch, table>>
      PROVE  Whole!Succeed \/ Whole!Fail \/ UNCHANGED Whole!vars
  <2>1. CASE call = "pick" /\ Fails
    BY <1>3, <1>6, <2>1
  <2>2. CASE Goes(5) \/ Goes(9)
    BY <1>4, <1>6, <2>2
  <2>3. CASE call = "home" /\ Ends
    BY <1>2, <1>6, <2>3 DEF Motions
  <2>4. QED
    BY <1>6, <2>1, <2>2, <2>3, MotorErrors
<1>7. CASE ServoWrite
  <2>1. Does({"target", "enable", "trigger"})
          /\ UNCHANGED <<latch, table>> /\ (Advance \/ MotorError)
    BY <1>7 DEF ServoWrite
  <2>2. KindAt(call, pc) # "transfer"
    BY <2>1, DoesAt
  <2>3. Running /\ Does(Motors)
    BY <2>1 DEF Does, Motors
  <2>4. QED
    BY <1>5, <1>6, <2>1, <2>2, <2>3 DEF Whole!Next
<1>8. CASE WaitPosition
  <2>1. Does({"wait"}) /\ UNCHANGED <<latch, table>> /\ (Advance \/ MotorError)
    BY <1>8 DEF WaitPosition
  <2>2. KindAt(call, pc) # "transfer"
    BY <2>1, DoesAt
  <2>3. Running /\ Does(Motors)
    BY <2>1 DEF Does, Motors
  <2>4. QED
    BY <1>5, <1>6, <2>1, <2>2, <2>3 DEF Whole!Next
<1>9. CASE Delay
  <2>1. Does({"poll"}) /\ UNCHANGED <<latch, table>> /\ (Advance \/ Failure)
    BY <1>9 DEF Delay
  <2>2. KindAt(call, pc) # "transfer"
    BY <2>1, DoesAt
  <2>3. Running /\ Does({"poll", "photo"})
    BY <2>1 DEF Does
  <2>4. QED
    BY <1>3, <1>5, <2>1, <2>2, <2>3, Failures DEF Whole!Next
<1>10. CASE Valve \/ StartBelt \/ PhotoTriggered
  <2>1. Does({"down", "up", "grip", "release", "start", "photo"})
    BY <1>10 DEF Valve, StartBelt, PhotoTriggered, Does
  <2>2. Running /\ KindAt(call, pc) # "transfer"
    <3>1. KindAt(call, pc) # "transfer"
      BY <2>1, DoesAt
    <3>2. QED
      BY <2>1, <3>1 DEF Does
  <2>3. Advance /\ UNCHANGED <<latch, table>>
    BY <1>10 DEF Valve, StartBelt, PhotoTriggered, StopBelt
  <2>4. QED
    BY <1>5, <2>2, <2>3 DEF Whole!Next
<1>11. CASE ApplyTransfer
  <2>1. /\ Running /\ call = "pick" /\ pc = 32
        /\ Advance /\ table' = "dst" /\ UNCHANGED latch
    BY <1>11, DoesAt, Kind DEF ApplyTransfer, Does
  <2>2. Ends
    BY <2>1, Advances DEF Length
  <2>3. Whole!Succeed
    BY <2>1, <2>2 DEF Whole!Succeed, Ends
  <2>4. QED
    BY <2>3 DEF Whole!Next
<1>12. CASE WaitPhoto
  <2>1. Does({"poll", "photo"}) /\ Failure /\ UNCHANGED <<latch, table>>
    BY <1>12 DEF WaitPhoto, PhotoFails, StopBelt, Does
  <2>2. QED
    BY <1>3, <2>1, Failures DEF Whole!Next
<1>13. CASE SafeStop
  <2>1. Whole!SafeStop
    BY <1>13 DEF SafeStop, Whole!SafeStop
  <2>2. QED
    BY <2>1 DEF Whole!Next
<1>14. CASE BeginPickPlace \/ BeginGoHome \/ BeginConveyor
  <2>1. \E c \in {"pick", "home", "belt"} : Whole!Begin(c)
    BY <1>14 DEF BeginPickPlace, BeginGoHome, BeginConveyor, Begin, Whole!Begin
  <2>2. QED
    BY <2>1 DEF Whole!Next
<1>15. CASE NewMatrix
  <2>1. Whole!NewMatrix
    BY <1>15 DEF NewMatrix, Whole!NewMatrix
  <2>2. QED
    BY <2>1 DEF Whole!Next
<1>16. CASE RequestEstop
  <2>1. Whole!Stop
    BY <1>16 DEF RequestEstop, Whole!Stop
  <2>2. QED
    BY <2>1 DEF Whole!Next
<1>17. CASE RequestClearFault
  <2>1. Whole!Clear
    BY <1>17 DEF RequestClearFault, Whole!Clear
  <2>2. QED
    BY <2>1 DEF Whole!Next
<1>18. CASE Drives \/ UNCHANGED vars
  BY <1>1, <1>18 DEF Drives, DriveLeaves, DriveArrives, vars
<1>19. QED
  BY <1>7, <1>8, <1>9, <1>10, <1>11, <1>12, <1>13, <1>14, <1>15, <1>16, <1>17, <1>18
     DEF Next, Run, Calls

\* Whatever fails in a motion, is lost on the bus or interrupts it, its caller sees
\* one step that succeeds or fails, with the transfer in the table exactly when it
\* succeeds (run_flag2_once, run_flag3_once and run_conveyor_flag of app_sort.c look at
\* nothing but the result).
THEOREM MotionIsOneCall == Spec => IsMotionCall
<1>1. Init => Whole!Init
  BY MotionInit
<1>2. TypeOK /\ [Next]_vars => [Whole!Next]_(Whole!vars)
  BY MotionStep
<1>3. QED
  BY <1>1, <1>2, TypeCorrect, PTL DEF Spec, IsMotionCall, Whole!Spec

-----------------------------------------------------------------------------
(***************************************************************************)
(* The drives of the invariant.                                            *)
(***************************************************************************)
LEMMA HonestStep ==
  ASSUME TypeOK, HonestDrives, [Next]_vars
  PROVE  HonestDrives'
<1> DEFINE Honest(d) == (d.reached => d.pos = d.target) /\ (d.moving => d.enabled /\ ~d.estop)
<1>1. servo \in [Joints -> Drive] /\ \A j \in Joints : Honest(servo[j])
  BY DEF TypeOK, HonestDrives
<1>2. SUFFICES ASSUME NEW j \in Joints PROVE Honest(servo'[j])
  BY DEF HonestDrives
<1>3. servo[j] \in Drive /\ Honest(servo[j])
  BY <1>1
<1>4. CASE Slow
  BY <1>3, <1>4 DEF Slow, Slowed
<1>5. CASE ServoWrite
  <2>1. Now.do \in {"target", "enable", "trigger"} /\ Now.to \in Places
    BY <1>5, ServoWrites DEF ServoWrite, Does
  <2>2. servo'[j] \in {servo[j], Written(servo[j], Now)}
    BY <1>5, ServoWrites
  <2>3. Honest(Written(servo[j], Now))
    <3>1. CASE Now.do = "target"
      BY <1>3, <2>1, <3>1, Writes
    <3>2. CASE Now.do = "enable"
      BY <1>3, <2>1, <3>2, Writes
    <3>3. CASE Now.do = "trigger"
      BY <1>3, <2>1, <3>3, Writes
    <3>4. QED
      BY <2>1, <3>1, <3>2, <3>3
  <2>4. QED
    BY <1>3, <2>2, <2>3
<1>6. CASE Drives
  <2>1. PICK k \in Joints : DriveLeaves(k) \/ DriveArrives(k)
    BY <1>6 DEF Drives
  <2>2. QED
    BY <1>1, <1>3, <2>1, DriveMoves
<1>7. QED
  BY <1>4, <1>5, <1>6, ServoSteps

\* The steps of a servo follow each other.
LEMMA Following ==
  ASSUME NEW c \in Motions, NEW n \in 1..Length(c), n + 1 <= Length(c),
         KindAt(c, n + 1) \in {"enable", "trigger", "wait"}
  PROVE  /\ JointAt(n + 1) = JointAt(n) /\ PlaceAt(c, n + 1) = PlaceAt(c, n)
         /\ KindAt(c, n + 1) = "enable" => KindAt(c, n) = "target"
         /\ KindAt(c, n + 1) = "trigger" => KindAt(c, n) = "enable"
         /\ KindAt(c, n + 1) = "wait" => KindAt(c, n) = "trigger"
<1> USE DEF Motions, Length, KindAt, JointAt, PlaceAt
<1>1. CASE c = "pick"
  BY <1>1 DEF PickKind
<1>2. CASE c = "home"
  BY <1>2 DEF HomeKind
<1>3. CASE c = "belt"
  BY <1>3 DEF HomeKind
<1>4. QED
  BY <1>1, <1>2, <1>3

LEMMA Restarting ==
  /\ \A c \in Motions : KindAt(c, 1) = "target"
  /\ \A c \in {"home", "belt"} : KindAt(c, 5) = "target"
  /\ KindAt("belt", 9) = "start"
BY DEF KindAt, PickKind, HomeKind, Motions

\* A step of the program that wrote its servo leads to the next step; in no other
\* way does the program come to the enabling, the trigger or the wait of a servo.
ServoGoes ==
  /\ ServoWrite /\ Goes(pc + 1) /\ pc + 1 <= Length(call)
  /\ servo'[Now.joint] = Written(servo[Now.joint], Now)

LEMMA Coming ==
  ASSUME TypeOK, [Next]_vars
  PROVE  \/ UNCHANGED <<call, pc>> /\ ~Run /\ ~PhotoTriggered
         \/ ServoGoes
         \/ ~Does({"enable", "trigger", "wait"})'
<1> DEFINE S == {"enable", "trigger", "wait"}
<1>0. Does(S)' <=> call' \in Motions /\ KindAt(call', pc') \in S
  BY ControlSteps, ControlTypes, DoesNext
<1>1. ASSUME call' \notin Motions PROVE ~Does(S)'
  BY <1>0, <1>1
<1>2. ASSUME Running, Advance, KindAt(call, pc) \notin {"target", "enable", "trigger"}
      PROVE  ~Does(S)'
  <2>1. call \in Motions /\ pc \in 1..Length(call)
    BY <1>2, NowIs
  <2>2. CASE Ends
    BY <1>1, <2>2 DEF Ends, Motions
  <2>3. CASE pc < Length(call) /\ Goes(pc + 1)
    <3>1. pc + 1 <= Length(call)
      BY <2>1, <2>3 DEF Length
    <3>2. KindAt(call, pc + 1) \notin S
      BY <1>2, <2>1, <3>1, Following
    <3>3. QED
      BY <1>0, <2>3, <3>2 DEF Goes
  <2>4. QED
    BY <1>2, <2>2, <2>3, Advances
<1>3. ASSUME Does(Motors), MotorError PROVE ~Does(S)'
  <2>1. CASE Fails \/ Ends
    BY <1>1, <2>1 DEF Fails, Ends, Motions
  <2>2. CASE call \in {"home", "belt"} /\ Goes(5)
    BY <1>0, <2>2, Restarting DEF Goes
  <2>3. CASE call = "belt" /\ Goes(9)
    BY <1>0, <2>3, Restarting DEF Goes
  <2>4. QED
    BY <1>3, <2>1, <2>2, <2>3, MotorErrors
<1>4. ASSUME Does({"poll", "photo"}), Failure PROVE ~Does(S)'
  BY <1>1, <1>4, Failures DEF Fails, Motions
<1>5. CASE ServoWrite
  <2>1. Does({"target", "enable", "trigger"})
    BY <1>5 DEF ServoWrite
  <2>2. Running /\ Does(Motors)
    BY <2>1 DEF Does, Motors
  <2>3. CASE MotorError
    BY <1>3, <2>2, <2>3
  <2>4. CASE Advance /\ servo'[Now.joint] = Written(servo[Now.joint], Now)
    <3>1. /\ call \in Motions /\ pc \in 1..Length(call)
          /\ KindAt(call, pc) \in {"target", "enable", "trigger"}
      BY <2>1, DoesAt
    <3>2. pc + 1 \in 1..Length(call)
      BY <3>1, Kind
    <3>3. Goes(pc + 1)
      BY <2>2, <2>4, <3>1, <3>2, Advances DEF Length
    <3>4. QED
      BY <1>5, <2>4, <3>2, <3>3 DEF ServoGoes, Length
  <2>5. QED
    BY <1>5, <2>3, <2>4, ServoWrites
<1>6. CASE WaitPosition
  <2>1. Does({"wait"}) /\ (MotorError \/ Advance)
    BY <1>6 DEF WaitPosition
  <2>2. KindAt(call, pc) = "wait"
    BY <2>1, DoesAt
  <2>3. Running /\ Does(Motors)
    BY <2>1 DEF Does, Motors
  <2>4. QED
    BY <1>2, <1>3, <2>1, <2>2, <2>3
<1>7. CASE Delay
  <2>1. Does({"poll"}) /\ (Failure \/ Advance)
    BY <1>7 DEF Delay
  <2>2. KindAt(call, pc) = "poll"
    BY <2>1, DoesAt
  <2>3. Running /\ Does({"poll", "photo"})
    BY <2>1 DEF Does
  <2>4. QED
    BY <1>2, <1>4, <2>1, <2>2, <2>3
<1>8. CASE Valve \/ ApplyTransfer \/ StartBelt \/ PhotoTriggered
  <2>1. Does({"down", "up", "grip", "release", "transfer", "start", "photo"}) /\ Advance
    BY <1>8 DEF Valve, ApplyTransfer, StartBelt, PhotoTriggered, Does
  <2>2. KindAt(call, pc) \in {"down", "up", "grip", "release", "transfer", "start", "photo"}
    BY <2>1, DoesAt
  <2>3. Running
    BY <2>1 DEF Does
  <2>4. QED
    BY <1>2, <2>1, <2>2, <2>3
<1>9. CASE WaitPhoto
  <2>1. Does({"poll", "photo"}) /\ Failure
    BY <1>9 DEF WaitPhoto, PhotoFails, Does
  <2>2. QED
    BY <1>4, <2>1
<1>10. CASE SafeStop
  BY <1>1, <1>10 DEF SafeStop, Motions
<1>11. CASE BeginPickPlace \/ BeginGoHome \/ BeginConveyor
  <2>1. call' \in Motions /\ pc' = 1
    BY <1>11 DEF BeginPickPlace, BeginGoHome, BeginConveyor, Begin, Motions
  <2>2. QED
    BY <1>0, <2>1, Restarting
<1>12. CASE ~Run /\ ~PhotoTriggered
        /\ (NewMatrix \/ RequestEstop \/ RequestClearFault \/ Drives \/ UNCHANGED vars)
  BY <1>12 DEF NewMatrix, RequestEstop, RequestClearFault, Drives, DriveLeaves,
               DriveArrives, vars
<1>13. QED
  BY <1>5, <1>6, <1>7, <1>8, <1>9, <1>10, <1>11, <1>12 DEF Next, Run, Calls

LEMMA CommandedStep ==
  ASSUME TypeOK, HonestDrives, Commanded, [Next]_vars
  PROVE  Commanded'
<1> DEFINE S == {"enable", "trigger", "wait"}
           W == {"wait"}
<1>1. ControlOK' /\ servo \in [Joints -> Drive] /\ servo' \in [Joints -> Drive]
  BY ControlSteps, ControlTypes, ServoTypes DEF TypeOK
<1>2. /\ Does(S)' <=> call' \in Motions /\ KindAt(call', pc') \in S
      /\ Does(W)' <=> call' \in Motions /\ KindAt(call', pc') \in W
      /\ call' \in Motions => IsStep(Now', call', pc')
  BY <1>1, DoesNext
<1>3. CASE ~Does(S)'
  BY <1>2, <1>3 DEF Commanded
<1>4. CASE UNCHANGED <<call, pc>> /\ ~Run
  <2>1. Now' = Now /\ Does(S)' = Does(S) /\ Does(W)' = Does(W)
    BY <1>4 DEF Now, Does, Running
  <2>0. Does(W) => Does(S)
    BY DEF Does
  <2>2. SUFFICES ASSUME Does(S)
                 PROVE  /\ servo'[Now.joint].target = Now.to
                        /\ Does(W) /\ servo'[Now.joint].moving => servo'[Now.joint].pos # Now.to
    BY <2>0, <2>1, Zenon DEF Commanded
  <2>3. Now.joint \in Joints /\ Now.to \in Places
    <3>1. call \in Motions /\ pc \in 1..Length(call)
            /\ IsStep(Now, call, pc) /\ KindAt(call, pc) \in S
      BY <2>2, DoesAt
    <3>2. QED
      BY <3>1, Kind DEF IsStep, Motors
  <2>4. /\ servo[Now.joint].target = Now.to
        /\ Does(W) /\ servo[Now.joint].moving => servo[Now.joint].pos # Now.to
    BY <2>2 DEF Commanded
  <2>5. CASE Slow
    BY <2>3, <2>4, <2>5 DEF Slow, Slowed
  <2>6. CASE Drives
    <3>1. PICK k \in Joints : DriveLeaves(k) \/ DriveArrives(k)
      BY <2>6 DEF Drives
    <3>2. CASE k = Now.joint
      BY <2>3, <2>4, <3>1, <3>2, DriveMoves DEF Places
    <3>3. CASE k # Now.joint
      BY <2>3, <2>4, <3>1, <3>3, DriveMoves
    <3>4. QED
      BY <3>2, <3>3
  <2>7. QED
    BY <1>4, <2>5, <2>6, ServoSteps DEF Run
<1>5. CASE ServoGoes
  <2> DEFINE j == Now.joint
             d == servo[j]
             e == servo'[j]
  <2>1. Does({"target", "enable", "trigger"})
    BY <1>5 DEF ServoGoes, ServoWrite
  <2>2. /\ call \in Motions /\ pc \in 1..Length(call) /\ IsStep(Now, call, pc)
        /\ KindAt(call, pc) \in {"target", "enable", "trigger"}
    BY <2>1, DoesAt
  <2>3. /\ Now.do = KindAt(call, pc) /\ j = JointAt(pc) /\ Now.to = PlaceAt(call, pc)
    BY <2>2 DEF IsStep, Motors
  <2>4. j \in Joints /\ Now.to \in Places /\ d \in Drive
    BY <1>1, <2>2, <2>3, Kind DEF Motors
  <2>5. call' = call /\ pc' = pc + 1 /\ pc + 1 <= Length(call)
    BY <1>5 DEF ServoGoes, Goes
  <2>6. SUFFICES ASSUME Does(S)' PROVE Commanded'
    BY <1>3
  <2>7. /\ call' \in Motions /\ KindAt(call', pc') \in S
        /\ Now'.joint = JointAt(pc') /\ Now'.to = PlaceAt(call', pc')
    BY <1>2, <2>6 DEF IsStep, Motors
  <2>8. /\ Now'.joint = j /\ Now'.to = Now.to
        /\ KindAt(call', pc') = "enable" => Now.do = "target"
        /\ KindAt(call', pc') = "trigger" => Now.do = "enable"
        /\ KindAt(call', pc') = "wait" => Now.do = "trigger"
    BY <2>2, <2>3, <2>5, <2>7, Following
  <2>9. e = Written(d, Now)
    BY <1>5 DEF ServoGoes
  <2>10. Now.do \in {"enable", "trigger"} => d.target = Now.to
    <3>1. Now.do \in {"enable", "trigger"} => Does(S)
      BY <2>1 DEF Does
    <3>2. QED
      BY <3>1 DEF Commanded
  <2>11. (d.moving => d.enabled /\ ~d.estop)
    BY <2>4 DEF HonestDrives
  <2>12. e.target = Now.to /\ (KindAt(call', pc') = "wait" /\ e.moving => e.pos # Now.to)
    <3>1. CASE Now.do = "target"
      BY <2>4, <2>8, <2>9, <3>1, Writes
    <3>2. CASE Now.do = "enable"
      BY <2>4, <2>8, <2>9, <2>10, <3>2, Writes
    <3>3. CASE Now.do = "trigger"
      <4>1. CASE d.enabled /\ ~d.estop
        BY <2>4, <2>9, <2>10, <3>3, <4>1, Writes
      <4>2. CASE ~(d.enabled /\ ~d.estop)
        BY <2>4, <2>9, <2>10, <2>11, <3>3, <4>2, Writes
      <4>3. QED
        BY <4>1, <4>2
    <3>4. QED
      BY <2>2, <2>3, <3>1, <3>2, <3>3
  <2>13. servo'[Now'.joint] = e
    BY <2>8
  <2> HIDE DEF j, d, e
  <2>14. QED
    BY <1>2, <2>8, <2>12, <2>13 DEF Commanded
<1>6. QED
  BY <1>3, <1>4, <1>5, Coming

\* A wait that ends well leaves its drive where it was sent, and at rest.
LEMMA WaitEnds ==
  ASSUME TypeOK, HonestDrives, Commanded, WaitPosition,
         Arrived(servo[Now.joint], Now)
  PROVE  /\ Now.joint \in Joints
         /\ servo'[Now.joint].pos = Now.to /\ ~servo'[Now.joint].moving
<1>1. Now.joint \in Joints /\ Slowed(servo[Now.joint], servo'[Now.joint])
  BY Waits DEF Slow
<1>2. Does({"wait"}) /\ Does({"enable", "trigger", "wait"})
  BY DEF WaitPosition, Does
<1>3. /\ servo[Now.joint].target = Now.to
      /\ servo[Now.joint].moving => servo[Now.joint].pos # Now.to
  BY <1>2 DEF Commanded
<1>4. servo[Now.joint].pos = Now.to
  BY <1>1, <1>3 DEF HonestDrives, Arrived
<1>5. QED
  BY <1>1, <1>3, <1>4 DEF Slowed

\* How the program of a transfer comes to a place where joint j is parked at p: it
\* was parked before, and is not written now, or the wait for it ended well.
LEMMA Parking ==
  ASSUME NEW n \in 1..32, NEW j \in Joints, NEW p \in {"src", "dst"}, n + 1 \in Parked(j, p)
  PROVE  \/ /\ n \in Parked(j, p)
            /\ KindAt("pick", n) \in {"target", "enable", "trigger"} => JointAt(n) # j
         \/ KindAt("pick", n) = "wait" /\ JointAt(n) = j /\ PlaceAt("pick", n) = p
<1> USE DEF Parked, KindAt, PickKind, JointAt, PlaceAt
<1>1. CASE j = 1 /\ p = "src"
  BY <1>1
<1>2. CASE j = 2 /\ p = "src"
  BY <1>2
<1>3. CASE j = 1 /\ p = "dst"
  BY <1>3
<1>4. CASE j = 2 /\ p = "dst"
  BY <1>4
<1>5. QED
  BY <1>1, <1>2, <1>3, <1>4 DEF Joints

\* Inside a transfer the program stays where it is or goes on by one step.
LEMMA InTransfer ==
  ASSUME TypeOK, [Next]_vars, call' = "pick"
  PROVE  \/ UNCHANGED <<call, pc>> /\ ~Run /\ ~PhotoTriggered
         \/ call = "none" /\ pc' = 1 /\ BeginPickPlace
         \/ call = "pick" /\ pc \in 1..32 /\ pc' = pc + 1 /\ Run
<1>1. ASSUME Running, Advance, call' = "pick"
      PROVE  call = "pick" /\ pc \in 1..32 /\ pc' = pc + 1
  BY <1>1, NowIs, Advances DEF Goes, Ends, Length
<1>2. ASSUME Does(Motors), MotorError PROVE call' # "pick"
  BY <1>2, MotorErrors DEF Fails, Ends, Goes
<1>3. ASSUME Does({"poll", "photo"}), Failure PROVE call' # "pick"
  BY <1>3, Failures DEF Fails
<1>4. CASE ServoWrite
  <2>1. Does(Motors) /\ Running /\ (Advance \/ MotorError)
    BY <1>4 DEF ServoWrite, Does, Motors
  <2>2. QED
    BY <1>1, <1>2, <1>4, <2>1 DEF Run
<1>5. CASE WaitPosition
  <2>1. Does(Motors) /\ Running /\ (Advance \/ MotorError)
    BY <1>5 DEF WaitPosition, Does, Motors
  <2>2. QED
    BY <1>1, <1>2, <1>5, <2>1 DEF Run
<1>6. CASE Delay
  <2>1. Does({"poll", "photo"}) /\ Running /\ (Advance \/ Failure)
    BY <1>6 DEF Delay, Does
  <2>2. QED
    BY <1>1, <1>3, <1>6, <2>1 DEF Run
<1>7. CASE Valve \/ ApplyTransfer \/ StartBelt
  <2>1. Running /\ Advance
    BY <1>7 DEF Valve, ApplyTransfer, StartBelt, Does
  <2>2. QED
    BY <1>1, <1>7, <2>1 DEF Run
<1>8. CASE WaitPhoto
  <2>1. Does({"poll", "photo"}) /\ Failure
    BY <1>8 DEF WaitPhoto, PhotoFails, Does
  <2>2. QED
    BY <1>3, <2>1
<1>9. CASE PhotoTriggered
  <2>1. Does({"photo"}) /\ Advance
    BY <1>9 DEF PhotoTriggered
  <2>2. call = "belt"
    BY <2>1, DoesAt, Kind
  <2>3. QED
    BY <1>1, <2>1, <2>2 DEF Does
<1>10. CASE SafeStop
  BY <1>10 DEF SafeStop
<1>11. CASE BeginPickPlace \/ BeginGoHome \/ BeginConveyor
  BY <1>11 DEF BeginPickPlace, BeginGoHome, BeginConveyor, Begin
<1>12. CASE ~Run /\ ~PhotoTriggered
        /\ (NewMatrix \/ RequestEstop \/ RequestClearFault \/ Drives \/ UNCHANGED vars)
  BY <1>12 DEF NewMatrix, RequestEstop, RequestClearFault, Drives, DriveLeaves,
               DriveArrives, vars
<1>13. QED
  BY <1>4, <1>5, <1>6, <1>7, <1>8, <1>9, <1>10, <1>11, <1>12 DEF Next, Run, Calls

LEMMA InPlaceStep ==
  ASSUME TypeOK, HonestDrives, Commanded, InPlace, [Next]_vars
  PROVE  InPlace'
<1>1. SUFFICES ASSUME call' = "pick", NEW j \in Joints,
        NEW p \in {"src", "dst"}, pc' \in Parked(j, p)
               PROVE  servo'[j].pos = p /\ ~servo'[j].moving
  BY DEF InPlace
<1>2. ASSUME call = "pick", pc \in Parked(j, p) PROVE servo[j].pos = p /\ ~servo[j].moving
  BY <1>2 DEF InPlace
<1>3. CASE UNCHANGED <<call, pc>> /\ ~Run
  <2>1. servo[j].pos = p /\ ~servo[j].moving
    BY <1>1, <1>2, <1>3
  <2>2. CASE Slow
    BY <2>1, <2>2 DEF Slow, Slowed
  <2>3. CASE Drives
    <3>1. PICK k \in Joints : DriveLeaves(k) \/ DriveArrives(k)
      BY <2>3 DEF Drives
    <3>2. k # j
      BY <2>1, <3>1, DriveMoves
    <3>3. QED
      BY <2>1, <3>1, <3>2, DriveMoves
  <2>4. QED
    BY <1>3, <2>2, <2>3, ServoSteps DEF Run
<1>4. CASE BeginPickPlace /\ pc' = 1
  BY <1>1, <1>4 DEF Parked, Joints
<1>5. CASE call = "pick" /\ pc \in 1..32 /\ pc' = pc + 1 /\ Run
  <2>0. ~Drives
    <3>1. pc' # pc
      BY <1>5
    <3>2. QED
      BY <3>1 DEF Drives, DriveLeaves, DriveArrives
  <2>1. \/ /\ pc \in Parked(j, p)
           /\ KindAt("pick", pc) \in {"target", "enable", "trigger"} => JointAt(pc) # j
        \/ KindAt("pick", pc) = "wait" /\ JointAt(pc) = j /\ PlaceAt("pick", pc) = p
    BY <1>1, <1>5, Parking
  <2>2. IsStep(Now, "pick", pc) /\ Running
    BY <1>5, NowIs DEF Motions
  <2>3. CASE KindAt("pick", pc) \in {"target", "enable", "trigger"}
    <3>1. pc \in Parked(j, p) /\ JointAt(pc) # j /\ Now.joint = JointAt(pc)
      BY <2>1, <2>2, <2>3 DEF IsStep, Motors
    <3>2. CASE ServoWrite
      <4>1. servo'[j] = servo[j]
        BY <3>1, <3>2, ServoWrites
      <4>2. QED
        BY <1>2, <1>5, <3>1, <4>1
    <3>3. CASE Slow
      BY <1>2, <1>5, <3>1, <3>3 DEF Slow, Slowed
    <3>4. QED
      BY <2>0, <3>2, <3>3, ServoSteps
  <2>4. CASE KindAt("pick", pc) \notin {"target", "enable", "trigger"}
    <3>1. ~ServoWrite
      BY <2>2, <2>4 DEF IsStep, ServoWrite, Does
    <3>2. Slow
      BY <2>0, <3>1, ServoSteps
    <3>3. CASE pc \in Parked(j, p)
      BY <1>2, <1>5, <3>2, <3>3 DEF Slow, Slowed
    <3>4. CASE KindAt("pick", pc) = "wait" /\ JointAt(pc) = j /\ PlaceAt("pick", pc) = p
      <4>1. Now.do = "wait" /\ Now.joint = j /\ Now.to = p
        BY <2>2, <3>4 DEF IsStep, Motors
      <4>2. WaitPosition
        BY <1>1, <1>5, <4>1 DEF Run, ServoWrite, Delay, Valve, ApplyTransfer, StartBelt,
                                WaitPhoto,
                           SafeStop, Does
      <4>3. ~MotorError
        BY <1>1, <4>1, <4>2, MotorErrors DEF Fails, WaitPosition, Does, Motors, Ends, Goes
      <4>4. Arrived(servo[Now.joint], Now)
        BY <4>2, <4>3, Waits
      <4>5. QED
        BY <4>1, <4>2, <4>4, WaitEnds
    <3>5. QED
      BY <2>1, <3>3, <3>4
  <2>5. QED
    BY <2>3, <2>4
<1>6. QED
  BY <1>1, <1>3, <1>4, <1>5, InTransfer

LEMMA TriggerThenWait ==
  ASSUME NEW c \in Motions, NEW n \in 1..Length(c), KindAt(c, n) = "trigger"
  PROVE  n + 1 \in 1..Length(c) /\ KindAt(c, n + 1) = "wait" /\ JointAt(n + 1) = JointAt(n)
<1> USE DEF Motions, Length, KindAt, JointAt
<1>1. CASE c = "pick"
  BY <1>1 DEF PickKind
<1>2. CASE c = "home"
  BY <1>2 DEF HomeKind
<1>3. CASE c = "belt"
  BY <1>3 DEF HomeKind
<1>4. QED
  BY <1>1, <1>2, <1>3

LEMMA MovesInWaitStep ==
  ASSUME TypeOK, MovesInWait, [Next]_vars
  PROVE  MovesInWait'
<1> DEFINE W == {"wait"}
<1>1. UNCHANGED lossy
  BY DEF Next, Run, Calls, vars, ServoWrite, WaitPosition, Delay, Valve, ApplyTransfer,
         StartBelt,
         WaitPhoto, StopBelt, SafeStop, PhotoTriggered, BeginPickPlace, BeginGoHome,
         BeginConveyor,
         NewMatrix, RequestEstop, RequestClearFault, Drives, DriveLeaves, DriveArrives
<1>2. SUFFICES ASSUME ~lossy, NEW j \in Joints, servo'[j].moving
               PROVE  Does(W)' /\ Now'.joint = j
  BY <1>1 DEF MovesInWait
<1>3. servo[j].moving => Does(W) /\ Now.joint = j
  BY <1>2 DEF MovesInWait
<1>4. ControlOK' /\ servo \in [Joints -> Drive]
  BY ControlSteps, ControlTypes DEF TypeOK
<1>5. UNCHANGED <<call, pc>> => Now' = Now /\ Does(W)' = Does(W)
  BY DEF Now, Does, Running
<1>6. CASE ServoWrite
  <2>1. Does({"target", "enable", "trigger"}) /\ ~Does(W)
    BY <1>6 DEF ServoWrite, Does
  <2>2. ~servo[j].moving
    BY <1>3, <2>1
  <2>3. /\ call \in Motions /\ pc \in 1..Length(call) /\ IsStep(Now, call, pc)
        /\ KindAt(call, pc) \in {"target", "enable", "trigger"}
    BY <2>1, DoesAt
  <2>4. Now.do = KindAt(call, pc) /\ Now.joint = JointAt(pc)
    BY <2>3 DEF IsStep, Motors
  <2>5. Now.joint = j /\ servo'[j] = Written(servo[j], Now) /\ Advance
    BY <1>2, <1>6, <2>2, ServoWrites
  <2>6. Now.do = "trigger"
    <3>1. Now.to \in Places /\ servo[j] \in Drive
      BY <1>4, <1>6, ServoWrites
    <3>2. QED
      BY <1>2, <2>2, <2>3, <2>4, <2>5, <3>1, Writes
  <2>7. pc + 1 \in 1..Length(call) /\ KindAt(call, pc + 1) = "wait"
          /\ JointAt(pc + 1) = JointAt(pc)
    BY <2>3, <2>4, <2>6, TriggerThenWait
  <2>8. call' = call /\ pc' = pc + 1
    <3>1. Running
      BY <2>1 DEF Does
    <3>2. QED
      BY <2>3, <2>5, <2>7, <3>1, Advances DEF Goes, Length
  <2>9. Does(W)' /\ IsStep(Now', call', pc')
    BY <1>4, <2>3, <2>7, <2>8, DoesNext
  <2>10. QED
    BY <2>4, <2>5, <2>7, <2>8, <2>9 DEF IsStep, Motors
<1>7. CASE WaitPosition
  BY <1>2, <1>3, <1>7, Waits
<1>8. CASE Drives
  <2>1. UNCHANGED <<call, pc>>
    BY <1>8 DEF Drives, DriveLeaves, DriveArrives
  <2>2. servo[j].moving
    <3>1. PICK k \in Joints : DriveLeaves(k) \/ DriveArrives(k)
      BY <1>8 DEF Drives
    <3>2. QED
      BY <1>2, <3>1, DriveMoves
  <2>3. QED
    BY <1>3, <1>5, <2>1, <2>2
<1>9. CASE Slow
  <2>1. servo[j].moving
    BY <1>2, <1>9 DEF Slow, Slowed
  <2>2. Does(W) /\ Now.joint = j
    BY <1>3, <2>1
  <2>3. call \in Motions
    BY <2>2, DoesAt
  <2>4. \/ ServoWrite \/ WaitPosition \/ UNCHANGED <<call, pc>>
    BY <2>2, <2>3 DEF Next, Run, Calls, vars, Delay, Valve, ApplyTransfer, StartBelt, WaitPhoto,
       SafeStop, PhotoTriggered, BeginPickPlace, BeginGoHome, BeginConveyor, Begin, NewMatrix,
       RequestEstop, RequestClearFault, Drives, DriveLeaves, DriveArrives, Does, Motions
  <2>5. QED
    BY <1>5, <1>6, <1>7, <2>2, <2>4
<1>10. QED
  BY <1>6, <1>8, <1>9, ServoSteps

-----------------------------------------------------------------------------
(***************************************************************************)
(* The outputs and the seedling.                                           *)
(***************************************************************************)

\* What a step does to the outputs, by where the program is.
MotorStep ==
  /\ call \in Motions /\ KindAt(call, pc) \in Motors
  /\ UNCHANGED <<latch, outputs, table, from>>
  /\ IF call = "pick" THEN Goes(pc + 1) \/ Fails ELSE call' \in {"home", "belt", "none"}

PollStep ==
  /\ call = "pick" /\ KindAt(call, pc) = "poll"
  /\ UNCHANGED <<latch, outputs, table, from>>
  /\ IF latch THEN Fails ELSE Goes(pc + 1)

ValveStep ==
  /\ call = "pick" /\ Goes(pc + 1)
  /\ UNCHANGED <<latch, table, from>>
  /\ \/ pc \in {10, 26} /\ SetZ(TRUE)
     \/ pc \in {14, 30} /\ SetZ(FALSE)
     \/ pc = 12 /\ GripOn
     \/ pc = 28 /\ GripOff

TransferStep ==
  /\ call = "pick" /\ pc = 32 /\ Ends
  /\ table' = "dst" /\ UNCHANGED <<latch, outputs, from>>

BeltStep ==
  /\ call = "belt" /\ UNCHANGED <<latch, z, grip, seed, table, from>>
  /\ \/ pc = 9 /\ Goes(10)
     \/ pc = 10 /\ belt' = {} /\ (Fails \/ Ends)

QuietStep == UNCHANGED <<call, pc, latch, outputs, table, from>>

LEMMA Effects ==
  ASSUME TypeOK, [Next]_vars
  PROVE  \/ MotorStep \/ PollStep \/ ValveStep \/ TransferStep \/ BeltStep \/ QuietStep
         \/ SafeStop \/ BeginPickPlace \/ BeginGoHome \/ BeginConveyor \/ NewMatrix
         \/ RequestEstop \/ RequestClearFault
<1>1. CASE ServoWrite \/ WaitPosition
  <2>1. Does(Motors) /\ Running /\ (Advance \/ MotorError)
          /\ UNCHANGED <<latch, outputs, table, from>>
    BY <1>1 DEF ServoWrite, WaitPosition, Does, Motors
  <2>2. call \in Motions /\ pc \in 1..Length(call) /\ KindAt(call, pc) \in Motors
    BY <2>1, DoesAt
  <2>3. CASE MotorError
    BY <2>1, <2>2, <2>3, MotorErrors DEF MotorStep, Goes, Ends
  <2>4. CASE Advance /\ call = "pick"
    <3>1. pc # 32
      BY <2>2, <2>4 DEF KindAt, PickKind, Motors
    <3>2. Goes(pc + 1)
      BY <2>1, <2>4, <3>1, Advances DEF Length
    <3>3. QED
      BY <2>1, <2>2, <2>4, <3>2 DEF MotorStep
  <2>5. CASE Advance /\ call # "pick"
    <3>1. call' \in {"home", "belt", "none"}
      BY <2>1, <2>2, <2>5, Advances DEF Goes, Ends, Motions
    <3>2. QED
      BY <2>1, <2>2, <2>5, <3>1 DEF MotorStep
  <2>6. QED
    BY <2>1, <2>3, <2>4, <2>5
<1>2. CASE Delay
  <2>1. Does({"poll"}) /\ UNCHANGED <<latch, outputs, table, from>>
    BY <1>2 DEF Delay
  <2>2. call = "pick" /\ pc \in 1..32 /\ KindAt(call, pc) = "poll"
    <3>1. call \in Motions /\ pc \in 1..Length(call) /\ KindAt(call, pc) = "poll"
      BY <2>1, DoesAt
    <3>2. QED
      BY <3>1, Kind DEF Length
  <2>3. CASE latch
    <3>1. Does({"poll", "photo"}) /\ Failure
      BY <1>2, <2>1, <2>3 DEF Delay, PollEscalate, Does
    <3>2. QED
      BY <2>1, <2>2, <2>3, <3>1, Failures DEF PollStep
  <2>4. CASE ~latch
    <3>1. Running /\ Advance /\ pc # 32
      BY <1>2, <2>1, <2>2, <2>4 DEF Delay, PollEscalate, Does, KindAt, PickKind
    <3>2. Goes(pc + 1)
      BY <2>2, <3>1, Advances DEF Length
    <3>3. QED
      BY <2>1, <2>2, <2>4, <3>2 DEF PollStep
  <2>5. QED
    BY <2>3, <2>4
<1>3. CASE Valve
  <2>1. Does({"down", "up", "grip", "release"}) /\ Advance /\ UNCHANGED <<latch, table, from>>
    BY <1>3 DEF Valve, Does
  <2>2. /\ call \in Motions /\ pc \in 1..Length(call) /\ IsStep(Now, call, pc)
        /\ KindAt(call, pc) \in {"down", "up", "grip", "release"}
    BY <2>1, DoesAt
  <2>3. call = "pick" /\ pc \in 1..32
    BY <2>2, Kind DEF Length
  <2>4. pc # 32 /\ Running
    BY <2>1, <2>2, <2>3 DEF KindAt, PickKind, Does
  <2>5. Goes(pc + 1)
    BY <2>1, <2>3, <2>4, Advances DEF Length
  <2>6. \/ Now.do = "down" /\ SetZ(TRUE)
        \/ Now.do = "up" /\ SetZ(FALSE)
        \/ Now.do = "grip" /\ GripOn
        \/ Now.do = "release" /\ GripOff
    BY <1>3 DEF Valve, Does
  <2>7. /\ Now.do = "down" => pc \in {10, 26}
        /\ Now.do = "up" => pc \in {14, 30}
        /\ Now.do = "grip" => pc = 12
        /\ Now.do = "release" => pc = 28
    BY <2>2, <2>3 DEF IsStep, KindAt, PickKind
  <2>8. QED
    BY <2>1, <2>3, <2>5, <2>6, <2>7 DEF ValveStep
<1>4. CASE ApplyTransfer
  <2>1. Does({"transfer"}) /\ Advance /\ table' = "dst" /\ UNCHANGED <<latch, outputs, from>>
    BY <1>4 DEF ApplyTransfer
  <2>2. Running /\ call = "pick" /\ pc = 32
    <3>1. call \in Motions /\ pc \in 1..Length(call) /\ KindAt(call, pc) = "transfer"
      BY <2>1, DoesAt
    <3>2. QED
      BY <2>1, <3>1, Kind DEF Does
  <2>3. Ends
    BY <2>1, <2>2, Advances DEF Length
  <2>4. QED
    BY <2>1, <2>2, <2>3 DEF TransferStep
<1>5. CASE StartBelt
  <2>1. Does({"start"}) /\ Advance /\ UNCHANGED <<latch, z, grip, seed, table, from>>
    BY <1>5 DEF StartBelt
  <2>2. Running /\ call \in Motions /\ pc \in 1..Length(call) /\ KindAt(call, pc) = "start"
    <3>1. call \in Motions /\ pc \in 1..Length(call) /\ KindAt(call, pc) = "start"
      BY <2>1, DoesAt
    <3>2. QED
      BY <2>1, <3>1 DEF Does
  <2>3. call = "belt" /\ pc = 9
    BY <2>2, Kind DEF KindAt, HomeKind, Length
  <2>4. Goes(10)
    BY <2>1, <2>2, <2>3, Advances DEF Length
  <2>5. QED
    BY <2>1, <2>3, <2>4 DEF BeltStep
<1>6. CASE WaitPhoto \/ PhotoTriggered
  <2>1. /\ Does({"photo"}) /\ (Failure \/ Advance) /\ belt' = {}
        /\ UNCHANGED <<latch, z, grip, seed, table, from>>
    BY <1>6 DEF WaitPhoto, PhotoTriggered, PhotoFails, StopBelt
  <2>2. Running /\ call \in Motions /\ pc \in 1..Length(call) /\ KindAt(call, pc) = "photo"
    <3>1. call \in Motions /\ pc \in 1..Length(call) /\ KindAt(call, pc) = "photo"
      BY <2>1, DoesAt
    <3>2. QED
      BY <2>1, <3>1 DEF Does
  <2>3. call = "belt" /\ pc = 10
    BY <2>2, Kind DEF KindAt, HomeKind, Length
  <2>4. Fails \/ Ends
    <3>1. CASE Failure
      <4>1. Does({"poll", "photo"})
        BY <2>1 DEF Does
      <4>2. QED
        BY <3>1, <4>1, Failures
    <3>2. CASE Advance
      BY <2>2, <2>3, <3>2, Advances DEF Length
    <3>3. QED
      BY <2>1, <3>1, <3>2
  <2>5. QED
    BY <2>1, <2>3, <2>4 DEF BeltStep
<1>7. CASE Drives \/ UNCHANGED vars
  BY <1>7 DEF Drives, DriveLeaves, DriveArrives, vars, QuietStep
<1>8. QED
  BY <1>1, <1>2, <1>3, <1>4, <1>5, <1>6, <1>7 DEF Next, Run, Calls

\* The part of the invariant that is about the outputs alone.
Outs == Cylinder /\ Gripper /\ Conveyor

\* A motion begins, the sorter homes and a fault is cleared with the outputs off.
LEMMA Idle ==
  ASSUME TypeOK, Outs, call = "none"
  PROVE  ~z /\ ~grip /\ belt = {} /\ seed # "held" /\ Dropped = seed
BY Drops DEF Outs, Cylinder, Gripper, Conveyor

LEMMA OutsStep ==
  ASSUME TypeOK, Outs, [Next]_vars
  PROVE  Outs'
<1> USE DEF Outs, Cylinder, Gripper, Conveyor
<1>1. /\ Dropped # "held" /\ (seed # "held" => Dropped = seed)
      /\ call = "pick" => pc \in 1..32
  BY Drops, NowIs DEF Motions, Length
<1>2. CASE MotorStep
  <2>1. UNCHANGED <<latch, z, grip, belt, seed>> /\ belt = {}
    BY <1>2 DEF MotorStep, outputs, KindAt, HomeKind, Motors
  <2>2. CASE call = "pick"
    <3>1. pc \in 1..8 \cup 17..24 /\ pc' \in 1..9 \cup 18..25
            /\ (call' = "stop" \/ (call' = "pick" /\ pc' = pc + 1))
      BY <1>1, <1>2, <2>2 DEF MotorStep, KindAt, PickKind, Motors, Goes, Fails
    <3>2. QED
      BY <2>1, <2>2, <3>1
  <2>3. CASE call # "pick"
    BY <1>2, <2>1, <2>3 DEF MotorStep, Motions
  <2>4. QED
    BY <2>2, <2>3
<1>3. CASE PollStep
  <2>1. UNCHANGED <<latch, z, grip, belt, seed>> /\ belt = {} /\ call = "pick"
    BY <1>3 DEF PollStep, outputs
  <2>2. CASE latch
    BY <1>3, <2>1, <2>2 DEF PollStep, Fails
  <2>3. CASE ~latch
    <3>1. pc \in {9, 11, 13, 15, 16, 25, 27, 29, 31} /\ pc' = pc + 1 /\ call' = "pick"
      BY <1>1, <1>3, <2>1, <2>3 DEF PollStep, KindAt, PickKind, Goes
    <3>2. QED
      BY <2>1, <2>3, <3>1
  <2>4. QED
    BY <2>2, <2>3
<1>4. CASE ValveStep
  <2>1. call = "pick" /\ call' = "pick" /\ pc' = pc + 1 /\ UNCHANGED latch /\ belt = {}
    BY <1>4 DEF ValveStep, Goes
  <2>2. CASE pc \in {10, 26} /\ SetZ(TRUE)
    BY <2>1, <2>2 DEF SetZ
  <2>3. CASE pc \in {14, 30} /\ SetZ(FALSE)
    BY <2>1, <2>3 DEF SetZ
  <2>4. CASE pc = 12 /\ GripOn
    BY <2>1, <2>4 DEF GripOn
  <2>5. CASE pc = 28 /\ GripOff
    BY <1>1, <2>1, <2>5 DEF GripOff
  <2>6. QED
    BY <1>4, <2>2, <2>3, <2>4, <2>5 DEF ValveStep
<1>5. CASE TransferStep
  BY <1>5 DEF TransferStep, Ends, outputs
<1>6. CASE BeltStep
  BY <1>6 DEF BeltStep, Goes, Fails, Ends
<1>7. CASE QuietStep
  BY <1>7 DEF QuietStep, outputs
<1>8. CASE SafeStop
  BY <1>1, <1>8 DEF SafeStop, AllSafe
<1>9. CASE BeginPickPlace \/ BeginConveyor
  BY <1>9, Idle DEF BeginPickPlace, BeginConveyor, Begin, outputs
<1>10. CASE BeginGoHome
  BY <1>10, Idle DEF BeginGoHome, Begin, AllSafe
<1>11. CASE NewMatrix
  BY <1>11, Idle DEF NewMatrix
<1>12. CASE RequestEstop
  BY <1>1, <1>12 DEF RequestEstop, AllSafe
<1>13. CASE RequestClearFault
  BY <1>1, <1>13 DEF RequestClearFault, AllSafe
<1>14. QED
  BY <1>2, <1>3, <1>4, <1>5, <1>6, <1>7, <1>8, <1>9, <1>10, <1>11, <1>12, <1>13, Effects

\* Where the gripper closes the arm is over the source row, and where it opens it
\* is over the target row.
LEMMA OverRows ==
  ASSUME InPlace, call = "pick"
  PROVE  /\ pc = 12 => At("src") /\ ~At("dst")
         /\ pc = 28 => At("dst") /\ ~At("src")
<1>1. pc = 12 => At("src")
  BY DEF InPlace, At, Parked, Joints
<1>2. pc = 28 => At("dst")
  BY DEF InPlace, At, Parked, Joints
<1>3. ~(At("src") /\ At("dst"))
  BY DEF At, Joints
<1>4. QED
  BY <1>1, <1>2, <1>3

LEMMA CarriedStep ==
  ASSUME TypeOK, Outs, InPlace, Carried, [Next]_vars
  PROVE  Carried'
<1> USE DEF Carried
<1>1. /\ Dropped # "held" /\ (seed # "held" => Dropped = seed)
      /\ call = "pick" => pc \in 1..32
      /\ seed \in {"src", "held", "dst", "lost"} /\ from \in {"src", "held", "dst", "lost"}
  BY Drops, NowIs DEF TypeOK, Motions, Length
<1>2. SUFFICES ASSUME call' = "pick" PROVE Carried'
  OBVIOUS
<1>3. CASE MotorStep
  <2>1. /\ UNCHANGED <<latch, seed, from>> /\ call = "pick"
        /\ pc \in 1..8 \cup 17..24 /\ pc' = pc + 1
    BY <1>1, <1>2, <1>3 DEF MotorStep, outputs, KindAt, PickKind, Motors, Goes, Fails
  <2>2. QED
    BY <2>1
<1>4. CASE PollStep
  <2>1. /\ UNCHANGED <<latch, seed, from>> /\ call = "pick" /\ ~latch
        /\ pc \in {9, 11, 13, 15, 16, 25, 27, 29, 31} /\ pc' = pc + 1
    BY <1>1, <1>2, <1>4 DEF PollStep, outputs, KindAt, PickKind, Goes, Fails
  <2>2. QED
    BY <2>1
<1>5. CASE ValveStep
  <2>1. call = "pick" /\ pc' = pc + 1 /\ UNCHANGED <<latch, from>>
    BY <1>5 DEF ValveStep, Goes
  <2>2. CASE pc \in {10, 26, 14, 30} /\ UNCHANGED seed
    BY <2>1, <2>2
  <2>3. CASE pc = 12 /\ GripOn
    <3>1. At("src") /\ ~At("dst") /\ (z <=> ~latch)
      BY <2>1, <2>3, OverRows DEF Outs, Cylinder
    <3>2. seed' = IF z /\ seed = "src" THEN "held" ELSE seed
      BY <2>3, <3>1 DEF GripOn
    <3>3. QED
      BY <2>1, <2>3, <3>1, <3>2
  <2>4. CASE pc = 28 /\ GripOff
    <3>1. At("dst") /\ ~At("src") /\ (~latch => z)
      BY <2>1, <2>4, OverRows DEF Outs, Cylinder
    <3>2. seed = "held" /\ ~latch => Dropped = "dst"
      BY <3>1 DEF Dropped
    <3>3. QED
      BY <1>1, <2>1, <2>4, <3>2 DEF GripOff
  <2>5. QED
    BY <1>5, <2>2, <2>3, <2>4 DEF ValveStep, SetZ
<1>6. CASE TransferStep \/ BeltStep \/ SafeStop \/ BeginGoHome \/ BeginConveyor \/ RequestClearFault
           \/ NewMatrix
  BY <1>2, <1>6 DEF TransferStep, Ends, BeltStep, Goes, Fails, SafeStop, BeginGoHome,
                    BeginConveyor,
                    Begin, RequestClearFault, NewMatrix
<1>7. CASE QuietStep
  BY <1>7 DEF QuietStep, outputs
<1>8. CASE BeginPickPlace
  <2>1. from' = seed /\ seed' = seed /\ pc' = 1 /\ seed # "held"
    BY <1>8, Idle DEF BeginPickPlace, Begin, outputs
  <2>2. QED
    BY <2>1
<1>9. CASE RequestEstop
  <2>1. /\ call = "pick" /\ pc' = pc /\ from' = from /\ ~latch /\ latch' /\ seed' = Dropped
    BY <1>2, <1>9 DEF RequestEstop, AllSafe
  <2>2. pc = 28 /\ seed = "held" => Dropped = "dst"
    BY <2>1, OverRows DEF Dropped, Outs, Cylinder
  <2>3. QED
    BY <1>1, <2>1, <2>2
<1>10. QED
  BY <1>3, <1>4, <1>5, <1>6, <1>7, <1>8, <1>9, Effects

LEMMA MovedStep ==
  ASSUME TypeOK, Outs, Carried, Moved, [Next]_vars
  PROVE  Moved'
<1> USE DEF Moved
<1>1. /\ Dropped # "held" /\ (seed # "held" => Dropped = seed)
      /\ seed \in {"src", "held", "dst", "lost"} /\ from \in {"src", "held", "dst", "lost"}
      /\ table \in {"src", "dst"}
  BY Drops DEF TypeOK
<1>2. CASE MotorStep \/ PollStep \/ QuietStep
  BY <1>2 DEF MotorStep, PollStep, QuietStep, outputs, Goes, Fails
<1>3. CASE ValveStep
  BY <1>1, <1>3 DEF ValveStep, Goes
<1>4. CASE TransferStep
  <2>1. (from = "src" => seed = "dst") /\ (from # "src" => seed = from) /\ from # "held"
    BY <1>4 DEF TransferStep, Carried
  <2>2. QED
    BY <1>1, <1>4, <2>1 DEF TransferStep, Ends, outputs
<1>5. CASE BeltStep
  BY <1>5 DEF BeltStep, Goes, Fails, Ends
<1>6. CASE SafeStop \/ RequestEstop \/ RequestClearFault
  BY <1>1, <1>6 DEF SafeStop, RequestEstop, RequestClearFault, AllSafe
<1>7. CASE BeginPickPlace \/ BeginGoHome \/ BeginConveyor
  <2>1. seed' = seed /\ table' = table /\ from' = seed
    BY <1>7, Idle DEF BeginPickPlace, BeginGoHome, BeginConveyor, Begin, AllSafe, outputs
  <2>2. call' = "pick" => table = "src"
    BY <1>7 DEF BeginPickPlace, BeginGoHome, BeginConveyor, Begin
  <2>3. QED
    BY <1>1, <2>1, <2>2
<1>8. CASE NewMatrix
  BY <1>8 DEF NewMatrix
<1>9. QED
  BY <1>2, <1>3, <1>4, <1>5, <1>6, <1>7, <1>8, Effects

LEMMA StartedLateStep ==
  ASSUME TypeOK, StartedLate, [Next]_vars
  PROVE  StartedLate'
<1> DEFINE W == {"wait"}
<1>1. SUFFICES ASSUME call' = "pick", latch'
               PROVE  IF Does(W)' THEN started' \subseteq {Now'.joint} ELSE started' = {}
  BY DEF StartedLate
<1>2. ControlOK' /\ (Does(W)' => KindAt("pick", pc') = "wait")
  <2>1. ControlOK'
    BY ControlSteps, ControlTypes
  <2>2. QED
    BY <1>1, <2>1, DoesNext
<1>3. started' = {} => (IF Does(W)' THEN started' \subseteq {Now'.joint} ELSE started' = {})
  OBVIOUS
<1>4. CASE UNCHANGED <<call, pc>> /\ ~Run /\ ~PhotoTriggered
  <2>1. CASE RequestEstop \/ RequestClearFault
    BY <1>3, <2>1 DEF RequestEstop, RequestClearFault
  <2>2. CASE UNCHANGED <<latch, started>>
    <3>1. Now' = Now /\ Does(W)' = Does(W) /\ call = "pick" /\ latch
      BY <1>1, <1>4, <2>2 DEF Now, Does, Running
    <3>2. CASE Does(W)
      BY <2>2, <3>1, <3>2 DEF StartedLate
    <3>3. CASE ~Does(W)
      BY <2>2, <3>1, <3>3 DEF StartedLate
    <3>4. QED
      BY <3>2, <3>3
  <2>3. RequestEstop \/ RequestClearFault \/ UNCHANGED <<latch, started>>
    BY <1>4 DEF Next, Calls, BeginPickPlace, BeginGoHome, BeginConveyor, NewMatrix, Drives,
                DriveLeaves, DriveArrives, vars
  <2>4. QED
    BY <2>1, <2>2, <2>3
<1>5. CASE BeginPickPlace
  BY <1>1, <1>5 DEF BeginPickPlace, Begin
<1>6. CASE call = "pick" /\ pc \in 1..32 /\ pc' = pc + 1 /\ Run
  <2>1. IsStep(Now, "pick", pc) /\ Running
    BY <1>6, NowIs DEF Motions
  <2>2. Now.do = KindAt("pick", pc)
    BY <2>1 DEF IsStep
  <2>3. latch
    BY <1>1, <1>6 DEF Run, ServoWrite, WaitPosition, Delay, Valve, ApplyTransfer,
                      StartBelt, WaitPhoto,
                      StopBelt, SafeStop
  <2>4. Now.do # "wait" => started = {}
    BY <1>6, <2>3 DEF StartedLate, Does
  <2>5. CASE ServoWrite
    <3>1. Now.do \in {"target", "enable", "trigger"} /\ Does({"target", "enable", "trigger"})
      BY <2>5 DEF ServoWrite, Does
    <3>2. CASE Now.do = "trigger"
      <4>1. started' = {Now.joint}
        BY <2>3, <2>4, <2>5, <3>2 DEF ServoWrite
      <4>2. /\ pc + 1 \in 1..Length("pick") /\ KindAt("pick", pc + 1) = "wait"
            /\ JointAt(pc + 1) = JointAt(pc)
        BY <1>6, <2>2, <3>2, TriggerThenWait DEF Motions, Length
      <4>3. Does(W)' /\ IsStep(Now', "pick", pc')
        BY <1>1, <1>2, <1>6, <4>2, DoesNext DEF Motions
      <4>4. Now'.joint = Now.joint
        BY <1>6, <2>1, <2>2, <3>2, <4>2, <4>3 DEF IsStep, Motors
      <4>5. QED
        BY <4>1, <4>3, <4>4
    <3>3. CASE Now.do # "trigger"
      <4>1. started' = {}
        BY <2>4, <2>5, <3>1, <3>3 DEF ServoWrite
      <4>2. QED
        BY <1>3, <4>1
    <3>4. QED
      BY <3>2, <3>3
  <2>6. CASE WaitPosition
    <3>1. MotorError /\ Does(Motors)
      BY <2>3, <2>6, Waits DEF WaitPosition, Does, Motors
    <3>2. QED
      BY <1>1, <1>6, <3>1, MotorErrors DEF Fails
  <2>7. CASE ~ServoWrite /\ ~WaitPosition
    <3>1. started' = started /\ Now.do # "wait"
      BY <1>6, <2>1, <2>7 DEF Run, Delay, Valve, ApplyTransfer, StartBelt, WaitPhoto,
                              StopBelt, SafeStop, Does
    <3>2. QED
      BY <1>3, <2>4, <3>1
  <2>8. QED
    BY <2>5, <2>6, <2>7
<1>7. QED
  BY <1>1, <1>4, <1>5, <1>6, InTransfer

-----------------------------------------------------------------------------
(***************************************************************************)
(* The invariant holds, and what follows from it.                          *)
(***************************************************************************)
LEMMA InitInv == Init => Inv
<1> SUFFICES ASSUME Init PROVE Inv
  OBVIOUS
<1>1. TypeOK
  BY InitTypes
<1>2. ~Running
  BY ProgramAt DEF Init, Running
<1>3. HonestDrives /\ Commanded /\ InPlace /\ MovesInWait
  BY <1>2 DEF Init, HonestDrives, Commanded, InPlace, MovesInWait, Does
<1>4. Cylinder /\ Gripper /\ Conveyor /\ Carried /\ Moved /\ StartedLate
  BY DEF Init, Cylinder, Gripper, Conveyor, Carried, Moved, StartedLate
<1>5. QED
  BY <1>1, <1>3, <1>4 DEF Inv

LEMMA InvStep == Inv /\ [Next]_vars => Inv'
<1> SUFFICES ASSUME Inv, [Next]_vars PROVE Inv'
  OBVIOUS
<1>1. TypeOK /\ HonestDrives /\ Commanded /\ InPlace
        /\ MovesInWait /\ Outs /\ Carried /\ Moved /\ StartedLate
  BY DEF Inv, Outs
<1>2. TypeOK'
  BY <1>1, TypesStep
<1>3. HonestDrives' /\ Commanded' /\ InPlace' /\ MovesInWait'
  BY <1>1, HonestStep, CommandedStep, InPlaceStep, MovesInWaitStep
<1>4. Outs' /\ Carried' /\ Moved' /\ StartedLate'
  BY <1>1, OutsStep, CarriedStep, MovedStep, StartedLateStep
<1>5. QED
  BY <1>2, <1>3, <1>4 DEF Inv, Outs

\* The inductive invariant: drives that are honest, parked and commanded, outputs
\* that are on only where the program has them on, a seedling where the program
\* brought it, for every loss, failure and interruption.
THEOREM Invariance == Spec => []Inv
<1>1. Init => Inv
  BY InitInv
<1>2. Inv /\ [Next]_vars => Inv'
  BY InvStep
<1>3. QED
  BY <1>1, <1>2, PTL DEF Spec

\* The table is never told that a seedling was moved that was not: AppArm_PickPlace
\* reaches its transfer only past every wait, poll and valve, and what a stop does to
\* the seedling in between is seen by the poll behind it.
THEOREM TableIsTold == Spec => []TableTold
<1>1. Inv => TableTold
  BY DEF Inv, Moved, TableTold
<1>2. QED
  BY <1>1, Invariance, PTL

\* Back in the loop of main, on a bus that lost no write, no drive moves, no belt
\* runs and no valve is on, whichever way the motion ended.
THEOREM QuietWhenBack == Spec => []QuietAtRest
<1>1. Inv => QuietAtRest
  <2> SUFFICES ASSUME Inv, call = "none", ~lossy PROVE Quiet
    BY DEF QuietAtRest
  <2>1. TypeOK /\ Outs /\ MovesInWait
    BY DEF Inv, Outs
  <2>2. ~z /\ ~grip /\ belt = {}
    BY <2>1, Idle
  <2>3. ~Running
    BY <2>1, NowIs DEF Motions
  <2>4. \A j \in Joints : ~servo[j].moving
    BY <2>1, <2>3 DEF MovesInWait, Does
  <2>5. QED
    BY <2>2, <2>4 DEF Quiet
<1>2. QED
  BY <1>1, Invariance, PTL

\* A transfer that an emergency stop interrupts starts at most one more joint: the
\* wait behind it polls the latch and gives the motion up.
THEOREM OneMoreMove == Spec => []OneMoveAfterLatch
<1>1. Inv => OneMoveAfterLatch
  <2> SUFFICES ASSUME Inv, latch, call = "pick" PROVE Cardinality(started) <= 1
    BY DEF OneMoveAfterLatch
  <2>1. \E x : started \subseteq {x}
    BY DEF Inv, StartedLate
  <2>2. PICK x : started \subseteq {x}
    BY <2>1
  <2>3. started = {} \/ started = {x}
    BY <2>2
  <2>4. Cardinality({}) = 0 /\ Cardinality({x}) = 1
    BY FS_EmptySet, FS_Singleton
  <2>5. QED
    BY <2>3, <2>4
<1>2. QED
  BY <1>1, Invariance, PTL

\* Only a stop drops a seedling: where the program opens the gripper, the cylinder is
\* down and both drives are at the target row (valve_place_sequence), or the stop
\* has opened it before.
THEOREM ProgramNeverDrops == Spec => DroppedOnlyByStop
<1> DEFINE Falls == seed' = "lost" /\ seed # "lost"
           Stops == call = "stop" \/ (latch' /\ ~latch)
<1>1. Inv /\ [Next]_vars => (Falls => Stops)
  <2> SUFFICES ASSUME Inv, [Next]_vars, Falls PROVE Stops
    OBVIOUS
  <2>1. TypeOK /\ Outs /\ InPlace
    BY DEF Inv, Outs
  <2>2. CASE MotorStep \/ PollStep \/ TransferStep \/ BeltStep \/ QuietStep \/ BeginPickPlace
             \/ BeginConveyor \/ NewMatrix
    BY <2>2 DEF MotorStep, PollStep, TransferStep, BeltStep, QuietStep, BeginPickPlace,
                BeginConveyor,
                NewMatrix, outputs
  <2>3. CASE ValveStep
    <3>1. call = "pick" /\ pc = 28 /\ seed' = Dropped
      BY <2>3 DEF ValveStep, SetZ, GripOn, GripOff
    <3>2. At("dst") /\ (~latch => z)
      BY <2>1, <3>1, OverRows DEF Outs, Cylinder
    <3>3. seed = "held" => ~latch
      BY <2>1, <3>1 DEF Outs, Gripper
    <3>4. Dropped # "lost"
      BY <3>1, <3>2, <3>3 DEF Dropped
    <3>5. QED
      BY <3>1, <3>4
  <2>4. CASE BeginGoHome \/ RequestClearFault
    BY <2>1, <2>4, Idle DEF BeginGoHome, Begin, RequestClearFault, AllSafe
  <2>5. CASE SafeStop \/ RequestEstop
    BY <2>5 DEF SafeStop, RequestEstop
  <2>6. QED
    BY <2>1, <2>2, <2>3, <2>4, <2>5, Effects
<1>2. Inv /\ [Next]_vars => [Falls => Stops]_vars
  BY <1>1
<1>3. QED
  BY <1>2, Invariance, PTL DEF Spec, DroppedOnlyByStop
=============================================================================
