----------------------------- MODULE ArmMotion -----------------------------
(***************************************************************************)
(* The blocking motions of the REAL_HW image: AppArm_PickPlace,            *)
(* AppArm_GoHome and AppConveyor_RunUntilSensor, with the two servos and   *)
(* the seedling they act on.  A motion is a program of steps, each one     *)
(* Modbus write, valve output or wait that ends in one poll of the latch.  *)
(* RequestEstop may preempt the program between any two steps.             *)
(***************************************************************************)
EXTENDS Integers, Sequences, FiniteSets

CONSTANTS
  EstopInterrupts,  \* RequestEstop may preempt a blocking motion
  Buses             \* TRUE: one that may lose a servo write, or its answer;
                    \* FALSE: one that works

ASSUME BuildAssumption == EstopInterrupts \in BOOLEAN /\ Buses \subseteq BOOLEAN

VARIABLES
  call,     \* the motion main() is in, or the stop after a failed one
  pc,       \* its next step
  result,   \* how the last motion ended
  latch,    \* s_esop_hold
  lossy,    \* the bus is one that may lose a servo write, or its answer
  servo,    \* the two drives
  z, grip,  \* the valves: cylinder down, gripper closed
  belt,     \* belts that run
  seed,     \* where the seedling of the source row is
  table,    \* where the matrix table says it is
  from,     \* history: where the seedling was when the motion began
  started   \* history: joints told to move since the latch was set

outputs == <<z, grip, belt, seed>>
vars == <<call, pc, result, latch, lossy, servo, outputs, table, from, started>>

Joints == {1, 2}
Places == {"home", "src", "dst"}
Belts  == {0, 1, 2}
Drive  == [target : Places, pos : Places \cup {"between"}, enabled : BOOLEAN,
           estop : BOOLEAN, moving : BOOLEAN, reached : BOOLEAN]

Init ==
  /\ call = "none" /\ pc = 1 /\ result = "none" /\ latch = FALSE
  /\ lossy \in Buses
  /\ servo = [j \in Joints |-> [target |-> "home", pos |-> "home", enabled |-> FALSE,
                                estop |-> FALSE, moving |-> FALSE, reached |-> TRUE]]
  /\ z = FALSE /\ grip = FALSE /\ belt = {}
  /\ seed = "src" /\ table = "src" /\ from = "src" /\ started = {}

-----------------------------------------------------------------------------
(***************************************************************************)
(* The drives, as tools/servo_modbus_sim.py has them.                      *)
(***************************************************************************)
WriteTarget(d, p) == [d EXCEPT !.target = p, !.reached = (d.pos = p)]
Enable(d)         == [d EXCEPT !.enabled = TRUE]
Disable(d)        == [d EXCEPT !.enabled = FALSE, !.moving = FALSE]
ClearTrigger(d)   == [d EXCEPT !.moving = FALSE]
SetEstop(d)       == [d EXCEPT !.estop = TRUE, !.enabled = FALSE, !.moving = FALSE]
ClearEstop(d)     == [d EXCEPT !.estop = FALSE]
TriggerMove(d) ==
  IF d.enabled /\ ~d.estop
  THEN [d EXCEPT !.moving = (d.pos # d.target), !.reached = (d.pos = d.target)]
  ELSE d

DriveLeaves(j) ==
  /\ servo[j].moving /\ servo[j].pos # "between"
  /\ servo' = [servo EXCEPT ![j].pos = "between", ![j].reached = FALSE]
  /\ UNCHANGED <<call, pc, result, latch, lossy, outputs, table, from, started>>

DriveArrives(j) ==
  /\ servo[j].moving
  /\ servo' = [servo EXCEPT ![j].pos = servo[j].target, ![j].moving = FALSE,
                            ![j].reached = TRUE]
  /\ UNCHANGED <<call, pc, result, latch, lossy, outputs, table, from, started>>

\* The drives whose next write, its result not looked at, may be lost.
Losses == IF lossy THEN SUBSET Joints ELSE {{}}

At(p) == \A j \in Joints : servo[j].pos = p

-----------------------------------------------------------------------------
(***************************************************************************)
(* The outputs, and the seedling under the gripper.                        *)
(***************************************************************************)
Dropped ==
  IF seed # "held" THEN seed
  ELSE IF z /\ At("src") THEN "src"
  ELSE IF z /\ At("dst") THEN "dst" ELSE "lost"

\* BSP_Actuators_AllSafe
AllSafe == z' = FALSE /\ grip' = FALSE /\ belt' = {} /\ seed' = Dropped

GripOn ==
  /\ grip' = TRUE
  /\ seed' = IF z /\ seed \in {"src", "dst"} /\ At(seed) THEN "held" ELSE seed
  /\ UNCHANGED <<z, belt>>

GripOff == grip' = FALSE /\ seed' = Dropped /\ UNCHANGED <<z, belt>>

SetZ(on) == z' = on /\ UNCHANGED <<grip, belt, seed>>

-----------------------------------------------------------------------------
(***************************************************************************)
(* The programs.                                                           *)
(***************************************************************************)
Step(do, j, p, e) == [do |-> do, joint |-> j, to |-> p, err |-> e]
Output(do, e)     == Step(do, 0, "home", e)

\* AppMotor_GotoPulse, and AppMotor_GotoAbsTargetAsRelative, whose feedback
\* read decides nothing as long as positions are commanded absolutely.
Goto(j, p) == [i \in 1..4 |-> Step(<<"target", "enable", "trigger", "wait">>[i], j, p, p)]

\* move_joints_to_row
MoveTo(p) == Goto(1, p) \o Goto(2, p)

Valves(do, e) == [i \in DOMAIN do |-> Output(do[i], e)]

\* valve_pick_sequence and the delay after it; valve_place_sequence
PickSequence ==
  Valves(<<"poll", "down", "poll", "grip", "poll", "up", "poll", "poll">>, "pick_stop")
PlaceSequence ==
  Valves(<<"poll", "down", "poll", "release", "poll", "up", "poll">>, "place_stop")

Transfer == <<Output("transfer", "none")>>

\* Mutant: the table is updated before the seedling is placed.
PickPlaceTransfersFirst ==
  MoveTo("src") \o PickSequence \o MoveTo("dst") \o Transfer \o PlaceSequence

\* Mutant: the table is not updated.
PickPlaceForgetsTransfer ==
  MoveTo("src") \o PickSequence \o MoveTo("dst") \o PlaceSequence

\* AppArm_PickPlace
PickPlace == MoveTo("src") \o PickSequence \o MoveTo("dst") \o PlaceSequence \o Transfer

\* AppArm_GoHome
GoHome == MoveTo("home")

\* AppConveyor_RunUntilSensor
RunUntilSensor == Valves(<<"start", "photo">>, "belt")

Program == [pick |-> PickPlace, home |-> GoHome, belt |-> GoHome \o RunUntilSensor]

Running == call \in DOMAIN Program
Now     == Program[call][pc]
Does(S) == Running /\ Now.do \in S

TypeOK ==
  /\ call \in {"none", "pick", "home", "belt", "stop"}
  /\ pc \in 1..(IF Running THEN Len(Program[call]) ELSE 1)
  /\ result \in {"none", "ok", "src", "dst", "pick_stop", "place_stop", "belt"}
  /\ latch \in BOOLEAN /\ lossy \in BOOLEAN
  /\ servo \in [Joints -> Drive]
  /\ z \in BOOLEAN /\ grip \in BOOLEAN
  /\ belt \in SUBSET Belts
  /\ seed \in {"src", "held", "dst", "lost"}
  /\ table \in {"src", "dst"} /\ from \in {"src", "held", "dst", "lost"}
  /\ started \in SUBSET Joints

-----------------------------------------------------------------------------
\* How a step ends.

\* Mutant: the program runs past its last step.
ProceedTooFar(n) ==
  IF n > Len(Program[call]) + 1
  THEN call' = "none" /\ pc' = 1 /\ result' = "ok"
  ELSE pc' = n /\ UNCHANGED <<call, result>>

Proceed(n) ==
  IF n > Len(Program[call])
  THEN call' = "none" /\ pc' = 1 /\ result' = "ok"
  ELSE pc' = n /\ UNCHANGED <<call, result>>

Advance == Proceed(pc + 1)

\* Mutant: nobody looks at the result.
MotorErrorIgnored == Advance

\* GoHome goes on with the next joint, or ends; PickPlace returns the error.
MotorError ==
  IF Now.to = "home" THEN Proceed(4 * Now.joint + 1)
  ELSE call' = "stop" /\ pc' = 1 /\ result' = Now.err

Failure == call' = "stop" /\ pc' = 1 /\ result' = Now.err

-----------------------------------------------------------------------------
\* The steps.

\* The write a servo step makes.
Written(d, s) ==
  CASE s.do = "target"  -> WriteTarget(d, s.to)
    [] s.do = "enable"  -> Enable(d)
    [] s.do = "trigger" -> TriggerMove(d)

\* A servo write is carried out and answered; when the bus fails it may be
\* carried out or not, with an error for the master.
ServoWrite ==
  /\ Does({"target", "enable", "trigger"})
  /\ LET sent == [servo EXCEPT ![Now.joint] = Written(@, Now)]
     IN  \/ servo' = sent /\ Advance
         \/ lossy /\ servo' \in {sent, servo} /\ MotorError
  /\ started' = IF latch /\ Now.do = "trigger" THEN started \cup {Now.joint} ELSE started
  /\ UNCHANGED <<latch, lossy, outputs, table, from>>

\* Writes to the drive of the current step whose results are not looked at:
\* all of them arrive, as w, or only some do.
Unanswered(w, some) ==
  servo' \in {[servo EXCEPT ![Now.joint] = d] :
                d \in {w} \cup (IF lossy THEN some \cup {servo[Now.joint]} ELSE {})}

\* WaitPosition when the motion is over or was given up.
EndTrigger == Unanswered(ClearTrigger(servo[Now.joint]), {})

\* Mutant: the drive is left alone.
StopDriveForgotten == UNCHANGED servo

\* WaitPosition on the latch: Disable, then ClearTrigger.
StopDrive == Unanswered(Disable(servo[Now.joint]), {ClearTrigger(servo[Now.joint])})

\* Mutant: the latch is not polled.
LatchIgnored == FALSE

\* AppMotionAbort_PollEscalate
PollEscalate == latch

Arrived(d, s) == d.reached \/ d.pos = s.to

\* AppMotor_WaitPosition: one turn of its loop that ends it.
WaitPosition ==
  /\ Does({"wait"})
  /\ \/ PollEscalate /\ StopDrive /\ MotorError
     \/ ~PollEscalate /\ EndTrigger /\ MotorError
     \/ ~PollEscalate /\ Arrived(servo[Now.joint], Now) /\ EndTrigger /\ Advance
  /\ UNCHANGED <<latch, lossy, outputs, table, from, started>>

\* A poll before a valve sequence and in every slice of its delays.
Delay ==
  /\ Does({"poll"})
  /\ IF PollEscalate THEN Failure ELSE Advance
  /\ UNCHANGED <<latch, lossy, servo, outputs, table, from, started>>

Valve ==
  /\ \/ Does({"down"}) /\ SetZ(TRUE)
     \/ Does({"up"}) /\ SetZ(FALSE)
     \/ Does({"grip"}) /\ GripOn
     \/ Does({"release"}) /\ GripOff
  /\ Advance
  /\ UNCHANGED <<latch, lossy, servo, table, from, started>>

ApplyTransfer ==
  /\ Does({"transfer"})
  /\ table' = "dst"
  /\ Advance
  /\ UNCHANGED <<latch, lossy, servo, outputs, from, started>>

\* All belts off, then one on.
StartBelt ==
  /\ Does({"start"})
  /\ \E b \in Belts : belt' = {b}
  /\ Advance
  /\ UNCHANGED <<latch, lossy, servo, z, grip, seed, table, from, started>>

\* Mutant: the belt has no timeout.
PhotoWaitsForever == PollEscalate /\ Failure

\* The belt is aborted, or times out.
PhotoFails == Failure

StopBelt ==
  /\ belt' = {}
  /\ UNCHANGED <<latch, lossy, servo, z, grip, seed, table, from, started>>

WaitPhoto == Does({"photo"}) /\ PhotoFails /\ StopBelt

\* The photocell sees the tray, which nothing makes sure of.
PhotoTriggered == Does({"photo"}) /\ ~PollEscalate /\ Advance /\ StopBelt

\* enter_fault_mode: AppSort stops everything when a motion failed.
SafeStop ==
  /\ call = "stop"
  /\ call' = "none"
  /\ AllSafe
  /\ \E lost \in Losses :
       servo' = [j \in Joints |-> IF j \in lost THEN servo[j] ELSE Disable(servo[j])]
  /\ UNCHANGED <<pc, result, latch, lossy, table, from, started>>

Run == ServoWrite \/ WaitPosition \/ Delay \/ Valve \/ ApplyTransfer \/ StartBelt
         \/ WaitPhoto \/ SafeStop

-----------------------------------------------------------------------------
\* The calls of AppSort; it starts no motion behind the latch.

Begin(c) == call = "none" /\ ~latch /\ call' = c /\ pc' = 1 /\ result' = "none" /\ from' = seed

BeginPickPlace ==
  /\ table = "src" /\ Begin("pick")
  /\ UNCHANGED <<latch, lossy, servo, outputs, table, started>>

\* Flags 44 and 45 stop the drives first, the standby request only the outputs.
BeginGoHome ==
  /\ Begin("home")
  /\ AllSafe
  /\ \E stopped \in {{}, Joints}, lost \in Losses :
       servo' = [j \in Joints |-> IF j \in stopped \ lost THEN Disable(servo[j])
                                                          ELSE servo[j]]
  /\ UNCHANGED <<latch, lossy, table, started>>

BeginConveyor ==
  /\ Begin("belt")
  /\ UNCHANGED <<latch, lossy, servo, outputs, table, started>>

\* A new tray is put in and a matrix read of it committed.
NewMatrix ==
  /\ call = "none" /\ seed' = "src" /\ table' = "src"
  /\ UNCHANGED <<call, pc, result, latch, lossy, servo, z, grip, belt, from, started>>

\* The master may hold the bus, and then answers BUSY to the emergency stop.
BusBusy == call = "stop" \/ Does({"target", "enable", "trigger", "wait"})

RequestEstop ==
  /\ call # "none" => EstopInterrupts
  /\ ~latch /\ latch' = TRUE /\ started' = {}
  /\ AllSafe
  /\ \E lost \in Losses \cup (IF BusBusy THEN {Joints} ELSE {}), half \in Losses :
       servo' = [j \in Joints |-> IF j \in lost THEN servo[j]
                                  ELSE IF j \in half THEN Disable(servo[j])
                                  ELSE SetEstop(servo[j])]
  /\ UNCHANGED <<call, pc, result, lossy, table, from>>

RequestClearFault ==
  /\ call = "none" /\ latch
  /\ latch' = FALSE /\ started' = {}
  /\ AllSafe
  /\ \E lost \in Losses :
       servo' = [j \in Joints |-> IF j \in lost THEN servo[j]
                                  ELSE ClearEstop(ClearTrigger(servo[j]))]
  /\ UNCHANGED <<call, pc, result, lossy, table, from>>

Calls == BeginPickPlace \/ BeginGoHome \/ BeginConveyor \/ NewMatrix
           \/ RequestEstop \/ RequestClearFault

Drives == \E j \in Joints : DriveLeaves(j) \/ DriveArrives(j)

Next == Run \/ PhotoTriggered \/ Calls \/ Drives

\* The program goes on, and every wait is bounded by a timeout; the photocell and
\* the drives need not help it.
Spec == Init /\ [][Next]_vars
FairSpec == Spec /\ WF_vars(Run)

-----------------------------------------------------------------------------
(***************************************************************************)
(* Properties.                                                             *)
(***************************************************************************)

\* The table says the seedling was moved only if it was, whichever step of the
\* motion failed or was interrupted and whatever was lost on the bus, as long as
\* the motion that says so began with the seedling in its row.
TableTold == table = "dst" /\ from = "src" => seed = "dst"

\* A seedling falls only when the outputs are made safe, by a failure or an
\* emergency stop: the program never opens the gripper away from a row.
DroppedOnlyByStop ==
  [][seed' = "lost" /\ seed # "lost" => call = "stop" \/ (latch' /\ ~latch)]_vars

Quiet == (\A j \in Joints : ~servo[j].moving) /\ belt = {} /\ ~z /\ ~grip

\* With no write lost but the ones an emergency stop makes on a busy bus, main
\* is never back in its loop with a drive, a belt or a valve still on.
QuietAtRest == call = "none" /\ ~lossy => Quiet

\* An emergency stop that interrupts a transfer leaves time for at most one
\* more move command: the wait that follows it sees the latch.
OneMoveAfterLatch ==
  latch /\ call = "pick" => Cardinality(started) <= 1

Whole == INSTANCE MotionCall WITH
  result <- IF result \in {"none", "ok"} THEN result ELSE "failed",
  moved <- table = "dst"

\* Whatever fails, is lost or is interrupted in it, a motion is to its caller the
\* one step AppSort takes it for.
IsMotionCall == Whole!Spec

\* Every motion comes back, so the main loop goes on.
MotionEnds == call # "none" ~> call = "none"

\* "The arm is back home, then the belt runs until its photocell."
HomeBeforeBelt == belt # {} => At("home")
=============================================================================
