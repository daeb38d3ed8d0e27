# Verification of the F407 sorting firmware

The firmware (`src/Project`, STM32F407, bare metal) sorts seedlings between three
trays: a vision controller reports the class of the seedling in each of 150 cells,
a two-joint arm with a gripper moves seedlings until every tray is uniform, and a
belt then takes a finished tray away.  This directory holds TLA+ models of the
parts that decide what moves when, TLC runs on small instances, and TLAPS proofs
for every size.  Paths below are relative to `src/Project` unless they start
with `src/`.

## 1. The system

One loop (`User/main.c:main`) runs to completion, call by call: network, touch
screen, KEY1, KEY2 (which does not return before its read cycle is over),
`AppSort_Poll`, display.  Interrupts fill the receive rings and set key flags.
Motions block inside `AppSort_Poll`; while they block they poll the emergency
stop latch.  `AppSort_RequestEstop` has no caller in the tree yet: every motion
loop polls the latch because the call is meant to preempt it.

| component | state | operations | what makes it correct |
|---|---|---|---|
| sorter, `User/app/app_sort.c` | main state, step, run flag (FL2..FL6, 44, 45), latch, 44 timer, pending standby request, time of the last step | Poll, RequestStart, Pause, Estop, ClearFault, StandbyHome | nothing moves behind the latch; a pass works on one committed matrix; each belt run is justified by the table; the pass ends; the 44 alarm ends |
| table, `User/matrix/app_matrix.c` | rows with tray, cell, class, geometry | commit of a grid, clear, searches, ApplyTransfer, geometry recomputation | transfers keep the seedlings and make progress |
| KEY2 reader, `User/matrix/app_matrix_modbus.c` | phase, packet number, header snapshot, registers, status, last commit flag | Key2Request, Poll | a commit is one grid the controller had in force, an error leaves the table alone, each cycle ends |
| motions, `User/arm/app_arm.c`, `User/arm/app_motor.c`, `User/app/app_conveyor.c` | none of their own; drives, valves and belts | PickPlace, GoHome, RunUntilSensor | they return; nothing is left running; the table says what happened |
| Modbus master, `User/rs485/modbus_master.c` | bus owner, last result, history | TxnExec, wrappers | one transaction at a time; an answer belongs to its request |
| keys and interrupts, `System/stm32f4xx_it.c` | the hit flag of KEY2 | interrupt, EXTI_PopKey2 | no press is lost |
| serial drivers, `Hardware/bsp_uart*.c` | receive rings, overflow counter, direction | interrupt, ReadByte, RxFlush | without a lock the ring is a queue; an answer starts with its own first byte |
| host text link, `User/tcp` | line buffer, parser state, row buffer, sample window and gate | accept, receive, end of a connection, OnStream, ArmSampleWindow | the table is empty or rows that were sent, each cell once, with the sum of a frame; a good frame is never refused for what came before it, a broken one never completed by itself |
| grid validator, `User/matrix/app_matrix_raw_validator.c` | none | full grid, frame of any length | no cell twice, every class known |
| alarm lamp, `User/rs485/app_alarm_light.c` | last command | AlarmLight_Set | the lamp tells the state |

Interaction: main calls the reader and, after it, starts the sorter; the sorter
asks the reader whether the last commit was good and the table for rows; it calls
the motions, which read rows, write to the drives through the Modbus master and
at the end of a transfer update the table; the host link clears or replaces the
table from its own callbacks.

The text link is not in the production image, whose matrix comes over Modbus; it
is code of the repository with documents of its own, so it is modelled too, and
`AppSort` has it behind the switch `HostLink`.

Builds: SAFE_SIM (the default: no motion, KEY2 starts the sorter), PC_SERVO_SIM
(drives simulated by `src/tools/servo_modbus_sim.py`), REAL_HW (motions, KEY2 does
not start).  `CFG_MATRIX_K2_BYPASS_GATES` is 1 in all of them.

What is hard here: an emergency stop between any two steps of a blocking motion;
a motion that fails half way; a controller that rewrites its registers while it is
read; late answers on a bus whose answers name no address; flags and timers that
outlive the pass that set them; a table replaced under a pass; an interrupt that
shares a ring with its reader without a lock; a text stream cut, dropped and mixed
with another anywhere.  `PROJECT.json`
lists these hazards, each at its line, with the properties that watch over it.

## 2. Modules

| module | models | how it corresponds |
|---|---|---|
| `Matrix` | the table and its queries | a table is a function from cells to classes; "the first row that" is any row that, because rows come in the order the controller sends them; coordinates are reduced to the set of cells without a solution |
| `AppSort` | the sorter with the calls main and the host link make on it | `ctl` is the file-scope state of `app_sort.c` and the lamp last asked for; one action is one call from the main loop; each `static` function that runs in a Poll is an operator on `ctl` |
| `MatrixModbus` | the KEY2 cycle, the bus and the controller | one `Poll` is one FC03 read, the last one with the checks and the commit; registers are kept by packet, a packet of a grid is one value |
| `MatrixRead` | what a KEY2 read promises | abstract specification: publish, begin, commit, fail, clear |
| `ArmMotion` | the blocking motions with drives, valves, belts and one seedling | a motion is a sequence of steps built from the C functions (`PickPlace`, `GoHome`, `RunUntilSensor`); one action is one Modbus write, valve output or wait |
| `MotionCall` | what the sorter takes a motion for | abstract specification: begin, succeed, fail, safe stop; a stop at any time |
| `ModbusMaster` | the Modbus master called by main and by a caller that preempts it, with the bus and the receive ring | one action is one step of `ModbusMaster_TxnExec`: the mutex, an attempt, the wait for its answer, the copy of the result, the history |
| `RxRing` | the receive ring of a serial port between the interrupt and the transaction that reads it | one action is one access of the reader to an index, a cell or the data register; the interrupt may come between any two |
| `ByteQueue` | what a receive ring promises | abstract specification: take, drop and count, read, flush |
| `TextLink` | hosts, TCP and the line parser of the host link | one action is one event of the server or half a line going into the parser; rows are values with the sum of their characters |
| `MatrixLink` | what the text link promises | abstract specification: hear, reconnect |
| `MCAppSort`, `MCMatrixModbus`, `MCArmMotion`, `MCModbusMaster`, `MCRxRing`, `MCTextLink` | | the sets the configurations use |
| `MatrixProofs`, `AppSortProofs`, `ModbusMasterProofs`, `RxRingProofs`, `MatrixModbusProofs`, `TextLinkProofs`, `ArmMotionProofs` | | the theorems |

`AppSort` takes a whole motion as one step with every possible result and a
possible emergency stop in it; `ArmMotion` opens that step, and implements
`MotionCall`, which states it.  `AppSort` takes a whole KEY2 cycle as one step that
commits a grid or fails; `MatrixModbus` opens that one, and `MatrixRead` is the
bridge between the two.  In the same way `ModbusMaster` has whole frames where `RxRing` has bytes, with `ByteQueue` between
them, and `AppSort` commits or clears a table where `TextLink` parses lines, with
`MatrixLink` between them.

`AppSort`, in detail.  `Poll` first recomputes geometry on a dirty table, then
serves a pending standby request, then makes one step of the main state
(`Dispatch`).  `FlagSwitch` is the switch of `sorting_tick`, `RunFlag2`,
`RunFlag3` and `RunConveyor` the functions of the sub-steps.  Time is counted in
main loop passes up to `STEP_HOLD` and `ALARM44`.  `out` records which motions a
call started; `fresh` whether a matrix was committed since the last belt run.

`MatrixModbus`, in detail.  `Replies` gives every way a read may end: a timeout
whose answer is lost or stays on the bus, a garbled frame, or the first answer to
arrive, accepted if it has the right length.  `bypass` is the build; the
controller may raise its updating flag before it rewrites its registers, or not.
A CRC32 is taken to be free of collisions.  A late answer carries what the
registers held when its request was made.  `key2` is the flag the interrupt sets;
`EXTI_PopKey2` is two actions, its test and its clearing, with a press possible
between them.

`ArmMotion`, in detail.  The drives behave as in
`src/tools/servo_modbus_sim.py`.  On a `lossy` bus a write is carried out or not,
and answered with an error or not; writes whose result the code discards may be
lost.  While the master holds the bus an emergency stop's own writes come back
BUSY and do nothing, which is what its mutex does to a caller that preempts its
owner.  A wait may end by the latch, by its timeout or by arrival.

`ModbusMaster`, in detail.  A frame is a record of slave, function and exception
bit, or `Garbled`.  `isr` stands for a caller that preempts `main` and runs to its
end; it finds the bus busy, or free, at every step of a transaction.  `Receive`
takes what is in the ring up to some silence for one frame: several frames
together fail the CRC or the buffer, one is checked (`Checked`) against the
request, which it matches by slave and function alone; an answer with a good CRC
may still be an exception or have the wrong length (`misfit`, `ERR_LEN`).  `late` says whether an
answer may still be under way when the next request has gone out; if it may not,
it is in the ring by the time `RxFlush` empties it.  What `ArmMotion` assumes of a
servo write, that it was carried out if it was answered OK, is `OnlyOwnAnswers`.
The wait for the mutex ends by the millisecond tick, which is taken to run: it
would not for a caller above the priority of SysTick, and none is in the tree.

`RxRing`, in detail.  `dr` is the data register of the port; a byte that arrives
while it is full is lost to an overrun.  The motor port (`bsp_uart.c`) is deaf
while it sends, the matrix port (`bsp_uart3.c`) is not.  `ReadByte` is three steps:
it loads the write index, copies the byte, gives the cell back.  `master_recv_adu`
around it ends by silence, by time or by a full buffer, which the model lets happen
at any turn of its loop.

`TextLink`, in detail.  A frame is rows, a declared count and whether its last line
agrees; `Line(f, i)` is its i-th line.  The stream is cut at line ends and in the
middle of a line, which are the cuts the parser can tell apart; a pbuf is parsed or
dropped whole.  A line put together from parts of different lines (`Joined`) may
read as any START or total line, as any row of `Odd`, as an END with the checksum of
a frame, with one of `OddSums` or with none, or be too long.  The checksum is that
of the code, the sum of the characters of the rows modulo 2^16 (`Checksum`): each row
has the `sum` of its characters as a field of its own, because the columns `u`, `v`
and `z`, which the model leaves out, count in it too.  Rows of different frames may
have equal sums, and the proofs assume nothing of them.  Rows are compared by what
was written; `CellOf` clamps a cell as `iround_bounded` does.  The snapshots for the
display (`s_raw_last_*`), counters and texts are left out, and
`AppMatrix_SetFromTcpParser` checks what the parser has checked, so it cannot fail.
`heard`, `alone` and `lost` are history for the properties: the frames of which
something was parsed, the connection that sent every line since START, and whether a
line of its frame was dropped.

## 3. Runs

| run | question | bounds |
|---|---|---|
| `passes` | does a pass sort and end, and what survives failing motions, failing geometry and emergency stops in a motion? | 3 trays of 2 cells, 27 grids (three states of each tray), a geometry failure in any cell, 2 reads, no hold time |
| `host` | do flag 44, its timer, the lamp and a pending standby request stay right while the table changes under the pass? | 1 cell a tray, three host tables (full, without a tray, one row), KEY2 at any time, hold time 2, a 44 window of 3 |
| `modbus` | does the cycle keep the promise of `MatrixRead`, in the strict and in the default build, does it end, is a press served? | 2 packets, 2 grids, 2 late answers |
| `ring` | is the ring a queue, and an answer what came after its request? | 4 cells, 2 byte values, 6 bytes between flushes, 2 bytes dropped |
| `master` | are transactions and answers kept apart, and does every call return? | 4 requests (servo read and write, lamp, a frame too short to send), a history of 2, 1 answer under way, 2 frames in the ring |
| `arm_stop` | is anything left running after an emergency stop, and does the table tell the truth, on a bus that works and on one that loses writes? | none needed: the state is finite |
| `text` | does the parser keep the promise of `MatrixLink`, does a good frame count and a broken one not, is the best of a window taken? | 2 clients, 2 frames whose first rows have the same sum, 2 cells, a joined line that reads as a row of a frame, as one that cannot be parsed or as the checksum of that row alone, the default build and one with a window of 2 that shuts the gate |
| `estop`, `oldmatrix`, `autostart`, `arm_home`, `gate` | statements the code does not keep, section 5 | as small as shows it |

Why the bounds are enough.  A pass looks at trays only through "is every cell of
one class" and "is there a cell of this class", so two cells a tray show uniform,
mixed and partly free trays and one transfer more than the last; `host` needs only
one because its question is the control state.  A second read is needed for a
commit followed by a failed read.  Two packets let a grid be torn between them and
two late answers be swapped; two grids let the controller publish during a cycle.
A history of two wraps as one of eight does; two frames in the ring are the fewest
that can be read as one.  A ring of four cells fills, overflows and wraps within
six bytes.  Two clients are the fewest that mix, a window of two the shortest that
has to choose, two rows the fewest of which one can be lost.  Section 6 proves most of
the safety properties for every size.

What the runs show: with reads between passes (`ReadsAnytime = FALSE`, no host
link) a pass has one valid full matrix from its first sub-step to its belt
(`PassHasMatrix`), never meets the fault "FL3:no dst" (`FL3HasDestination`), runs
a belt only for a tray whose condition the table shows (`BeltJustified`), and
every transfer reduces the seedlings out of place (`TransferProgress`), so it
reaches a belt (`PassReachesBelt`).  Those properties say nothing about a read
or a host frame in the middle of a pass, which the code does not refuse.  `host`
makes them at any time and keeps only what survives them.

`host` also shows that a standby request accepted in IDLE or PAUSE is used up by a
homing motion only (`StandbyKept`), except in the 44 window.

`modbus` shows that in the strict build the second header and the CRC suffice even
against a controller that never raises its updating flag and against answers taken
for one another, as long as no more than N + 1 of them are under way: with N + 2,
all late, a whole cycle can be answered by the answers to an earlier one, and TLC
finds that for N = 1.  In the default build, where those gates are compiled out, the
validator still guarantees every cell once, possibly of different grids.  A press of
KEY2 is never lost to the read it comes in (`PressIsServed`): two presses may be
served by one read, but that read begins after both.

`ring` shows that the two indices need no lock.  What a flush cannot do is tell a
late byte of an old answer from the first byte of the new one: `AnswerIsWhatCame`
counts from the flush, and `OnlyOwnAnswers` above it names the assumption.

`master` shows that the mutex keeps the transactions apart although a preempting
caller may come between any two steps, and that a call that found the bus busy
leaves no trace.  `OnlyOwnAnswers` is about a bus whose answers come before the
next request is sent.  With later ones (`late`) a call may be told OK by the answer
to the one before it, and a servo request that follows the lamp may end with
ERR_SLAVE: slave and function are all the master has to match by.

`text` shows what the checks of the parser are worth (`KeepsPromise`): whatever pbuf
is dropped and whoever else sends, a table has rows that were sent, no two for one
cell, with the checksum of a frame; what parts of lines read as is the exception.
They do not show that its rows came in one frame, and in the code they need not have:
the sum of bytes is the same for a frame and for the first rows of one with the last
rows of another if the exchanged parts have equal sums.  The frames of the run are
chosen so, and TLC reaches tables that no host has sent, put together from two
connections or from what dropped pbufs leave of two frames.  What does hold of a frame
that no other is mixed into is `WholeFrameCounts`: if all its lines come through
nothing that came before makes the parser refuse it, and if one is lost it is not
counted, whatever the sums are, because then the count is short.  `BestOfWindow` says
which frame of a window wins: the two frames differ in seedlings, the first and the
mixture only in confidence.

`QuietAtRest` holds on a bus that loses nothing but the writes an emergency stop
makes while the bus is busy; with other writes lost a drive may of course go on
moving, so of the lossy bus `arm_stop` asks about the table and the seedling.
`OneMoveAfterLatch` allows one move command behind the latch because the code
sends target, enable and trigger without polling it between them.
`IsMotionCall` shows that `AppSort` may take a motion for one step: the table has the
transfer exactly when the call succeeded, and a failure reaches the safe stop.
`TableTold` is about a motion that began with the seedling in its row.  After a
destination move fails, the fault opens the gripper, the table still names the
source row, and the next pass will pick there again and record a transfer of
nothing: the firmware has no sensor that would tell.

## 4. Fairness

The runs with liveness use `FairSpec`, weak fairness of `Poll` (sorter), of `Main`
(what main does for KEY2: it sees the press, clears it, polls) or of `Run`
(motions), and strong fairness of `TxnExec` of each caller: a preempting call comes
back to main, which gets on however often it is preempted.  `main` is a `for (;;)`
loop that calls `AppSort_Poll` in each turn and `AppMatrixModbus_Poll` until its
cycle is over; requests happen between two turns and cannot keep the loop from going
on.  Each wait of a motion is bounded by a timeout (`SERVO_MOVE_TIMEOUT_MS`,
`CFG_CONVEYOR_TIMEOUT_MS`), so a motion step is always eventually taken.  The
drives, the photocells, the controller, the hosts, the keys and the bus have no
fairness.  `PassReachesBelt` has four exits, each a thing that really happens: the
sorter leaves RUN, it is sent to standby, the belt runs, or the commit is lost to a
failed read after a standby request has dropped the sub-step.

## 5. Where code and documents disagree

* `estop`: an emergency stop during a motion ends in FAULT, not ESTOP
  (`enter_fault_mode` does not look at the latch).  The latch still blocks Start.
* `oldmatrix`: after a belt run the next pass starts on the table of the tray
  that left; the armed sample window is not what `sort_matrix_ready_strict` asks.
* `autostart`: KEY2 starts the sorter after a failed read too.
* `arm_home`: the belt runs after a homing motion that failed.
* `gate`: a build that shuts the gate after a frame still parses the rest of the
  pbuf, and a START in it empties the table that was just committed.

Also seen, without a document that says otherwise: a standby request outlives an
emergency stop and is served after `RequestClearFault`; a standby request taken up
in the 44 window is overwritten when the window ends; a KEY2 read is accepted in
the middle of a pass; a stop after the last poll of a belt run leaves the lamp green
behind the latch; with the default gates a KEY2 read ends in status 2 without
a CRC having been compared.  The head of `User/tcp/app_protocol.c` says a value out
of range discards its frame; `iround_bounded` makes it the nearest in range, and the
frame is committed (`TwoFrames` of `MCTextLink` has such a row).  Rows of two frames
whose exchanged parts have equal byte sums are committed as one matrix, as section 3
says; no document claims that the checksum would refuse them.

## 6. Theorems

`MatrixProofs` has the facts about the table: a transfer keeps it a table of the
same cells, keeps the number of seedlings of each class, and what it does to the
sets of cells of one class.  `AppSortProofs` proves, for every number of cells,
every set of grids, hosts and geometry failures, every build and every bound:
`TypeCorrect`, `LatchKeepsStopped`, `Flag44Timed`, `NoFlagLeftOver`,
`PassOnMatrix`, `BeltsJustified`, `FL3AlwaysHasDestination`, and as properties of
steps `LatchStopsMotion`, `PauseMovesNothing`, `TransfersProgress` and
`StandbyStays`; and `LampTells` for the builds where no stop preempts a motion.

They rest on one inductive invariant, `Inv`:

* `TypeOK`, and `ControlLogic`, the relations between main state, latch, flag and
  timer, which are preserved by every effect on the control state separately (one
  lemma per effect, `EstopControl`, `StartControl`, ...);
* without host link and with reads between passes: the table is empty or a full
  grid; a sub-step in force has a good commit, no geometry failure, and the
  condition of its flag (`PassInv`); and the table of a pass is not dirty.

The last conjunct is the strengthening: `PassHasMatrix` and `BeltJustified` are
not inductive alone, because a Poll recomputes geometry on a dirty table before it
steps, and because the condition of FL3 has to be carried through transfers of
class 1 seedlings that do not disturb it.  `NextInv` has one lemma for each kind
of call; under Poll one for each sub-step, each split into its outcomes.

`FL3HasDestination` follows by counting: with no class 2 seedling on tray 1 and
tray 1 not all class 1, a cell of tray 1 is free.  `TransfersProgress` uses the
cardinality lemmas of `MatrixProofs`.  Assumptions are those of the modules:
`Slots` finite and not empty, the input sets of the right shape, the switches
Boolean, the bounds natural numbers, an emergency stop in a motion only in a build
that has motions.

`ModbusMasterProofs` proves, for every set of requests, every depth of the history
and every bound of the bus: `TypeCorrect`, `MutualExclusion`, `AnswersBelong`,
`TriesBounded` and `HistoryRight`, each in the presence of a caller that preempts
main at any step.  `OneTransaction` is inductive with the types; the others need
more.  For the answers (`OwnInv`): while a caller waits, every frame on the wire or
in the ring is garbled or an answer to its own request, a good one only if the
request was carried out; mutual exclusion keeps the other caller from sending
meanwhile.  For the attempts (`TriesInv`): the request was carried out fewer times
than the attempt about to be made.  For the history (`HistInv`): the n-th newest
entry is in slot `Slot(w, n)`, and the last result is ahead of the history between
`SaveLast` and `PushHist` only.

`RxRingProofs` proves, for every size of the ring and every bound, `TypeCorrect`,
`ReaderHolds`, `RingIsByteQueue` and `AnswerComplete`.  The invariant is `Held`: the
write index the reader loaded is not ahead of the present one, counted from the read
index, so a ring that was not empty then is not empty now; the byte it copied is
still in its cell; and the cells between the indices hold bytes.  With it each step
maps to one of `ByteQueue` or to a stutter: a byte enters where the interrupt stores
it and leaves where `FreeCell` gives its cell back.  The work is in the arithmetic
of the wrapped indices.

`MatrixModbusProofs` proves `TypeCorrect`, `TableIsWhole` and `ReadKeepsPromise`
under `MaxLate <= N + 1`.  The invariant (`HeadersTrue`, `SnapTrue`, `Fresh`): a
header, in the registers or under way, that says it is ready carries the CRC of its
own grid; the header the cycle goes by is one of those; and of the answers under way
only the first `MaxLate - Reads` can be headers from before the cycle, since each of
its reads that went on took an answer away from in front.  When the tail is read,
`Reads` is N + 1, so the second header is from within the cycle; its batch is that of
the first, and the equality of CRCs ties every packet to that one grid.

`TextLinkProofs` proves, for every set of clients, frames, odd rows and builds,
`TypeCorrect`, `TrustCommitted`, `LinkKeepsPromise`, `WholeFramesCount` and
`WindowTakesBest`; of the sums of the rows they assume that they are natural numbers and
nothing else.  The invariant says that the rows being put together and those of the
candidates are rows of frames heard since the last client came or went, or of `Odd`
(`AllKnown`), and that the candidates and what waits for the total line have a
checksum that was heard (`Fit`).  For `WholeFramesCount` (`AloneInv`): while one client sent every
line since START and none was lost, the parser holds its declared count and exactly
the rows before its current line; once one was lost it has fewer rows than its frame,
too few for the rest to make up, or is idle.  `WindowTakesBest`
needs frames to be comparable, so that the average confidence, a fold over the rows,
is a number.  This is induction over the rows, carried out without an induction rule:
were the sum of some set of rows no number, there would be a smallest such set
(`LeastOne`, from the well-foundedness of `<`), and its sum is a number and the sum
of a smaller set.  The same argument shows that the function the fold chooses exists.

`ArmMotionProofs` proves, for both builds and for a bus that works or loses writes,
`TypeCorrect`, `TableIsTold`, `QuietWhenBack`, `OneMoreMove`, `ProgramNeverDrops`
and `MotionIsOneCall`, the refinement of `MotionCall`.  Its module has no sizes, and
`arm_stop` visits every state; what the proof adds is the reason.  First come facts
about the programs, which are put together of the same few pieces: `ProgramAt` says
which kind of step is where, `Kind` what may follow it.  The inductive invariant,
`Inv`, speaks of positions in them:

* `HonestDrives`, `Commanded`: a drive reports its target reached only when it is
  there, and between its target and the end of its wait it has the target of the
  step that waits;
* `InPlace`: past its wait a joint stands where it was sent, until it is sent on;
* `MovesInWait`: if no write is lost, a drive moves only while the program waits for
  it.  A stop that comes while the bus is busy cannot stop that drive; the wait sees
  the latch and does, before the motion is given up;
* `Cylinder`, `Gripper`, `Conveyor`: where an output may be on;
* `Carried`, `Moved`: where the seedling is by then, and that the table says `dst`
  only after the last step;
* `StartedLate`: behind the latch nothing is started but what is waited for.

`TableTold` alone is not inductive: that the seedling reaches its row depends on both
drives standing there when the gripper opens, hence `InPlace` and, below it,
`Commanded`; and that it was still held depends on every poll of the latch between
grip and release.  The refinement needs only the types and `ProgramAt`: a transfer is
recorded by the last step, and each step that fails leads to the safe stop.

Only model-checked: the liveness properties (`PassReachesBelt`, `Flag44Ends`,
`ReadEnds`, `PressIsServed`, `MotionEnds`, `CallsEnd`), out of the prover's reach
because they need ENABLED.  Every other property of a passing run has a theorem,
`LampTellsStop` for the builds where no stop preempts a motion, as in its run.

## 7. Not modelled

Inverse kinematics (floating point; a nondeterministic choice of cells without a
solution stands for it), display, network self-test, the ROS2 bridge and the
matrix test generator (not part of a pass; the bridge is not built), calibration
scripts and board drivers.  Nothing in the tree calls the network self-test, so what
would call it, and when, is not known.  Read, not checked: if `AppNetTest_Start` came
without a link while a connection is being made, `nettest_finish_all` would return
early, leave the phase at `NT_TCP_CONNECTING` with no connection, and the automatic
cycle would never start again.

Most of the lines under `src/` are vendored: the CMSIS, the ST peripheral library,
lwIP and the Ethernet driver under `Library/` and `Hardware/eth/`, some 166 000 lines
of the 188 000.  They are modelled from how `User/` uses them (TCP keeps the order of
bytes and cuts them anywhere, an interrupt comes when it likes, a register has one
byte).  Of the 12 000 lines of the firmware itself more than a third is drawing on
the display and clock set-up.

Left out of components that are modelled in part: parameter writes, jog helpers and
alarm reading of the motors; the debouncing of the photocells; the unpacking of
matrix registers into rows; the trace buffers of the serial ports; the display
snapshots of the text link.

## 8. Plan

1. Done: `Matrix`, `AppSort`; `MatrixRead`, `MatrixModbus`; `ArmMotion`;
   `ModbusMaster`; `ByteQueue`, `RxRing`; `MatrixLink`, `TextLink`; the proofs of
   all of them.
2. An abstract specification of a bus call (carried out or not, answered or not)
   that `ModbusMaster` implements and `ArmMotion` uses.
3. The composition of `TextLink` with `AppSort`, in place of `HostClear` and
   `HostCommit`.
