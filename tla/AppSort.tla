------------------------------- MODULE AppSort -------------------------------
(***************************************************************************)
(* The sorting orchestration of app_sort.c with the parts of main.c,       *)
(* app_matrix.c, app_matrix_modbus.c and app_tcp_server.c it acts on.  One *)
(* action is one call made from the main loop: a Poll, a request, a KEY    *)
(* handler or a callback of the host link.  A blocking motion inside a     *)
(* Poll returns once, with any of its results; RequestEstop may be called  *)
(* while it blocks (EstopInterrupts), which is what the latch polling in   *)
(* the motion loops is for.                                                *)
(***************************************************************************)
EXTENDS Matrix

CONSTANTS
  Grids,            \* full grids the vision controller may report
  HostGrids,        \* tables the host may send as text
  GeomFailures,     \* sets of cells whose inverse kinematics may fail
  RealMotion,       \* REAL_HW: motions may fail; FALSE in the SAFE_SIM build
  EstopInterrupts,  \* RequestEstop may preempt a blocking motion
  AutoStart,        \* CFG_SORT_DEBUG_AUTO_START_AFTER_KEY2
  Bypass,           \* CFG_MATRIX_K2_BYPASS_GATES
  HostLink,         \* the lwIP text link is in the image
  ReadsAnytime,     \* KEY2 is pressed during a pass too, not only between passes
  STEP_HOLD,        \* CFG_SORT_DEBUG_STEP_HOLD_MS, in main loop passes
  ALARM44,          \* CFG_SYS_FLAG44_ALARM_MS, in main loop passes
  MaxReads          \* bound on the number of KEY2 reads that commit

ASSUME InputsAssumption ==
  /\ Grids \subseteq FullGrids
  /\ HostGrids \subseteq Tables
  /\ GeomFailures \subseteq SUBSET Cells

ASSUME BuildAssumption ==
  /\ {RealMotion, EstopInterrupts, AutoStart, Bypass, HostLink, ReadsAnytime} \subseteq BOOLEAN
  /\ EstopInterrupts => RealMotion
  /\ {STEP_HOLD, ALARM44, MaxReads} \subseteq Nat

VARIABLES
  ctl,        \* the file-scope state of app_sort.c, and the alarm lamp
  rows,       \* s_tbl / s_used: the matrix table
  noGeom,     \* cells of the table with geom_ok = 0
  dirty,      \* s_geom_dirty
  commitOk,   \* s_last_commit_ok
  readSt,     \* s_read_status
  out,        \* motions and reads started by the last call
  fresh,      \* history: a matrix was committed since the last belt run
  reads       \* number of KEY2 reads that committed, bounded by MaxReads

vars == <<ctl, rows, noGeom, dirty, commitOk, readSt, out, fresh, reads>>
matVars == <<rows, noGeom, dirty, commitOk, readSt, fresh, reads>>

Main   == {"IDLE", "RUN", "PAUSE", "FAULT", "ESTOP"}
Step   == {"WAIT_MATRIX", "SORTING"}
Flag   == {"IDLE", "FL2", "FL3", "FL4", "FL5", "FL6", "FL44", "FL45"}
Lamp   == {"off", "red", "green", "key1"}
Motion == {"pick", "home", "belt"}

Control ==
  [main : Main, step : Step, hold : BOOLEAN, flag : Flag,
   active44 : BOOLEAN, elapsed44 : 0..ALARM44, req45 : BOOLEAN,
   sinceStep : 0..STEP_HOLD, lamp : Lamp]

TypeOK ==
  /\ ctl \in Control
  /\ rows \in Tables
  /\ noGeom \in SUBSET DOMAIN rows
  /\ dirty \in BOOLEAN
  /\ commitOk \in BOOLEAN
  /\ readSt \in {"idle", "ok", "err"}
  /\ out \in SUBSET (Motion \cup {"read"})
  /\ fresh \in BOOLEAN
  /\ reads \in 0..MaxReads

Init ==
  /\ ctl = [main |-> "IDLE", step |-> "WAIT_MATRIX", hold |-> FALSE, flag |-> "IDLE",
            active44 |-> FALSE, elapsed44 |-> 0, req45 |-> FALSE,
            sinceStep |-> STEP_HOLD, lamp |-> "off"]
  /\ rows = NoRows /\ noGeom = {} /\ dirty = FALSE
  /\ commitOk = FALSE /\ readSt = "idle"
  /\ out = {} /\ fresh = FALSE /\ reads = 0

-----------------------------------------------------------------------------
\* Effects on the control state, composed by the handlers below.

\* Mutant: the timer of flag 44 is not stopped.
ResetInnerKeeps44(c) == [c EXCEPT !.step = "WAIT_MATRIX", !.flag = "IDLE"]

\* The inner state every stop and every start from IDLE or FAULT resets.
ResetInner(c) ==
  [c EXCEPT !.step = "WAIT_MATRIX", !.flag = "IDLE", !.active44 = FALSE, !.elapsed44 = 0]

\* Mutant: the sub-step of the pass is kept.
EnterFaultKeepsFlag(c) ==
  [c EXCEPT !.main = "FAULT", !.step = "WAIT_MATRIX", !.active44 = FALSE, !.lamp = "red"]

EnterFault(c) == [ResetInner(c) EXCEPT !.main = "FAULT", !.lamp = "red"]

Estop(c) ==
  [ResetInner(c) EXCEPT !.hold = TRUE, !.main = "ESTOP", !.sinceStep = STEP_HOLD, !.lamp = "red"]

ClearFault(c) ==
  [ResetInner(c) EXCEPT !.hold = FALSE, !.main = "IDLE", !.sinceStep = STEP_HOLD, !.lamp = "off"]

\* Mutant: the latch is not asked.
StartIgnoresLatch(c) ==
  IF c.main = "PAUSE" THEN [c EXCEPT !.main = "RUN"]
  ELSE [ResetInner(c) EXCEPT !.main = "RUN", !.sinceStep = STEP_HOLD, !.lamp = "off"]

Start(c) ==
  IF c.hold THEN c
  ELSE IF c.main = "PAUSE" THEN [c EXCEPT !.main = "RUN"]
  ELSE IF c.main \in {"IDLE", "FAULT"}
       THEN [ResetInner(c) EXCEPT !.main = "RUN", !.sinceStep = STEP_HOLD, !.lamp = "off"]
  ELSE c

\* The control state when a blocking motion started in state c returns.
AfterMotion(c) == {c} \cup (IF EstopInterrupts THEN {Estop(c)} ELSE {})

\* The time measured since the last step and since flag 44, one unit a pass.
Elapse(c) ==
  [c EXCEPT !.sinceStep = IF @ < STEP_HOLD THEN @ + 1 ELSE @,
            !.elapsed44 = IF c.active44 /\ @ < ALARM44 THEN @ + 1 ELSE @]

-----------------------------------------------------------------------------
\* Readiness of the matrix after the flush, with geometry failures bad.

\* Mutant: the geometry is not asked.
MatrixReadyIgnoresGeometry(bad) == commitOk /\ DOMAIN rows # {}

\* sort_matrix_ready_strict
MatrixReady(bad) == commitOk /\ DOMAIN rows # {} /\ bad = {}

\* sort_geom_inconsistent_fault
GeomInconsistent(bad) == commitOk /\ DOMAIN rows # {} /\ bad # {}

\* recompute_geom, run by AppMatrix_FlushPendingGeometry on a dirty table
Geometry == IF dirty THEN {b \cap DOMAIN rows : b \in GeomFailures} ELSE {noGeom}

\* A call ends in control state c having started the motions cmds.
Return(c, cmds) == ctl' = c /\ out' = cmds

-----------------------------------------------------------------------------
\* The steps of sorting_tick.  c is the control state the step starts from,
\* bad the cells without geometry, cmds the motions this Poll already made.

\* Mutant: tray 1 is never searched.
SourcesClass2OnTray2(t, bad) == RowsWithGeom(t, bad, 2, 2)

\* pick_src_row_class2: tray 1 before tray 2
SourcesClass2(t, bad) ==
  IF TrayHasClassWithGeom(t, bad, 1, 2) THEN RowsWithGeom(t, bad, 1, 2)
                                        ELSE RowsWithGeom(t, bad, 2, 2)

\* Mutant: only tray 1 is asked for a second class seedling.
AfterTransfer2AsksTray1(c, t, bad) ==
  IF ~TrayHasClassWithGeom(t, bad, 1, 2) /\ CheckTrayFullOrEmpty(t, 3) # 2
  THEN [c EXCEPT !.flag = "FL3"] ELSE c

\* The decision run_flag2_once takes again after a successful transfer.
AfterTransfer2(c, t, bad) ==
  IF SourcesClass2(t, bad) = {} /\ CheckTrayFullOrEmpty(t, 3) # 2
  THEN [c EXCEPT !.flag = "FL3"] ELSE c

RunFlag2(c, bad, cmds) ==
  LET sources == SourcesClass2(rows, bad)
      empties == RowsWithGeom(rows, bad, 3, 0)
      full    == CheckTrayFullOrEmpty(rows, 3) = 2
  IN  /\ fresh' = fresh
      /\ \/ /\ full \/ (sources # {} /\ empties = {})
            /\ Return([c EXCEPT !.flag = "FL6"], cmds) /\ rows' = rows
         \/ /\ ~full /\ sources = {}
            /\ Return([c EXCEPT !.flag = "FL3"], cmds) /\ rows' = rows
         \/ /\ ~full
            /\ \E src \in sources, dst \in empties, c2 \in AfterMotion(c) :
                 \/ /\ rows' = ApplyTransfer(rows, src, dst)
                    /\ Return(AfterTransfer2(c2, rows', bad), cmds \cup {"pick"})
                 \/ /\ RealMotion
                    /\ Return(EnterFault(c2), cmds \cup {"pick"}) /\ rows' = rows

RunFlag3(c, bad, cmds) ==
  LET sources == RowsWithGeom(rows, bad, 2, 1)
      empties == RowsWithGeom(rows, bad, 1, 0)
      full    == CheckTrayFullOrEmpty(rows, 1) = 1
  IN  /\ fresh' = fresh
      /\ \/ /\ full
            /\ Return([c EXCEPT !.flag = "FL4"], cmds) /\ rows' = rows
         \/ /\ ~full /\ sources = {}
            /\ Return([c EXCEPT !.flag = "FL5"], cmds) /\ rows' = rows
         \/ /\ ~full /\ sources # {} /\ empties = {}
            /\ Return(EnterFault(c), cmds) /\ rows' = rows
         \/ /\ ~full
            /\ \E src \in sources, dst \in empties, c2 \in AfterMotion(c) :
                 \/ Return(c2, cmds \cup {"pick"}) /\ rows' = ApplyTransfer(rows, src, dst)
                 \/ /\ RealMotion
                    /\ Return(EnterFault(c2), cmds \cup {"pick"}) /\ rows' = rows

\* run_conveyor_flag: arms the sample window, homes the arm, runs the belt.
RunConveyor(c, cmds) ==
  /\ rows' = rows
  /\ fresh' = FALSE
  /\ \E c2 \in AfterMotion(c) :
       \/ Return([c2 EXCEPT !.flag = "IDLE", !.lamp = "green"], cmds \cup {"home", "belt"})
       \/ RealMotion /\ Return(EnterFault(c2), cmds \cup {"home", "belt"})

\* enter_sys_flag44: flag, timer and lamp around the homing motion
EnterFlag44(c, cmds) ==
  \E c2 \in AfterMotion([c EXCEPT !.flag = "FL44", !.active44 = TRUE, !.elapsed44 = 0]) :
    Return([c2 EXCEPT !.lamp = "red"], cmds \cup {"home"})

FlagIdle(c, bad, cmds) ==
  \/ GeomInconsistent(bad) /\ Return(EnterFault(c), cmds)
  \/ MatrixReady(bad) /\ Return([c EXCEPT !.flag = "FL2"], cmds)
  \/ ~GeomInconsistent(bad) /\ ~MatrixReady(bad) /\ Return(c, cmds)

\* Mutant: the alarm lamp stays on.
Flag44WindowKeepsLamp(c, cmds) ==
  Return(IF c.elapsed44 >= ALARM44
         THEN [c EXCEPT !.active44 = FALSE, !.elapsed44 = 0, !.flag = "IDLE"] ELSE c, cmds)

\* The case of the 44 window: only its expiry does anything.
Flag44Window(c, cmds) ==
  Return(IF c.elapsed44 >= ALARM44
         THEN [c EXCEPT !.active44 = FALSE, !.elapsed44 = 0, !.flag = "IDLE", !.lamp = "off"]
         ELSE c, cmds)

FlagSwitch(c, bad, cmds) ==
  \/ c.flag = "IDLE" /\ FlagIdle(c, bad, cmds) /\ UNCHANGED <<rows, fresh>>
  \/ c.flag = "FL2" /\ ~AllThreeTraysPresent(rows)
                    /\ EnterFlag44(c, cmds) /\ UNCHANGED <<rows, fresh>>
  \/ c.flag = "FL2" /\ AllThreeTraysPresent(rows) /\ RunFlag2(c, bad, cmds)
  \/ c.flag = "FL3" /\ RunFlag3(c, bad, cmds)
  \/ c.flag \in {"FL4", "FL5", "FL6"} /\ RunConveyor(c, cmds)
  \/ /\ c.flag = "FL45"
     /\ \E c2 \in AfterMotion(c) : Return([c2 EXCEPT !.flag = "IDLE"], cmds \cup {"home"})
     /\ UNCHANGED <<rows, fresh>>

\* Mutant: the sub-step of the pass is resumed instead.
TakeStandbyKeepsFlag(c) == [c EXCEPT !.req45 = FALSE]

\* A standby request left over from IDLE or PAUSE becomes flag 45.
TakeStandby(c) ==
  IF c.req45 THEN [c EXCEPT !.req45 = FALSE, !.flag = "FL45"] ELSE c

SortingTick(c, bad, cmds) ==
  \/ /\ c.sinceStep < STEP_HOLD
     /\ Return(c, cmds) /\ UNCHANGED <<rows, fresh>>
  \/ /\ c.sinceStep >= STEP_HOLD
     /\ LET d == TakeStandby([c EXCEPT !.sinceStep = 0])
        IN  \/ d.active44 /\ Flag44Window(d, cmds) /\ UNCHANGED <<rows, fresh>>
            \/ ~d.active44 /\ FlagSwitch(d, bad, cmds)

WaitMatrix(c, bad, cmds) ==
  Return(IF GeomInconsistent(bad) THEN EnterFault(c)
         ELSE IF MatrixReady(bad) THEN [c EXCEPT !.step = "SORTING", !.flag = "IDLE"]
         ELSE c, cmds)

-----------------------------------------------------------------------------
\* The calls made from the main loop.

\* Mutant: the request is served in every main state.
StandbyDueAnywhere == ctl.req45

\* A pending standby request is served by the Poll in IDLE and PAUSE.
StandbyDue == ctl.req45 /\ ctl.main \in {"IDLE", "PAUSE"}

\* Mutants: PAUSE runs the sorter; PAUSE freezes the timer of flag 44.
TickDueInPause(c) == c.main \in {"RUN", "PAUSE"} /\ c.step = "SORTING"

TickDueInRunOnly(c) == c.main = "RUN" /\ c.step = "SORTING"

\* sorting_tick runs in a pass, and in PAUSE only to let flag 44 expire.
TickDue(c) ==
  \/ c.main = "RUN" /\ c.step = "SORTING"
  \/ c.main = "PAUSE" /\ c.active44

Dispatch(c, bad, cmds) ==
  \/ /\ c.main = "RUN" /\ c.step = "WAIT_MATRIX"
     /\ WaitMatrix(c, bad, cmds) /\ UNCHANGED <<rows, fresh>>
  \/ TickDue(c) /\ SortingTick(c, bad, cmds)
  \/ /\ c.main \in {"IDLE", "FAULT", "ESTOP"} \/ (c.main = "PAUSE" /\ ~c.active44)
     /\ Return(c, cmds) /\ UNCHANGED <<rows, fresh>>

\* AppSort_Poll: flush, standby homing, then one step of the main state.
Poll ==
  /\ dirty' = FALSE
  /\ UNCHANGED <<commitOk, readSt, reads>>
  /\ \E bad \in Geometry :
       /\ noGeom' = bad
       /\ \/ ~StandbyDue /\ Dispatch(Elapse(ctl), bad, {})
          \/ /\ StandbyDue
             /\ \E c \in AfterMotion([Elapse(ctl) EXCEPT !.req45 = FALSE]) :
                  Dispatch(c, bad, {"home"})

RequestStart == Return(Start(ctl), {}) /\ UNCHANGED matVars

RequestPause ==
  /\ ctl.main = "RUN"
  /\ Return([ctl EXCEPT !.main = "PAUSE"], {}) /\ UNCHANGED matVars

RequestClearFault == Return(ClearFault(ctl), {}) /\ UNCHANGED matVars

RequestEstop == Return(Estop(ctl), {}) /\ UNCHANGED matVars

RequestStandbyHome ==
  /\ ~ctl.hold
  /\ \/ /\ ctl.main = "RUN" /\ ctl.step = "SORTING"
        /\ Return([ctl EXCEPT !.flag = "FL45"], {})
     \/ /\ ctl.main \in {"IDLE", "PAUSE"}
        /\ Return([ctl EXCEPT !.req45 = TRUE], {})
  /\ UNCHANGED matVars

\* KEY1 sends one fixed frame to the alarm lamp.
Key1 == Return([ctl EXCEPT !.lamp = "key1"], {}) /\ UNCHANGED matVars

\* The KEY2 handler of main.c: a complete read cycle of the vision controller
\* that ends in a commit, in an error that keeps the matrix, or in a rejected
\* grid; then the automatic start.
ReadSucceeds(g) ==
  /\ reads' = reads + 1
  /\ rows' = g /\ noGeom' = DOMAIN g /\ dirty' = TRUE
  /\ commitOk' = TRUE /\ fresh' = TRUE /\ readSt' = "ok"

ReadFails ==
  /\ UNCHANGED <<rows, noGeom, dirty, fresh, reads>>
  /\ readSt' = "err"
  /\ \/ ~Bypass /\ commitOk' = commitOk
     \/ commitOk' = FALSE

BetweenPasses == ctl.flag = "IDLE" \/ ctl.main \notin {"RUN", "PAUSE"}

Key2 ==
  /\ ReadsAnytime \/ BetweenPasses
  /\ \/ reads < MaxReads /\ \E g \in Grids : ReadSucceeds(g)
     \/ ReadFails
  /\ Return(IF AutoStart THEN Start(ctl) ELSE ctl, {"read"})

\* Mutant: the geometry flags survive the rows.
HostClearKeepsGeometry ==
  /\ HostLink
  /\ rows' = NoRows /\ dirty' = FALSE /\ commitOk' = FALSE
  /\ out' = {}
  /\ UNCHANGED <<ctl, noGeom, readSt, fresh, reads>>

\* AppMatrix_Clear by the text link: a new connection, its end, a START line
\* or a bad frame.
HostClear ==
  /\ HostLink
  /\ rows' = NoRows /\ noGeom' = {} /\ dirty' = FALSE /\ commitOk' = FALSE
  /\ out' = {}
  /\ UNCHANGED <<ctl, readSt, fresh, reads>>

\* AppSort_ShouldDiscardTcpMatrixStream
DiscardStream == ctl.main = "RUN" /\ ctl.step = "SORTING" /\ ctl.flag \in {"FL2", "FL3"}

\* The last line of an accepted text frame: clears, then writes the winner.
HostCommit(g) ==
  /\ HostLink /\ ~DiscardStream
  /\ rows' = g /\ noGeom' = DOMAIN g /\ dirty' = TRUE /\ commitOk' = FALSE
  /\ out' = {}
  /\ UNCHANGED <<ctl, readSt, fresh, reads>>

Requests ==
  \/ RequestStart \/ RequestPause \/ RequestClearFault
  \/ RequestEstop \/ RequestStandbyHome \/ Key1

Host == HostClear \/ \E g \in HostGrids : HostCommit(g)

Next == Poll \/ Key2 \/ Requests \/ Host

\* The main loop never stops calling AppSort_Poll.
Spec == Init /\ [][Next]_vars
FairSpec == Spec /\ WF_vars(Poll)

-----------------------------------------------------------------------------
(***************************************************************************)
(* Safety.                                                                 *)
(***************************************************************************)

\* The latch set by RequestEstop keeps the sorter out of IDLE, RUN and PAUSE
\* until RequestClearFault, also when a motion it interrupted ends in a fault
\* that overwrites the ESTOP state and leaves a state Start is offered in.
LatchedStates ==
  /\ ctl.hold => ctl.main \in {"ESTOP", "FAULT"}
  /\ ctl.main = "ESTOP" => ctl.hold

\* Flag 44 never stays behind without its timer: sorting_tick does nothing for
\* it then and the sorter would hang in RUN (the comment in the FL44 case says
\* this state is unreachable).  The timer runs only inside a pass.
Flag44HasTimer ==
  /\ ctl.flag = "FL44" => ctl.active44
  /\ ctl.active44 => /\ ctl.main \in {"RUN", "PAUSE"} /\ ctl.step = "SORTING"
                     /\ ctl.flag \in {"FL44", "FL45"}

\* No sub-step is left over from an earlier pass: waiting for a matrix, or
\* stopped by a fault, the run flag is idle, so a restart begins with FL2.
NoLeftoverFlag ==
  ctl.main # "ESTOP" /\ ctl.step = "WAIT_MATRIX" => ctl.flag = "IDLE"

Stopped == ctl.main \in {"FAULT", "ESTOP"} \/ ctl.active44

\* The alarm lamp is red exactly while the sorter is stopped by a fault, an
\* emergency stop or flag 44; KEY1 writes the same lamp register and may mask it.
LampTellsStop ==
  /\ Stopped => ctl.lamp \in {"red", "key1"}
  /\ ctl.lamp = "red" => Stopped

Sorting == ctl.main \in {"RUN", "PAUSE"} /\ ctl.step = "SORTING"
ModbusOnly == ~HostLink /\ ~ReadsAnytime

\* A pass works on one committed full grid with valid geometry.
PassHasMatrix ==
  ModbusOnly /\ Sorting /\ ctl.flag \in {"FL2", "FL3", "FL4", "FL5", "FL6"}
    => commitOk /\ ~dirty /\ noGeom = {} /\ DOMAIN rows = Cells

\* A belt is released only when the table says its tray is done: no second
\* class seedling is left on trays 1 and 2 once FL3 is reached, tray 1 is all
\* first class before belt 0 runs (FL4), tray 2 has none left before belt 1
\* (FL5), tray 3 has no free cell before belt 2 (FL6).
BeltJustified ==
  ModbusOnly /\ Sorting =>
    /\ ctl.flag \in {"FL3", "FL4", "FL5"} => CellsOf(rows, 2, {1, 2}) = {}
    /\ ctl.flag = "FL4" => \A c \in TrayCells(1) : rows[c] = 1
    /\ ctl.flag = "FL5" => CellsOf(rows, 1, {2}) = {}
    /\ ctl.flag = "FL6" => CellsOf(rows, 0, {3}) = {}

\* The fault "FL3:no dst" cannot happen in a pass over one matrix: as long as
\* tray 2 has a first class seedling and tray 1 is not all first class, tray 1
\* has a free cell.
FL3HasDestination ==
  ModbusOnly /\ Sorting /\ ctl.flag = "FL3" /\ CheckTrayFullOrEmpty(rows, 1) # 1
    /\ TrayHasClassWithGeom(rows, noGeom, 2, 1)
    => RowsWithGeom(rows, noGeom, 1, 0) # {}

(***************************************************************************)
(* Properties of steps.                                                    *)
(***************************************************************************)

\* While the latch is set, no call starts a motion.
LatchBlocksMotion == [][ctl.hold => out' \cap Motion = {}]_vars

\* PAUSE lets the 44 timer run and serves a standby request, and never sorts.
PauseNeverSorts == [][ctl.main = "PAUSE" => out' \cap {"pick", "belt"} = {}]_vars

\* A standby request accepted in IDLE or PAUSE survives pauses, faults, emergency
\* stops and starts, and only a homing motion uses it up.  The one exception is
\* the 44 window, resumed by a start before the next Poll: there sorting_tick
\* turns the request into flag 45, which the end of the window overwrites.
StandbyKept ==
  [][ctl.req45 /\ ~ctl'.req45 => "home" \in out' \/ ctl.active44]_vars

Unsorted(t) == Cardinality(CellsOf(t, 2, {1, 2})) + Cardinality(CellsOf(t, 1, {2}))

\* Every transfer loses no seedling and invents none, and leaves strictly less
\* to sort, so the sorter never carries a seedling back and forth.
TransferProgress ==
  [][("pick" \in out' /\ rows' # rows) =>
       /\ Unsorted(rows') < Unsorted(rows)
       /\ \A x \in Class : Cardinality(CellsOf(rows', x, Trays))
                             = Cardinality(CellsOf(rows, x, Trays))]_vars

(***************************************************************************)
(* Liveness, under the fairness of the main loop.                          *)
(***************************************************************************)

\* A pass that has begun reaches a belt run, unless the sorter leaves RUN, is
\* sent to standby, or, after a standby asked for in PAUSE has dropped the
\* sub-step, a failed read takes the good commit away.
PassReachesBelt ==
  (ctl.main = "RUN" /\ ctl.flag \in {"FL2", "FL3"})
    ~> ("belt" \in out \/ ctl.main # "RUN" \/ ctl.flag = "FL45" \/ ~commitOk)

\* The 44 alarm ends by itself, in PAUSE too.
Flag44Ends == ctl.active44 ~> ~ctl.active44

(***************************************************************************)
(* Statements of the documents that the code does not keep; each is        *)
(* refuted by a run of its own.                                            *)
(***************************************************************************)

\* "The main state is ESTOP ... until AppSort_RequestClearFault."
EstopUntilCleared == ctl.hold => ctl.main = "ESTOP"

\* "Until a new commit AppSort must not go on using the old one": once a belt
\* run has armed the sample window, no seedling is moved and no belt run again
\* before a matrix is committed.
NoPassOnOldMatrix == [][out' \cap {"pick", "belt"} # {} => fresh]_vars

\* "AppSort is started automatically after KEY2 has read the matrix."
AutoStartAfterGoodRead ==
  [][("read" \in out' /\ ctl.main # "RUN" /\ ctl'.main = "RUN") => readSt' = "ok"]_vars
=============================================================================
