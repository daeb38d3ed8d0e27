---------------------------- MODULE AppSortProofs ----------------------------
(***************************************************************************)
(* Theorems about AppSort for every value of its constants.                *)
(***************************************************************************)
EXTENDS AppSort, MatrixProofs

-----------------------------------------------------------------------------
(***************************************************************************)
(* The control state.  LatchedStates, Flag44HasTimer and NoLeftoverFlag    *)
(* are not inductive one by one (PAUSE ticks only while the 44 timer runs, *)
(* so a pending standby request can set a sub-step only inside a pass);    *)
(* together, as a predicate on the control record, they are.               *)
(***************************************************************************)
ControlLogic(c) ==
  /\ c.hold => c.main \in {"ESTOP", "FAULT"}
  /\ c.main = "ESTOP" => c.hold
  /\ c.flag = "FL44" => c.active44
  /\ c.active44 => /\ c.main \in {"RUN", "PAUSE"} /\ c.step = "SORTING"
                   /\ c.flag \in {"FL44", "FL45"}
  /\ c.main # "ESTOP" /\ c.step = "WAIT_MATRIX" => c.flag = "IDLE"

ControlInv(c) == c \in Control /\ ControlLogic(c)

\* The values the handlers assign are values of the fields.
LEMMA Values ==
  /\ 0 \in 0..ALARM44 /\ 0 \in 0..STEP_HOLD /\ STEP_HOLD \in 0..STEP_HOLD
  /\ {"IDLE", "RUN", "PAUSE", "FAULT", "ESTOP"} \subseteq Main
  /\ {"WAIT_MATRIX", "SORTING"} \subseteq Step
  /\ {"IDLE", "FL2", "FL3", "FL4", "FL5", "FL6", "FL44", "FL45"} \subseteq Flag
  /\ {"off", "red", "green", "key1"} \subseteq Lamp
BY BuildAssumption DEF Main, Flag, Step, Lamp

\* What a control state tells about its fields.
LEMMA Cases ==
  ASSUME NEW c \in Control
  PROVE  /\ c.main \in {"IDLE", "RUN", "PAUSE", "FAULT", "ESTOP"}
         /\ c.step \in {"WAIT_MATRIX", "SORTING"}
         /\ c.hold \in BOOLEAN /\ c.active44 \in BOOLEAN /\ c.req45 \in BOOLEAN
         /\ c.flag \in Flag
         /\ c.elapsed44 \in 0..ALARM44 /\ c.sinceStep \in 0..STEP_HOLD
BY DEF Control, Main, Step

\* An emergency stop leads to a latched ESTOP state from any control state.
LEMMA EstopControl ==
  ASSUME NEW c \in Control
  PROVE  /\ ControlInv(Estop(c))
         /\ Estop(c).main = "ESTOP" /\ Estop(c).flag = "IDLE" /\ ~Estop(c).active44
<1>1. Estop(c) \in Control
  BY Values DEF Control, ResetInner, Estop
<1>2. /\ Estop(c).main = "ESTOP" /\ Estop(c).flag = "IDLE" /\ ~Estop(c).active44
      /\ Estop(c).hold
  BY DEF Control, ResetInner, Estop
<1>3. QED BY <1>1, <1>2 DEF ControlInv, ControlLogic

\* A fault leads to FAULT with no sub-step left, latched or not.
LEMMA EnterFaultControl ==
  ASSUME NEW c \in Control
  PROVE  ControlInv(EnterFault(c)) /\ EnterFault(c).main = "FAULT"
<1>1. EnterFault(c) \in Control
  BY Values DEF Control, ResetInner, EnterFault
<1>2. /\ EnterFault(c).main = "FAULT" /\ EnterFault(c).flag = "IDLE"
      /\ ~EnterFault(c).active44
  BY DEF Control, ResetInner, EnterFault
<1>3. QED BY <1>1, <1>2 DEF ControlInv, ControlLogic

\* Clearing a fault leads to an unlatched IDLE state.
LEMMA ClearFaultControl ==
  ASSUME NEW c \in Control
  PROVE  ControlInv(ClearFault(c))
<1>1. ClearFault(c) \in Control
  BY Values DEF Control, ResetInner, ClearFault
<1>2. /\ ClearFault(c).main = "IDLE" /\ ClearFault(c).flag = "IDLE"
      /\ ~ClearFault(c).active44 /\ ~ClearFault(c).hold
  BY DEF Control, ResetInner, ClearFault
<1>3. QED BY <1>1, <1>2 DEF ControlInv, ControlLogic

\* A start never leaves a latched state.
LEMMA StartControl ==
  ASSUME NEW c, ControlInv(c)
  PROVE  ControlInv(Start(c))
<1>0. c \in Control BY DEF ControlInv
<1>1. CASE ~c.hold /\ c.main = "PAUSE"
  <2>1. Start(c) = [c EXCEPT !.main = "RUN"] BY <1>1 DEF Start
  <2>2. Start(c) \in Control BY <1>0, <2>1, Values DEF Control
  <2>3. /\ Start(c).main = "RUN" /\ Start(c).step = c.step /\ Start(c).flag = c.flag
        /\ Start(c).hold = c.hold /\ Start(c).active44 = c.active44
    BY <1>0, <2>1 DEF Control
  <2>4. QED BY <1>1, <2>2, <2>3 DEF ControlInv, ControlLogic
<1>2. CASE ~c.hold /\ c.main \in {"IDLE", "FAULT"}
  <2>1. Start(c) = [ResetInner(c) EXCEPT !.main = "RUN", !.sinceStep = STEP_HOLD, !.lamp = "off"]
    BY <1>2 DEF Start
  <2>2. Start(c) \in Control BY <1>0, <2>1, Values DEF Control, ResetInner
  <2>3. /\ Start(c).main = "RUN" /\ Start(c).flag = "IDLE" /\ ~Start(c).active44
        /\ Start(c).hold = c.hold
    BY <1>0, <2>1 DEF Control, ResetInner
  <2>4. QED BY <1>2, <2>2, <2>3 DEF ControlInv, ControlLogic
<1>3. CASE Start(c) = c
  BY <1>3
<1>4. QED BY <1>1, <1>2, <1>3 DEF Start

\* Time passing changes the two clocks only.
LEMMA ElapseControl ==
  ASSUME NEW c, ControlInv(c)
  PROVE  /\ ControlInv(Elapse(c))
         /\ \A f \in {"main", "step", "hold", "flag", "active44", "req45", "lamp"} :
              Elapse(c)[f] = c[f]
<1>0. c \in Control BY DEF ControlInv
<1> DEFINE ss == IF c.sinceStep < STEP_HOLD THEN c.sinceStep + 1 ELSE c.sinceStep
           ee == IF c.active44 /\ c.elapsed44 < ALARM44 THEN c.elapsed44 + 1 ELSE c.elapsed44
<1>1. ss \in 0..STEP_HOLD /\ ee \in 0..ALARM44
  BY <1>0, Cases, BuildAssumption
<1>2. Elapse(c) = [c EXCEPT !.sinceStep = ss, !.elapsed44 = ee]
  BY DEF Elapse
<1> HIDE DEF ss, ee
<1>3. Elapse(c) \in Control BY <1>0, <1>1, <1>2 DEF Control
<1>4. \A f \in {"main", "step", "hold", "flag", "active44", "req45", "lamp"} :
         Elapse(c)[f] = c[f]
  BY <1>0, <1>2 DEF Control
<1>5. QED BY <1>0, <1>3, <1>4 DEF ControlInv, ControlLogic

-----------------------------------------------------------------------------
(***************************************************************************)
(* The steps of sorting_tick.                                              *)
(***************************************************************************)

\* What setting one field of the control state changes and leaves alone.
LEMMA SetFlag ==
  ASSUME NEW c \in Control, NEW f \in Flag
  PROVE  LET d == [c EXCEPT !.flag = f]
         IN  /\ d \in Control /\ d.flag = f
             /\ d.main = c.main /\ d.step = c.step /\ d.hold = c.hold
             /\ d.active44 = c.active44
BY DEF Control

LEMMA SetLamp ==
  ASSUME NEW c \in Control, NEW x \in Lamp
  PROVE  LET d == [c EXCEPT !.lamp = x]
         IN  /\ d \in Control /\ d.flag = c.flag
             /\ d.main = c.main /\ d.step = c.step /\ d.hold = c.hold
             /\ d.active44 = c.active44
BY DEF Control

\* The control state inside a sub-step: in a pass, or stopped by RequestEstop
\* while the motion of the sub-step blocks; the 44 timer is not running.
InSubStep(c) ==
  /\ ControlInv(c)
  /\ ~c.active44
  /\ c.main # "ESTOP" => c.main \in {"RUN", "PAUSE"} /\ c.step = "SORTING"

\* A motion returns to the sub-step, or to ESTOP.
LEMMA MotionInSubStep ==
  ASSUME NEW c, InSubStep(c), NEW d \in AfterMotion(c)
  PROVE  /\ InSubStep(d)
         /\ d = c \/ d.main = "ESTOP"
<1>1. CASE d = c
  BY <1>1
<1>2. CASE d = Estop(c)
  BY <1>2, EstopControl DEF InSubStep, ControlInv
<1>3. QED BY <1>1, <1>2 DEF AfterMotion

\* A sub-step may choose any next flag but 44.
LEMMA FlagInSubStep ==
  ASSUME NEW c, InSubStep(c), NEW f \in Flag \ {"FL44"}
  PROVE  ControlInv([c EXCEPT !.flag = f])
<1>1. c \in Control BY DEF InSubStep, ControlInv
<1>2. QED BY <1>1, SetFlag, Cases DEF InSubStep, ControlInv, ControlLogic

LEMMA LampControl ==
  ASSUME NEW c, ControlInv(c), NEW x \in Lamp
  PROVE  ControlInv([c EXCEPT !.lamp = x])
<1>1. c \in Control BY DEF ControlInv
<1>2. QED BY <1>1, SetLamp DEF ControlInv, ControlLogic

LEMMA FaultInSubStep ==
  ASSUME NEW c, InSubStep(c)
  PROVE  ControlInv(EnterFault(c)) /\ EnterFault(c).main = "FAULT"
BY EnterFaultControl DEF InSubStep, ControlInv

LEMMA AfterTransfer2Control ==
  ASSUME NEW c, InSubStep(c), NEW t, NEW bad
  PROVE  ControlInv(AfterTransfer2(c, t, bad))
BY FlagInSubStep, Values DEF AfterTransfer2, InSubStep

LEMMA RunFlag2Control ==
  ASSUME NEW c, InSubStep(c), NEW bad, NEW cmds, RunFlag2(c, bad, cmds)
  PROVE  ControlInv(ctl')
<1>1. CASE ctl' = [c EXCEPT !.flag = "FL6"] \/ ctl' = [c EXCEPT !.flag = "FL3"]
  BY <1>1, FlagInSubStep, Values
<1>2. CASE \E d \in AfterMotion(c) : ctl' = AfterTransfer2(d, rows', bad)
  BY <1>2, MotionInSubStep, AfterTransfer2Control
<1>3. CASE \E d \in AfterMotion(c) : ctl' = EnterFault(d)
  BY <1>3, MotionInSubStep, FaultInSubStep
<1>4. QED BY <1>1, <1>2, <1>3 DEF RunFlag2, Return

LEMMA RunFlag3Control ==
  ASSUME NEW c, InSubStep(c), NEW bad, NEW cmds, RunFlag3(c, bad, cmds)
  PROVE  ControlInv(ctl')
<1>1. CASE ctl' = [c EXCEPT !.flag = "FL4"] \/ ctl' = [c EXCEPT !.flag = "FL5"]
  BY <1>1, FlagInSubStep, Values
<1>2. CASE ctl' \in AfterMotion(c)
  BY <1>2, MotionInSubStep DEF InSubStep
<1>3. CASE ctl' = EnterFault(c) \/ \E d \in AfterMotion(c) : ctl' = EnterFault(d)
  BY <1>3, MotionInSubStep, FaultInSubStep
<1>4. QED BY <1>1, <1>2, <1>3 DEF RunFlag3, Return

LEMMA RunConveyorControl ==
  ASSUME NEW c, InSubStep(c), NEW cmds, RunConveyor(c, cmds)
  PROVE  ControlInv(ctl')
<1>1. PICK d \in AfterMotion(c) :
        ctl' = [d EXCEPT !.flag = "IDLE", !.lamp = "green"] \/ ctl' = EnterFault(d)
  BY DEF RunConveyor, Return
<1>2. InSubStep(d)
  BY <1>1, MotionInSubStep
<1>3. CASE ctl' = [d EXCEPT !.flag = "IDLE", !.lamp = "green"]
  <2>1. [d EXCEPT !.flag = "IDLE", !.lamp = "green"]
          = [[d EXCEPT !.flag = "IDLE"] EXCEPT !.lamp = "green"]
    BY <1>2 DEF InSubStep, ControlInv, Control
  <2>2. QED BY <1>2, <1>3, <2>1, FlagInSubStep, LampControl, Values
<1>4. QED BY <1>1, <1>2, <1>3, FaultInSubStep

LEMMA EnterFlag44Control ==
  ASSUME NEW c, InSubStep(c), c.main \in {"RUN", "PAUSE"}, NEW cmds, EnterFlag44(c, cmds)
  PROVE  ControlInv(ctl')
<1> DEFINE e == [c EXCEPT !.flag = "FL44", !.active44 = TRUE, !.elapsed44 = 0]
<1>1. c \in Control BY DEF InSubStep, ControlInv
<1>2. e \in Control BY <1>1, Values DEF Control
<1>3. /\ e.flag = "FL44" /\ e.active44
      /\ e.main = c.main /\ e.step = c.step /\ e.hold = c.hold
  BY <1>1 DEF Control
<1>4. ControlInv(e)
  <2> HIDE DEF e
  <2> QED BY <1>2, <1>3 DEF InSubStep, ControlInv, ControlLogic
<1>5. PICK d \in AfterMotion(e) : ctl' = [d EXCEPT !.lamp = "red"]
  BY DEF EnterFlag44, Return
<1> HIDE DEF e
<1>6. ControlInv(d)
  BY <1>2, <1>4, <1>5, EstopControl DEF AfterMotion
<1>7. QED BY <1>5, <1>6, LampControl, Values

LEMMA FlagIdleControl ==
  ASSUME NEW c, InSubStep(c), NEW bad, NEW cmds, FlagIdle(c, bad, cmds)
  PROVE  ControlInv(ctl')
BY FlagInSubStep, FaultInSubStep, Values DEF FlagIdle, Return, InSubStep

LEMMA Flag44WindowControl ==
  ASSUME NEW c, ControlInv(c), NEW cmds, Flag44Window(c, cmds)
  PROVE  ControlInv(ctl')
<1> DEFINE e == [c EXCEPT !.active44 = FALSE, !.elapsed44 = 0, !.flag = "IDLE", !.lamp = "off"]
<1>1. c \in Control BY DEF ControlInv
<1>2. e \in Control BY <1>1, Values DEF Control
<1>3. /\ e.flag = "IDLE" /\ ~e.active44
      /\ e.main = c.main /\ e.step = c.step /\ e.hold = c.hold
  BY <1>1 DEF Control
<1>4. ctl' = c \/ ctl' = e
  BY DEF Flag44Window, Return
<1> HIDE DEF e
<1>5. QED BY <1>2, <1>3, <1>4 DEF ControlInv, ControlLogic

LEMMA TakeStandbyControl ==
  ASSUME NEW c, ControlInv(c), c.main \in {"RUN", "PAUSE"}, c.step = "SORTING"
  PROVE  LET d == TakeStandby([c EXCEPT !.sinceStep = 0])
         IN  /\ ControlInv(d)
             /\ d.main = c.main /\ d.step = c.step /\ d.active44 = c.active44
             /\ d.flag = c.flag \/ d.flag = "FL45"
<1> DEFINE b == [c EXCEPT !.sinceStep = 0]
           e == [b EXCEPT !.req45 = FALSE, !.flag = "FL45"]
<1>1. b \in Control /\ \A f \in {"main", "step", "hold", "flag", "active44"} : b[f] = c[f]
  BY Values DEF ControlInv, Control
<1> HIDE DEF b
<1>2. /\ e \in Control /\ e.flag = "FL45"
      /\ e.main = b.main /\ e.step = b.step /\ e.hold = b.hold /\ e.active44 = b.active44
  BY <1>1, Values DEF Control
<1>3. TakeStandby(b) = b \/ TakeStandby(b) = e
  BY DEF TakeStandby
<1> HIDE DEF e
<1>4. QED BY <1>1, <1>2, <1>3 DEF b, ControlInv, ControlLogic

LEMMA FlagSwitchControl ==
  ASSUME NEW c, InSubStep(c), c.main \in {"RUN", "PAUSE"}, NEW bad, NEW cmds,
         FlagSwitch(c, bad, cmds)
  PROVE  ControlInv(ctl')
<1>1. CASE FlagIdle(c, bad, cmds)         BY <1>1, FlagIdleControl
<1>2. CASE EnterFlag44(c, cmds)           BY <1>2, EnterFlag44Control
<1>3. CASE RunFlag2(c, bad, cmds)         BY <1>3, RunFlag2Control
<1>4. CASE RunFlag3(c, bad, cmds)         BY <1>4, RunFlag3Control
<1>5. CASE RunConveyor(c, cmds)           BY <1>5, RunConveyorControl
<1>6. CASE \E d \in AfterMotion(c) : ctl' = [d EXCEPT !.flag = "IDLE"]
  BY <1>6, MotionInSubStep, FlagInSubStep, Values
<1>7. QED BY <1>1, <1>2, <1>3, <1>4, <1>5, <1>6 DEF FlagSwitch, Return

LEMMA SortingTickControl ==
  ASSUME NEW c, ControlInv(c), TickDue(c), NEW bad, NEW cmds, SortingTick(c, bad, cmds)
  PROVE  ControlInv(ctl')
<1> DEFINE d == TakeStandby([c EXCEPT !.sinceStep = 0])
<1>1. /\ ControlInv(d) /\ d.main \in {"RUN", "PAUSE"} /\ d.step = "SORTING"
  <2>1. c.main \in {"RUN", "PAUSE"} /\ c.step = "SORTING"
    BY DEF TickDue, ControlInv, ControlLogic
  <2>2. QED BY <2>1, TakeStandbyControl
<1>2. CASE ctl' = c
  BY <1>2
<1>3. CASE d.active44 /\ Flag44Window(d, cmds)
  BY <1>1, <1>3, Flag44WindowControl
<1>4. CASE ~d.active44 /\ FlagSwitch(d, bad, cmds)
  <2>1. InSubStep(d)
    BY <1>1, <1>4 DEF InSubStep
  <2>2. QED BY <1>1, <1>4, <2>1, FlagSwitchControl
<1>5. QED BY <1>2, <1>3, <1>4 DEF SortingTick, Return

LEMMA WaitMatrixControl ==
  ASSUME NEW c, ControlInv(c), c.main = "RUN", c.step = "WAIT_MATRIX",
         NEW bad, NEW cmds, WaitMatrix(c, bad, cmds)
  PROVE  ControlInv(ctl')
<1> DEFINE e == [c EXCEPT !.step = "SORTING", !.flag = "IDLE"]
<1>1. c \in Control BY DEF ControlInv
<1>2. /\ e \in Control /\ e.step = "SORTING" /\ e.flag = "IDLE"
      /\ e.main = c.main /\ e.hold = c.hold /\ e.active44 = c.active44
  BY <1>1, Values DEF Control
<1>3. ctl' = EnterFault(c) \/ ctl' = e \/ ctl' = c
  BY DEF WaitMatrix, Return
<1> HIDE DEF e
<1>4. CASE ctl' = e
  BY <1>2, <1>4 DEF ControlInv, ControlLogic
<1>5. QED BY <1>1, <1>3, <1>4, EnterFaultControl

\* One step of the main state keeps the control invariant.
LEMMA DispatchControl ==
  ASSUME NEW c, ControlInv(c), NEW bad, NEW cmds, Dispatch(c, bad, cmds)
  PROVE  ControlInv(ctl')
BY WaitMatrixControl, SortingTickControl DEF Dispatch, Return

-----------------------------------------------------------------------------
(***************************************************************************)
(* The matrix during a pass.                                               *)
(***************************************************************************)

\* The only way a Poll changes the table: a transfer of a second class
\* seedling from tray 1 or 2 to tray 3, or of a first class one from 2 to 1,
\* to an empty cell.
SortingTransfer(t, u) ==
  \E src, dst \in DOMAIN t :
    /\ u = ApplyTransfer(t, src, dst) /\ t[dst] = 0
    /\ \/ t[src] = 2 /\ src[1] \in {1, 2} /\ dst[1] = 3
       \/ t[src] = 1 /\ src[1] = 2 /\ dst[1] = 1

LEMMA RunFlag2Table ==
  ASSUME NEW c, NEW bad, NEW cmds, RunFlag2(c, bad, cmds)
  PROVE  rows' = rows \/ SortingTransfer(rows, rows')
<1>1. CASE \E src \in SourcesClass2(rows, bad), dst \in RowsWithGeom(rows, bad, 3, 0) :
             rows' = ApplyTransfer(rows, src, dst)
  BY <1>1 DEF SortingTransfer, SourcesClass2, RowsWithGeom, CellsOf
<1>2. QED BY <1>1 DEF RunFlag2

LEMMA RunFlag3Table ==
  ASSUME NEW c, NEW bad, NEW cmds, RunFlag3(c, bad, cmds)
  PROVE  rows' = rows \/ SortingTransfer(rows, rows')
<1>1. CASE \E src \in RowsWithGeom(rows, bad, 2, 1), dst \in RowsWithGeom(rows, bad, 1, 0) :
             rows' = ApplyTransfer(rows, src, dst)
  BY <1>1 DEF SortingTransfer, RowsWithGeom, CellsOf
<1>2. QED BY <1>1 DEF RunFlag3

LEMMA DispatchTable ==
  ASSUME NEW c, NEW bad, NEW cmds, Dispatch(c, bad, cmds)
  PROVE  rows' = rows \/ SortingTransfer(rows, rows')
BY RunFlag2Table, RunFlag3Table DEF Dispatch, SortingTick, FlagSwitch, RunConveyor

\* A sorting transfer gives a table over the same rows.
LEMMA SortingTransferTable ==
  ASSUME NEW t \in Tables, NEW u, SortingTransfer(t, u)
  PROVE  u \in Tables /\ DOMAIN u = DOMAIN t
BY TransferTable DEF SortingTransfer

-----------------------------------------------------------------------------
\* A step of a pass, past the decision to begin it.
InPass(c) ==
  /\ c.main \in {"RUN", "PAUSE"} /\ c.step = "SORTING"
  /\ c.flag \in {"FL2", "FL3", "FL4", "FL5", "FL6"}

\* PassHasMatrix and BeltJustified as a predicate on a control state, a table
\* and a set of geometry failures: what the sub-step c of a pass relies on.
PassInv(c, t, bad) ==
  InPass(c) =>
    /\ commitOk /\ bad = {} /\ DOMAIN t = Cells
    /\ c.flag \in {"FL3", "FL4", "FL5"} => CellsOf(t, 2, {1, 2}) = {}
    /\ c.flag = "FL4" => \A p \in TrayCells(1) : t[p] = 1
    /\ c.flag = "FL5" => CellsOf(t, 1, {2}) = {}
    /\ c.flag = "FL6" => CellsOf(t, 0, {3}) = {}

LEMMA FaultLeavesPass ==
  ASSUME NEW c \in Control
  PROVE  ~InPass(EnterFault(c))
BY EnterFaultControl DEF InPass

\* Without geometry failures, no source means no second class seedling left.
LEMMA NoSourceLeft ==
  ASSUME NEW t, SourcesClass2(t, {}) = {}
  PROVE  CellsOf(t, 2, {1, 2}) = {}
<1>1. CellsOf(t, 2, {1}) = {} /\ CellsOf(t, 2, {2}) = {}
  BY DEF SourcesClass2, TrayHasClassWithGeom, RowsWithGeom
<1>2. QED BY <1>1 DEF CellsOf

LEMMA RunFlag2Pass ==
  ASSUME NEW c, InSubStep(c), c.flag = "FL2", c.main \in {"RUN", "PAUSE"},
         rows \in Tables, NEW bad, PassInv(c, rows, bad),
         NEW cmds, RunFlag2(c, bad, cmds)
  PROVE  PassInv(ctl', rows', bad)
<1>1. /\ c \in Control /\ c.step = "SORTING" /\ commitOk /\ bad = {} /\ DOMAIN rows = Cells
  BY DEF InSubStep, ControlInv, PassInv, InPass
<1>2. CASE /\ CheckTrayFullOrEmpty(rows, 3) = 2 \/ RowsWithGeom(rows, bad, 3, 0) = {}
           /\ ctl' = [c EXCEPT !.flag = "FL6"] /\ rows' = rows
  <2>1. CASE CheckTrayFullOrEmpty(rows, 3) = 2
    <3>1. 3 \in Trays /\ 2 \in Class BY DEF Trays, Class
    <3>2. \A p \in TrayCells(3) : rows[p] = 2 BY <2>1, <3>1, FullTray
    <3>3. CellsOf(rows, 0, {3}) = {}
      BY <1>1, <3>2 DEF CellsOf, Cells, TrayCells
    <3>4. QED BY <1>1, <1>2, <3>3, SetFlag, Values DEF PassInv
  <2>2. CASE RowsWithGeom(rows, bad, 3, 0) = {}
    <3>1. CellsOf(rows, 0, {3}) = {} BY <1>1, <2>2 DEF RowsWithGeom
    <3>2. QED BY <1>1, <1>2, <3>1, SetFlag, Values DEF PassInv
  <2>3. QED BY <1>2, <2>1, <2>2
<1>3. CASE /\ SourcesClass2(rows, bad) = {}
           /\ ctl' = [c EXCEPT !.flag = "FL3"] /\ rows' = rows
  <2>1. CellsOf(rows, 2, {1, 2}) = {} BY <1>1, <1>3, NoSourceLeft
  <2>2. QED BY <1>1, <1>3, <2>1, SetFlag, Values DEF PassInv
<1>4. CASE /\ SortingTransfer(rows, rows')
           /\ \E d \in AfterMotion(c) : ctl' = AfterTransfer2(d, rows', bad)
  <2>1. DOMAIN rows' = Cells BY <1>1, <1>4, SortingTransferTable
  <2>2. PICK d \in AfterMotion(c) : ctl' = AfterTransfer2(d, rows', bad) BY <1>4
  <2>3. InSubStep(d) /\ (d = c \/ d.main = "ESTOP") BY <2>2, MotionInSubStep
  <2>4. d \in Control BY <2>3 DEF InSubStep, ControlInv
  <2>5. CASE ctl' = [d EXCEPT !.flag = "FL3"] /\ SourcesClass2(rows', bad) = {}
    <3>1. CellsOf(rows', 2, {1, 2}) = {} BY <1>1, <2>5, NoSourceLeft
    <3>2. QED BY <1>1, <2>1, <2>5, <2>4, <3>1, SetFlag, Values DEF PassInv
  <2>6. CASE ctl' = d
    BY <1>1, <2>1, <2>3, <2>6 DEF PassInv, InPass
  <2>7. QED BY <2>2, <2>5, <2>6 DEF AfterTransfer2
<1>5. CASE \E d \in AfterMotion(c) : ctl' = EnterFault(d)
  <2>1. PICK d \in AfterMotion(c) : ctl' = EnterFault(d) BY <1>5
  <2>2. d \in Control BY <2>1, MotionInSubStep DEF InSubStep, ControlInv
  <2>3. QED BY <2>1, <2>2, FaultLeavesPass DEF PassInv
<1>6. CASE \E src \in SourcesClass2(rows, bad), dst \in RowsWithGeom(rows, bad, 3, 0) :
             rows' = ApplyTransfer(rows, src, dst)
  <2>1. SortingTransfer(rows, rows')
    BY <1>6 DEF SortingTransfer, SourcesClass2, RowsWithGeom, CellsOf
  <2>2. QED BY <1>2, <1>3, <1>4, <1>5, <2>1 DEF RunFlag2, Return
<1>7. QED BY <1>2, <1>3, <1>4, <1>5, <1>6 DEF RunFlag2, Return

LEMMA RunFlag3Pass ==
  ASSUME NEW c, InSubStep(c), c.flag = "FL3", c.main \in {"RUN", "PAUSE"},
         rows \in Tables, NEW bad, PassInv(c, rows, bad),
         NEW cmds, RunFlag3(c, bad, cmds)
  PROVE  PassInv(ctl', rows', bad)
<1>1. /\ c \in Control /\ c.step = "SORTING" /\ commitOk /\ bad = {} /\ DOMAIN rows = Cells
      /\ CellsOf(rows, 2, {1, 2}) = {}
  BY DEF InSubStep, ControlInv, PassInv, InPass
<1>2. CASE /\ CheckTrayFullOrEmpty(rows, 1) = 1
           /\ ctl' = [c EXCEPT !.flag = "FL4"] /\ rows' = rows
  <2>1. 1 \in Trays /\ 1 \in Class BY DEF Trays, Class
  <2>2. \A p \in TrayCells(1) : rows[p] = 1 BY <1>2, <2>1, FullTray
  <2>3. QED BY <1>1, <1>2, <2>2, SetFlag, Values DEF PassInv
<1>3. CASE /\ RowsWithGeom(rows, bad, 2, 1) = {}
           /\ ctl' = [c EXCEPT !.flag = "FL5"] /\ rows' = rows
  <2>1. CellsOf(rows, 1, {2}) = {} BY <1>1, <1>3 DEF RowsWithGeom
  <2>2. QED BY <1>1, <1>3, <2>1, SetFlag, Values DEF PassInv
<1>4. CASE /\ ctl' \in AfterMotion(c)
           /\ \E src \in RowsWithGeom(rows, bad, 2, 1), dst \in RowsWithGeom(rows, bad, 1, 0) :
                rows' = ApplyTransfer(rows, src, dst)
  <2>1. PICK src \in RowsWithGeom(rows, bad, 2, 1), dst \in RowsWithGeom(rows, bad, 1, 0) :
          rows' = ApplyTransfer(rows, src, dst)
    BY <1>4
  <2>2. /\ src \in DOMAIN rows /\ dst \in DOMAIN rows
        /\ rows[src] = 1 /\ rows[dst] = 0
    BY <2>1 DEF RowsWithGeom, CellsOf
  <2>3. CellsOf(rows', 2, {1, 2}) = {} BY <1>1, <2>1, <2>2, TransferKeepsOthers
  <2>4. DOMAIN rows' = Cells BY <1>1, <2>1, <2>2, TransferTable
  <2>5. ctl' = c \/ ctl'.main = "ESTOP" BY <1>4, MotionInSubStep
  <2>6. QED BY <1>1, <2>3, <2>4, <2>5 DEF PassInv, InPass
<1>5. CASE ctl' = EnterFault(c) \/ \E d \in AfterMotion(c) : ctl' = EnterFault(d)
  <2>1. PICK d \in {c} \cup AfterMotion(c) : ctl' = EnterFault(d) BY <1>5
  <2>2. d \in Control BY <1>1, <2>1, MotionInSubStep DEF InSubStep, ControlInv
  <2>3. QED BY <2>1, <2>2, FaultLeavesPass DEF PassInv
<1>6. QED BY <1>2, <1>3, <1>4, <1>5 DEF RunFlag3, Return

LEMMA RunConveyorPass ==
  ASSUME NEW c, InSubStep(c), NEW bad, NEW cmds, RunConveyor(c, cmds)
  PROVE  PassInv(ctl', rows', bad)
<1>1. PICK d \in AfterMotion(c) :
        ctl' = [d EXCEPT !.flag = "IDLE", !.lamp = "green"] \/ ctl' = EnterFault(d)
  BY DEF RunConveyor, Return
<1>2. d \in Control
  BY <1>1, MotionInSubStep DEF InSubStep, ControlInv
<1>3. [d EXCEPT !.flag = "IDLE", !.lamp = "green"].flag = "IDLE"
  BY <1>2 DEF Control
<1>4. QED BY <1>1, <1>2, <1>3, FaultLeavesPass DEF PassInv, InPass

\* Flag 44 is not a step of a pass.
LEMMA EnterFlag44Pass ==
  ASSUME NEW c, InSubStep(c), NEW bad, NEW cmds, EnterFlag44(c, cmds)
  PROVE  PassInv(ctl', rows', bad)
<1> DEFINE e == [c EXCEPT !.flag = "FL44", !.active44 = TRUE, !.elapsed44 = 0]
<1>1. c \in Control BY DEF InSubStep, ControlInv
<1>2. e \in Control /\ e.flag = "FL44" BY <1>1, Values DEF Control
<1>3. PICK d \in AfterMotion(e) : ctl' = [d EXCEPT !.lamp = "red"]
  BY DEF EnterFlag44, Return
<1> HIDE DEF e
<1>4. d \in Control /\ d.flag \in {"FL44", "IDLE"}
  BY <1>2, <1>3, EstopControl DEF AfterMotion, ControlInv
<1>5. QED BY <1>3, <1>4, SetLamp, Values DEF PassInv, InPass

LEMMA FlagIdlePass ==
  ASSUME NEW c, InSubStep(c), c.flag = "IDLE", DOMAIN rows \in {{}, Cells}, rows' = rows,
         NEW bad, NEW cmds, FlagIdle(c, bad, cmds)
  PROVE  PassInv(ctl', rows', bad)
<1>1. c \in Control BY DEF InSubStep, ControlInv
<1>2. CASE ctl' = EnterFault(c)
  BY <1>1, <1>2, FaultLeavesPass DEF PassInv
<1>3. CASE MatrixReady(bad) /\ ctl' = [c EXCEPT !.flag = "FL2"]
  BY <1>1, <1>3, SetFlag, Values DEF MatrixReady, PassInv
<1>4. CASE ctl' = c
  BY <1>4 DEF PassInv, InPass
<1>5. QED BY <1>2, <1>3, <1>4 DEF FlagIdle, Return

LEMMA FlagSwitchPass ==
  ASSUME NEW c, InSubStep(c), c.main \in {"RUN", "PAUSE"},
         rows \in Tables, DOMAIN rows \in {{}, Cells},
         NEW bad, PassInv(c, rows, bad), NEW cmds, FlagSwitch(c, bad, cmds)
  PROVE  PassInv(ctl', rows', bad)
<1>1. CASE c.flag = "IDLE" /\ FlagIdle(c, bad, cmds) /\ rows' = rows
  BY <1>1, FlagIdlePass
<1>2. CASE EnterFlag44(c, cmds)           BY <1>2, EnterFlag44Pass
<1>3. CASE c.flag = "FL2" /\ RunFlag2(c, bad, cmds)
  BY <1>3, RunFlag2Pass
<1>4. CASE c.flag = "FL3" /\ RunFlag3(c, bad, cmds)
  BY <1>4, RunFlag3Pass
<1>5. CASE RunConveyor(c, cmds)           BY <1>5, RunConveyorPass
<1>6. CASE \E d \in AfterMotion(c) : ctl' = [d EXCEPT !.flag = "IDLE"]
  <2>1. PICK d \in AfterMotion(c) : ctl' = [d EXCEPT !.flag = "IDLE"] BY <1>6
  <2>2. d \in Control BY <2>1, MotionInSubStep DEF InSubStep, ControlInv
  <2>3. QED BY <2>1, <2>2, SetFlag, Values DEF PassInv, InPass
<1>7. QED BY <1>1, <1>2, <1>3, <1>4, <1>5, <1>6 DEF FlagSwitch, Return

LEMMA SortingTickPass ==
  ASSUME NEW c, ControlInv(c), TickDue(c), rows \in Tables, DOMAIN rows \in {{}, Cells},
         NEW bad, PassInv(c, rows, bad), NEW cmds, SortingTick(c, bad, cmds)
  PROVE  PassInv(ctl', rows', bad)
<1> DEFINE d == TakeStandby([c EXCEPT !.sinceStep = 0])
<1>0. c.main \in {"RUN", "PAUSE"} /\ c.step = "SORTING"
  BY DEF TickDue, ControlInv, ControlLogic
<1>1. /\ ControlInv(d) /\ d.main = c.main /\ d.step = c.step
      /\ d.flag = c.flag \/ d.flag = "FL45"
  BY <1>0, TakeStandbyControl
<1>2. PassInv(d, rows, bad)
  <2> HIDE DEF d
  <2> QED BY <1>1 DEF PassInv, InPass
<1>3. CASE ctl' = c /\ rows' = rows
  BY <1>3
<1>4. CASE d.active44 /\ Flag44Window(d, cmds)
  <2>1. d \in Control /\ d.flag \in {"FL44", "FL45"}
    BY <1>1, <1>4 DEF ControlInv, ControlLogic
  <2> HIDE DEF d
  <2>2. [d EXCEPT !.active44 = FALSE, !.elapsed44 = 0, !.flag = "IDLE", !.lamp = "off"].flag = "IDLE"
    BY <2>1 DEF Control
  <2>3. QED BY <1>4, <2>1, <2>2 DEF Flag44Window, Return, PassInv, InPass
<1>5. CASE ~d.active44 /\ FlagSwitch(d, bad, cmds)
  <2>1. InSubStep(d)
    BY <1>0, <1>1, <1>5 DEF InSubStep
  <2>2. QED BY <1>0, <1>1, <1>2, <1>5, <2>1, FlagSwitchPass
<1>6. QED BY <1>3, <1>4, <1>5 DEF SortingTick, Return

LEMMA WaitMatrixPass ==
  ASSUME NEW c, ControlInv(c), c.step = "WAIT_MATRIX", NEW bad, NEW cmds,
         WaitMatrix(c, bad, cmds)
  PROVE  PassInv(ctl', rows', bad)
<1>1. c \in Control BY DEF ControlInv
<1>2. [c EXCEPT !.step = "SORTING", !.flag = "IDLE"].flag = "IDLE"
  BY <1>1 DEF Control
<1>3. QED BY <1>1, <1>2, FaultLeavesPass DEF WaitMatrix, Return, PassInv, InPass

\* One step of the main state keeps what a pass relies on.
LEMMA DispatchPass ==
  ASSUME NEW c, ControlInv(c), rows \in Tables, DOMAIN rows \in {{}, Cells},
         NEW bad, PassInv(c, rows, bad), NEW cmds, Dispatch(c, bad, cmds)
  PROVE  PassInv(ctl', rows', bad)
BY WaitMatrixPass, SortingTickPass DEF Dispatch, Return

-----------------------------------------------------------------------------
(***************************************************************************)
(* The inductive invariant.                                                *)
(***************************************************************************)
Inv ==
  /\ TypeOK
  /\ ControlLogic(ctl)
  /\ ModbusOnly => /\ DOMAIN rows \in {{}, Cells}
                   /\ PassInv(ctl, rows, noGeom)
                   /\ InPass(ctl) => ~dirty

\* What the run flag handlers start belongs to Motion, and fresh is Boolean.
LEMMA DispatchOutput ==
  ASSUME NEW c, fresh \in BOOLEAN, NEW bad, NEW cmds \in SUBSET Motion,
         Dispatch(c, bad, cmds)
  PROVE  out' \in SUBSET Motion /\ fresh' \in BOOLEAN
<1>1. {"pick", "home", "belt"} \subseteq Motion BY DEF Motion
<1>2. CASE /\ out' \in {cmds, cmds \cup {"pick"}, cmds \cup {"home"}, cmds \cup {"home", "belt"}}
           /\ fresh' = fresh \/ fresh' = FALSE
  BY <1>1, <1>2
<1>3. CASE WaitMatrix(c, bad, cmds) /\ fresh' = fresh
  BY <1>2, <1>3 DEF WaitMatrix, Return
<1>4. CASE SortingTick(c, bad, cmds)
  <2> DEFINE d == TakeStandby([c EXCEPT !.sinceStep = 0])
  <2>1. CASE FlagIdle(d, bad, cmds) /\ fresh' = fresh
    BY <1>2, <2>1 DEF FlagIdle, Return
  <2>2. CASE EnterFlag44(d, cmds) /\ fresh' = fresh
    BY <1>2, <2>2 DEF EnterFlag44, Return
  <2>3. CASE RunFlag2(d, bad, cmds)
    BY <1>2, <2>3 DEF RunFlag2, Return
  <2>4. CASE RunFlag3(d, bad, cmds)
    BY <1>2, <2>4 DEF RunFlag3, Return
  <2>5. CASE RunConveyor(d, cmds)
    BY <1>2, <2>5 DEF RunConveyor, Return
  <2>6. CASE out' \in {cmds, cmds \cup {"home"}} /\ fresh' = fresh
    BY <1>2, <2>6
  <2>7. CASE Flag44Window(d, cmds) /\ fresh' = fresh
    BY <1>2, <2>7 DEF Flag44Window, Return
  <2> HIDE DEF d
  <2>8. QED
    BY <1>4, <2>1, <2>2, <2>3, <2>4, <2>5, <2>6, <2>7
    DEF SortingTick, FlagSwitch, Return, d
<1>5. QED BY <1>2, <1>3, <1>4 DEF Dispatch, Return

\* A call that changes the control state only, by what RequestX does, and
\* leaves the matrix alone.
LEMMA ControlStep ==
  ASSUME Inv, UNCHANGED matVars, ControlInv(ctl'),
         InPass(ctl') => InPass(ctl) /\ ctl'.flag = ctl.flag,
         out' \in SUBSET Motion
  PROVE  Inv'
<1>1. TypeOK'
  BY DEF Inv, TypeOK, ControlInv, matVars
<1>2. ModbusOnly => PassInv(ctl, rows, noGeom)'
  BY DEF Inv, PassInv, matVars
<1>3. QED BY <1>1, <1>2 DEF Inv, ControlInv, matVars, ModbusOnly

LEMMA InitInv == Init => Inv
<1> SUFFICES ASSUME Init PROVE Inv OBVIOUS
<1>1. ctl \in Control
  BY Values DEF Init, Control
<1>2. NoRows \in Tables /\ DOMAIN NoRows = {}
  <2>1. DOMAIN NoRows = {} /\ NoRows \in [DOMAIN NoRows -> Class] BY DEF NoRows
  <2>2. QED BY <2>1, TableShape
<1>3. TypeOK
  <2>1. 0 \in 0..MaxReads BY BuildAssumption
  <2>2. rows \in Tables /\ noGeom \in SUBSET DOMAIN rows BY <1>2 DEF Init
  <2>3. QED BY <1>1, <2>1, <2>2 DEF Init, TypeOK
<1>4. ControlLogic(ctl) /\ ~InPass(ctl)
  BY DEF Init, ControlLogic, InPass
<1>5. QED BY <1>2, <1>3, <1>4 DEF Init, Inv, PassInv

LEMMA PollInv == Inv /\ Poll => Inv'
<1> SUFFICES ASSUME Inv, Poll PROVE Inv' OBVIOUS
<1>1. PICK bad \in Geometry :
        /\ noGeom' = bad
        /\ \/ ~StandbyDue /\ Dispatch(Elapse(ctl), bad, {})
           \/ /\ StandbyDue
              /\ \E c \in AfterMotion([Elapse(ctl) EXCEPT !.req45 = FALSE]) :
                   Dispatch(c, bad, {"home"})
  BY DEF Poll
<1>2. /\ ControlInv(ctl) /\ rows \in Tables
      /\ ctl \in Control
  BY DEF Inv, TypeOK, ControlInv
<1>3. bad \in SUBSET DOMAIN rows
  BY <1>1 DEF Geometry, Inv, TypeOK
<1>4. dirty' = FALSE /\ UNCHANGED <<commitOk, readSt, reads>>
  BY DEF Poll
<1>5. ModbusOnly => DOMAIN rows \in {{}, Cells} /\ PassInv(ctl, rows, bad)
  BY <1>1 DEF Inv, Geometry, PassInv
<1>6. PICK c \in Control, cmds \in SUBSET {"home"} :
        /\ ControlInv(c) /\ Dispatch(c, bad, cmds)
        /\ InPass(c) => InPass(ctl) /\ c.flag = ctl.flag
  <2>1. CASE Dispatch(Elapse(ctl), bad, {})
    <3>1. ControlInv(Elapse(ctl)) BY <1>2, ElapseControl
    <3>2. InPass(Elapse(ctl)) => InPass(ctl) /\ Elapse(ctl).flag = ctl.flag
      BY <1>2, ElapseControl DEF InPass
    <3>3. {} \in SUBSET {"home"} OBVIOUS
    <3>4. QED BY <2>1, <3>1, <3>2, <3>3, Zenon DEF ControlInv
  <2>2. CASE \E c \in AfterMotion([Elapse(ctl) EXCEPT !.req45 = FALSE]) :
                   Dispatch(c, bad, {"home"})
    <3> DEFINE e == Elapse(ctl)
               b == [e EXCEPT !.req45 = FALSE]
    <3>1. ControlInv(e) /\ (InPass(e) => InPass(ctl) /\ e.flag = ctl.flag)
      BY <1>2, ElapseControl DEF InPass
    <3> HIDE DEF e
    <3>2. /\ b \in Control /\ b.main = e.main /\ b.step = e.step /\ b.hold = e.hold
          /\ b.flag = e.flag /\ b.active44 = e.active44
      BY <3>1 DEF ControlInv, Control
    <3> HIDE DEF b
    <3>3. ControlInv(b) /\ (InPass(b) => InPass(ctl) /\ b.flag = ctl.flag)
      BY <3>1, <3>2 DEF ControlInv, ControlLogic, InPass
    <3>4. PICK c \in AfterMotion(b) : Dispatch(c, bad, {"home"})
      BY <2>2 DEF b, e
    <3>5. ControlInv(c) /\ (InPass(c) => InPass(ctl) /\ c.flag = ctl.flag)
      BY <3>2, <3>3, <3>4, EstopControl DEF AfterMotion, InPass
    <3>6. {"home"} \in SUBSET {"home"} OBVIOUS
    <3>7. QED BY <3>4, <3>5, <3>6, Zenon DEF ControlInv
  <2>3. QED BY <1>1, <2>1, <2>2
<1>7. ModbusOnly => PassInv(c, rows, bad)
  BY <1>5, <1>6 DEF PassInv
<1>8. ControlInv(ctl')
  BY <1>6, DispatchControl
<1>9. rows' \in Tables /\ DOMAIN rows' = DOMAIN rows
  BY <1>2, <1>6, DispatchTable, SortingTransferTable
<1>10. out' \in SUBSET Motion /\ fresh' \in BOOLEAN
  <2>1. cmds \in SUBSET Motion BY <1>6 DEF Motion
  <2>2. fresh \in BOOLEAN BY DEF Inv, TypeOK
  <2>3. QED BY <1>6, <2>1, <2>2, DispatchOutput
<1>11. ModbusOnly => PassInv(ctl', rows', bad)
  BY <1>2, <1>5, <1>6, <1>7, DispatchPass
<1>12. TypeOK'
  BY <1>1, <1>3, <1>4, <1>8, <1>9, <1>10 DEF Inv, TypeOK, ControlInv
<1>13. ModbusOnly => PassInv(ctl, rows, noGeom)'
  BY <1>1, <1>4, <1>11 DEF PassInv
<1>14. QED BY <1>4, <1>5, <1>8, <1>9, <1>12, <1>13 DEF Inv, ControlInv, ModbusOnly

\* A start begins no step of a pass by itself.
LEMMA StartPass ==
  ASSUME NEW c, ControlInv(c), InPass(Start(c))
  PROVE  InPass(c) /\ Start(c).flag = c.flag
<1>1. c \in Control BY DEF ControlInv
<1>2. CASE Start(c) = [c EXCEPT !.main = "RUN"] /\ c.main = "PAUSE"
  BY <1>1, <1>2 DEF InPass, Control
<1>3. CASE Start(c) = [ResetInner(c) EXCEPT !.main = "RUN", !.sinceStep = STEP_HOLD, !.lamp = "off"]
  <2>1. Start(c).flag = "IDLE" BY <1>1, <1>3 DEF ResetInner, Control
  <2>2. QED BY <2>1 DEF InPass
<1>4. CASE Start(c) = c
  BY <1>4
<1>5. QED BY <1>2, <1>3, <1>4 DEF Start

LEMMA RequestsInv == Inv /\ Requests => Inv'
<1> SUFFICES ASSUME Inv, Requests PROVE Inv' OBVIOUS
<1>1. ControlInv(ctl) /\ ctl \in Control
  BY DEF Inv, TypeOK, ControlInv
<1>2. CASE RequestStart
  <2>1. ctl' = Start(ctl) /\ out' = {} /\ UNCHANGED matVars BY <1>2 DEF RequestStart, Return
  <2>2. QED BY <1>1, <2>1, StartControl, StartPass, ControlStep
<1>3. CASE RequestPause
  <2>1. /\ ctl' = [ctl EXCEPT !.main = "PAUSE"] /\ ctl.main = "RUN"
        /\ out' = {} /\ UNCHANGED matVars
    BY <1>3 DEF RequestPause, Return
  <2>2. /\ ctl' \in Control /\ ctl'.main = "PAUSE" /\ ctl'.step = ctl.step
        /\ ctl'.flag = ctl.flag /\ ctl'.hold = ctl.hold /\ ctl'.active44 = ctl.active44
    BY <1>1, <2>1, Values DEF Control
  <2>3. ControlInv(ctl') BY <1>1, <2>1, <2>2 DEF ControlInv, ControlLogic
  <2>4. QED BY <2>1, <2>2, <2>3, ControlStep DEF InPass
<1>4. CASE RequestClearFault
  <2>1. ctl' = ClearFault(ctl) /\ out' = {} /\ UNCHANGED matVars
    BY <1>4 DEF RequestClearFault, Return
  <2>2. ClearFault(ctl).main = "IDLE"
    BY <1>1 DEF ClearFault, ResetInner, Control
  <2>3. QED BY <1>1, <2>1, <2>2, ClearFaultControl, ControlStep DEF InPass
<1>5. CASE RequestEstop
  <2>1. ctl' = Estop(ctl) /\ out' = {} /\ UNCHANGED matVars BY <1>5 DEF RequestEstop, Return
  <2>2. QED BY <1>1, <2>1, EstopControl, ControlStep DEF InPass
<1>6. CASE RequestStandbyHome
  <2>1. CASE /\ ctl' = [ctl EXCEPT !.flag = "FL45"] /\ out' = {} /\ UNCHANGED matVars
             /\ ctl.step = "SORTING"
    <3>1. /\ ctl' \in Control /\ ctl'.flag = "FL45" /\ ctl'.main = ctl.main
          /\ ctl'.step = ctl.step /\ ctl'.hold = ctl.hold /\ ctl'.active44 = ctl.active44
      BY <1>1, <2>1, SetFlag, Values
    <3>2. ControlInv(ctl') BY <1>1, <2>1, <3>1 DEF ControlInv, ControlLogic
    <3>3. QED BY <2>1, <3>1, <3>2, ControlStep DEF InPass
  <2>2. CASE ctl' = [ctl EXCEPT !.req45 = TRUE] /\ out' = {} /\ UNCHANGED matVars
    <3>1. /\ ctl' \in Control /\ ctl'.flag = ctl.flag /\ ctl'.main = ctl.main
          /\ ctl'.step = ctl.step /\ ctl'.hold = ctl.hold /\ ctl'.active44 = ctl.active44
      BY <1>1, <2>2 DEF Control
    <3>2. ControlInv(ctl') BY <1>1, <3>1 DEF ControlInv, ControlLogic
    <3>3. QED BY <2>2, <3>1, <3>2, ControlStep DEF InPass
  <2>3. QED BY <1>6, <2>1, <2>2 DEF RequestStandbyHome, Return
<1>7. CASE Key1
  <2>1. ctl' = [ctl EXCEPT !.lamp = "key1"] /\ out' = {} /\ UNCHANGED matVars
    BY <1>7 DEF Key1, Return
  <2>2. ControlInv(ctl') BY <1>1, <2>1, LampControl, Values
  <2>3. QED BY <1>1, <2>1, <2>2, SetLamp, Values, ControlStep DEF InPass
<1>8. QED BY <1>2, <1>3, <1>4, <1>5, <1>6, <1>7 DEF Requests

LEMMA Key2Inv == Inv /\ Key2 => Inv'
<1> SUFFICES ASSUME Inv, Key2 PROVE Inv' OBVIOUS
<1>1. /\ ControlInv(ctl) /\ ctl \in Control /\ rows \in Tables
      /\ reads \in Nat /\ MaxReads \in Nat
  BY BuildAssumption DEF Inv, TypeOK, ControlInv
<1>2. reads' \in 0..MaxReads
  BY <1>1 DEF Key2, ReadSucceeds, ReadFails, Inv, TypeOK
<1>3. ctl' \in {ctl, Start(ctl)} /\ out' = {"read"}
  BY DEF Key2, Return
<1>4. ControlInv(ctl') /\ (InPass(ctl') => InPass(ctl))
  BY <1>1, <1>3, StartControl, StartPass
<1>5. /\ rows' \in Tables /\ noGeom' \in SUBSET DOMAIN rows' /\ dirty' \in BOOLEAN
      /\ commitOk' \in BOOLEAN /\ readSt' \in {"idle", "ok", "err"} /\ fresh' \in BOOLEAN
      /\ DOMAIN rows' = DOMAIN rows \/ DOMAIN rows' = Cells
  <2>1. CASE ReadFails
    BY <2>1 DEF ReadFails, Inv, TypeOK
  <2>2. CASE \E g \in Grids : ReadSucceeds(g)
    <3>1. PICK g \in Grids : ReadSucceeds(g) BY <2>2
    <3>2. g \in Tables /\ DOMAIN g = Cells
      BY InputsAssumption, TableShape DEF FullGrids
    <3>3. QED BY <3>1, <3>2 DEF ReadSucceeds
  <2>3. QED BY <2>1, <2>2 DEF Key2
<1>6. TypeOK'
  BY <1>2, <1>3, <1>4, <1>5 DEF TypeOK, ControlInv
<1>7. ModbusOnly => ~InPass(ctl)
  BY DEF Key2, BetweenPasses, ModbusOnly, InPass
<1>8. QED BY <1>4, <1>5, <1>6, <1>7 DEF Inv, ControlInv, PassInv, InPass, ModbusOnly

LEMMA HostInv == Inv /\ Host => Inv'
<1> SUFFICES ASSUME Inv, Host PROVE Inv' OBVIOUS
<1>1. HostLink /\ UNCHANGED <<ctl, readSt, fresh, reads>> /\ out' = {}
  BY DEF Host, HostClear, HostCommit
<1>2. /\ rows' \in Tables /\ noGeom' \in SUBSET DOMAIN rows' /\ dirty' \in BOOLEAN
      /\ commitOk' = FALSE
  <2>1. CASE HostClear
    <3>1. DOMAIN NoRows = {} /\ NoRows \in [DOMAIN NoRows -> Class] BY DEF NoRows
    <3>2. QED BY <2>1, <3>1, TableShape DEF HostClear
  <2>2. CASE \E g \in HostGrids : HostCommit(g)
    BY <2>2, InputsAssumption DEF HostCommit
  <2>3. QED BY <2>1, <2>2 DEF Host
<1>3. TypeOK'
  BY <1>1, <1>2 DEF Inv, TypeOK
<1>4. QED BY <1>1, <1>3 DEF Inv, ModbusOnly

LEMMA NextInv == Inv /\ [Next]_vars => Inv'
<1>1. Inv /\ UNCHANGED vars => Inv'
  BY DEF Inv, TypeOK, PassInv, vars, ModbusOnly
<1>2. QED BY <1>1, PollInv, Key2Inv, RequestsInv, HostInv DEF Next

THEOREM InductiveInvariant == Spec => []Inv
<1>1. QED BY InitInv, NextInv, PTL DEF Spec

-----------------------------------------------------------------------------
(***************************************************************************)
(* The theorems.                                                           *)
(***************************************************************************)

\* Every variable stays in its type, for every number of slots, every build
\* and every bound.
THEOREM TypeCorrect == Spec => []TypeOK
<1>1. Inv => TypeOK BY DEF Inv
<1>2. QED BY <1>1, InductiveInvariant, PTL

\* RequestEstop's latch keeps the sorter out of IDLE, RUN and PAUSE, whatever
\* the interrupted motion does to the main state afterwards.
THEOREM LatchKeepsStopped == Spec => []LatchedStates
<1>1. Inv => LatchedStates BY DEF Inv, ControlLogic, LatchedStates
<1>2. QED BY <1>1, InductiveInvariant, PTL

\* The no-op case of flag 44 in sorting_tick is unreachable.
THEOREM Flag44Timed == Spec => []Flag44HasTimer
<1>1. Inv => Flag44HasTimer BY DEF Inv, ControlLogic, Flag44HasTimer
<1>2. QED BY <1>1, InductiveInvariant, PTL

\* A restarted pass begins with no sub-step left from the last one.
THEOREM NoFlagLeftOver == Spec => []NoLeftoverFlag
<1>1. Inv => NoLeftoverFlag BY DEF Inv, ControlLogic, NoLeftoverFlag
<1>2. QED BY <1>1, InductiveInvariant, PTL

\* Every sub-step of a pass works on a committed full grid with geometry, for
\* trays of any size, when the matrix is written only by reads between passes.
THEOREM PassOnMatrix == Spec => []PassHasMatrix
<1>1. Inv => PassHasMatrix
  BY DEF Inv, PassInv, InPass, PassHasMatrix, Sorting
<1>2. QED BY <1>1, InductiveInvariant, PTL

\* A belt runs only when the table justifies it, for trays of any size.
THEOREM BeltsJustified == Spec => []BeltJustified
<1>1. Inv => BeltJustified
  BY DEF Inv, PassInv, InPass, BeltJustified, Sorting
<1>2. QED BY <1>1, InductiveInvariant, PTL

\* The fault of run_flag3_once for a missing destination is unreachable.
THEOREM FL3AlwaysHasDestination == Spec => []FL3HasDestination
<1>1. Inv => FL3HasDestination
  <2> SUFFICES ASSUME Inv, ModbusOnly, Sorting, ctl.flag = "FL3",
                      CheckTrayFullOrEmpty(rows, 1) # 1
               PROVE  RowsWithGeom(rows, noGeom, 1, 0) # {}
    BY DEF FL3HasDestination
  <2>1. /\ rows \in Tables /\ DOMAIN rows = Cells /\ noGeom = {}
        /\ CellsOf(rows, 2, {1, 2}) = {}
    BY DEF Inv, TypeOK, PassInv, InPass, Sorting
  <2>2. TrayCells(1) \subseteq DOMAIN rows
    BY <2>1 DEF TrayCells, Cells, Trays
  <2>3. 1 \in Trays /\ 1 \in Class BY DEF Trays, Class
  <2>4. PICK p \in TrayCells(1) : rows[p] # 1
    BY <2>1, <2>2, <2>3, FullTrayRecognised
  <2>5. p \in DOMAIN rows /\ p[1] = 1 BY <2>2, <2>4 DEF TrayCells
  <2>6. rows[p] # 2 BY <2>1, <2>5 DEF CellsOf
  <2>7. rows[p] = 0 BY <2>1, <2>4, <2>5, <2>6, TableValues DEF Class
  <2>8. QED BY <2>1, <2>5, <2>7 DEF RowsWithGeom, CellsOf
<1>2. QED BY <1>1, InductiveInvariant, PTL

\* Only a Poll starts motions.
LEMMA MotionsInPoll ==
  ASSUME Next, out' \cap Motion # {}
  PROVE  Poll
BY DEF Next, Requests, RequestStart, RequestPause, RequestClearFault, RequestEstop,
       RequestStandbyHome, Key1, Host, HostClear, HostCommit, Key2, Return, Motion

\* No call starts a motion while the latch is set.
THEOREM LatchStopsMotion == Spec => LatchBlocksMotion
<1>1. Inv /\ [Next]_vars => [ctl.hold => out' \cap Motion = {}]_vars
  <2> SUFFICES ASSUME Inv, Next, ctl.hold PROVE out' \cap Motion = {}
    BY DEF vars
  <2>1. /\ ctl.main \in {"ESTOP", "FAULT"} /\ ControlInv(ctl)
    BY DEF Inv, TypeOK, ControlInv, ControlLogic
  <2>2. CASE Poll
    <3>1. ~StandbyDue BY <2>1 DEF StandbyDue
    <3>2. PICK bad : Dispatch(Elapse(ctl), bad, {}) BY <2>2, <3>1 DEF Poll
    <3>3. Elapse(ctl).main \in {"ESTOP", "FAULT"} BY <2>1, ElapseControl
    <3>4. QED BY <3>2, <3>3 DEF Dispatch, TickDue, Return
  <2>3. QED BY <2>2, MotionsInPoll
<1>2. QED BY <1>1, InductiveInvariant, PTL DEF Spec, LatchBlocksMotion

\* PAUSE never moves a seedling and never runs a belt.
THEOREM PauseMovesNothing == Spec => PauseNeverSorts
<1>1. Inv /\ [Next]_vars => [ctl.main = "PAUSE" => out' \cap {"pick", "belt"} = {}]_vars
  <2> SUFFICES ASSUME Inv, Next, ctl.main = "PAUSE"
               PROVE  out' \cap {"pick", "belt"} = {}
    BY DEF vars
  <2>1. ControlInv(ctl)
    BY DEF Inv, TypeOK, ControlInv
  <2>2. ASSUME NEW c, ControlInv(c), c.main \in {"PAUSE", "ESTOP"},
               NEW cmds \in SUBSET {"home"}, NEW bad, Dispatch(c, bad, cmds)
        PROVE  out' = cmds
    <3> DEFINE d == TakeStandby([c EXCEPT !.sinceStep = 0])
    <3>1. CASE TickDue(c) /\ SortingTick(c, bad, cmds)
      <4>1. c.active44 /\ c.main = "PAUSE" /\ c.step = "SORTING"
        BY <2>2, <3>1 DEF TickDue, ControlInv, ControlLogic
      <4>2. d.active44 = c.active44
        BY <2>2, <4>1, TakeStandbyControl
      <4> HIDE DEF d
      <4>3. Return(c, cmds) \/ Flag44Window(d, cmds)
        BY <3>1, <4>1, <4>2 DEF SortingTick, d
      <4>4. QED BY <4>3 DEF Flag44Window, Return
    <3>2. QED BY <2>2, <3>1 DEF Dispatch, Return
  <2>3. CASE Poll
    <3>1. CASE \E bad : Dispatch(Elapse(ctl), bad, {})
      <4>1. ControlInv(Elapse(ctl)) /\ Elapse(ctl).main = "PAUSE"
        BY <2>1, ElapseControl
      <4>2. out' = {} BY <2>2, <3>1, <4>1
      <4>3. QED BY <4>2
    <3>2. CASE \E bad : \E c \in AfterMotion([Elapse(ctl) EXCEPT !.req45 = FALSE]) :
                 Dispatch(c, bad, {"home"})
      <4> DEFINE e == Elapse(ctl)
                 b == [e EXCEPT !.req45 = FALSE]
      <4>1. ControlInv(e) /\ e.main = "PAUSE" BY <2>1, ElapseControl
      <4> HIDE DEF e
      <4>2. /\ b \in Control /\ b.main = e.main /\ b.step = e.step /\ b.hold = e.hold
            /\ b.flag = e.flag /\ b.active44 = e.active44
        BY <4>1 DEF ControlInv, Control
      <4> HIDE DEF b
      <4>3. ControlInv(b) BY <4>1, <4>2 DEF ControlInv, ControlLogic
      <4>4. PICK bad : \E c \in AfterMotion(b) : Dispatch(c, bad, {"home"})
        BY <3>2 DEF b, e
      <4>5. PICK c \in AfterMotion(b) : Dispatch(c, bad, {"home"})
        BY <4>4
      <4>6. ControlInv(c) /\ c.main \in {"PAUSE", "ESTOP"}
        BY <4>1, <4>2, <4>3, <4>5, EstopControl DEF AfterMotion
      <4>7. out' = {"home"} BY <2>2, <4>5, <4>6
      <4>8. QED BY <4>7
    <3>3. QED BY <2>3, <3>1, <3>2 DEF Poll
  <2>4. QED BY <2>3, MotionsInPoll DEF Motion
<1>2. QED BY <1>1, InductiveInvariant, PTL DEF Spec, PauseNeverSorts

\* A sorting transfer leaves less to sort.
LEMMA TransferSorts ==
  ASSUME NEW t \in Tables, NEW u, SortingTransfer(t, u)
  PROVE  /\ Unsorted(u) < Unsorted(t)
         /\ \A x \in Class : Cardinality(CellsOf(u, x, Trays)) = Cardinality(CellsOf(t, x, Trays))
<1>1. PICK src \in DOMAIN t, dst \in DOMAIN t :
        /\ u = ApplyTransfer(t, src, dst) /\ t[dst] = 0
        /\ \/ t[src] = 2 /\ src[1] \in {1, 2} /\ dst[1] = 3
           \/ t[src] = 1 /\ src[1] = 2 /\ dst[1] = 1
  BY DEF SortingTransfer
<1>2. \A x \in Class : Cardinality(CellsOf(u, x, Trays)) = Cardinality(CellsOf(t, x, Trays))
  BY <1>1, TransferKeepsCounts
<1>3. /\ Cardinality(CellsOf(t, 2, {1, 2})) \in Nat
      /\ Cardinality(CellsOf(t, 1, {2})) \in Nat
  BY CellsOfFinite
<1>4. CASE t[src] = 2 /\ src[1] \in {1, 2} /\ dst[1] = 3
  <2>1. Cardinality(CellsOf(u, 2, {1, 2})) = Cardinality(CellsOf(t, 2, {1, 2})) - 1
    <3>1. t[src] # 0 /\ dst[1] \notin {1, 2} BY <1>4
    <3>2. Cardinality(CellsOf(u, t[src], {1, 2})) = Cardinality(CellsOf(t, t[src], {1, 2})) - 1
      BY <1>1, <1>4, <3>1, TransferTakesAway
    <3>3. QED BY <1>4, <3>2
  <2>2. CellsOf(u, 1, {2}) = CellsOf(t, 1, {2})
    BY <1>1, <1>4, TransferKeepsOthers
  <2>3. Unsorted(u) < Unsorted(t) BY <1>3, <2>1, <2>2 DEF Unsorted
  <2>4. QED BY <1>2, <2>3
<1>5. CASE t[src] = 1 /\ src[1] = 2 /\ dst[1] = 1
  <2>1. Cardinality(CellsOf(u, 1, {2})) = Cardinality(CellsOf(t, 1, {2})) - 1
    <3>1. t[src] # 0 /\ dst[1] \notin {2} /\ src[1] \in {2} BY <1>5
    <3>2. Cardinality(CellsOf(u, t[src], {2})) = Cardinality(CellsOf(t, t[src], {2})) - 1
      BY <1>1, <3>1, TransferTakesAway
    <3>3. QED BY <1>5, <3>2
  <2>2. CellsOf(u, 2, {1, 2}) = CellsOf(t, 2, {1, 2})
    BY <1>1, <1>5, TransferKeepsOthers
  <2>3. QED BY <1>2, <1>3, <2>1, <2>2 DEF Unsorted
<1>6. QED BY <1>1, <1>4, <1>5

\* Every transfer conserves the seedlings of each class and leaves strictly
\* less to sort, so a pass makes at most as many transfers as Unsorted counts.
THEOREM TransfersProgress == Spec => TransferProgress
<1>1. Inv /\ [Next]_vars =>
        [("pick" \in out' /\ rows' # rows) =>
           /\ Unsorted(rows') < Unsorted(rows)
           /\ \A x \in Class : Cardinality(CellsOf(rows', x, Trays))
                                 = Cardinality(CellsOf(rows, x, Trays))]_vars
  <2> SUFFICES ASSUME Inv, Next, "pick" \in out', rows' # rows
               PROVE  /\ Unsorted(rows') < Unsorted(rows)
                      /\ \A x \in Class : Cardinality(CellsOf(rows', x, Trays))
                                            = Cardinality(CellsOf(rows, x, Trays))
    BY DEF vars
  <2>1. Poll
    <3>1. "pick" \in Motion BY DEF Motion
    <3>2. QED BY <3>1, MotionsInPoll
  <2>2. rows \in Tables BY DEF Inv, TypeOK
  <2>3. SortingTransfer(rows, rows')
    BY <2>1, DispatchTable DEF Poll
  <2>4. QED BY <2>2, <2>3, TransferSorts
<1>2. QED BY <1>1, InductiveInvariant, PTL DEF Spec, TransferProgress

-----------------------------------------------------------------------------
(***************************************************************************)
(* The alarm lamp, where no emergency stop preempts a motion.              *)
(***************************************************************************)
StopIn(c) == c.main \in {"FAULT", "ESTOP"} \/ c.active44

LampInv(c) ==
  /\ StopIn(c) => c.lamp \in {"red", "key1"}
  /\ c.lamp = "red" => StopIn(c)

LEMMA FlagLamp ==
  ASSUME NEW c \in Control, LampInv(c), NEW f
  PROVE  LampInv([c EXCEPT !.flag = f])
BY DEF LampInv, StopIn, Control

LEMMA FaultLamp ==
  ASSUME NEW c \in Control
  PROVE  LampInv(EnterFault(c))
BY DEF LampInv, StopIn, EnterFault, ResetInner, Control

\* An undisturbed motion changes nothing.
LEMMA Undisturbed == ASSUME ~EstopInterrupts, NEW c PROVE AfterMotion(c) = {c}
BY DEF AfterMotion

LEMMA SwitchLamp ==
  ASSUME ~EstopInterrupts, NEW c \in Control, LampInv(c), ~c.active44,
         c.main \in {"RUN", "PAUSE"}, NEW bad, NEW cmds, FlagSwitch(c, bad, cmds)
  PROVE  LampInv(ctl')
<1>1. CASE \E f : ctl' = [c EXCEPT !.flag = f]
  BY <1>1, FlagLamp
<1>2. CASE ctl' = EnterFault(c)
  BY <1>2, FaultLamp
<1>3. CASE ctl' = c
  BY <1>3
<1>4. CASE FlagIdle(c, bad, cmds)
  BY <1>1, <1>2, <1>3, <1>4 DEF FlagIdle, Return
<1>5. CASE RunFlag2(c, bad, cmds)
  <2>1. \/ ctl' = [c EXCEPT !.flag = "FL6"] \/ ctl' = [c EXCEPT !.flag = "FL3"]
        \/ ctl' = AfterTransfer2(c, rows', bad) \/ ctl' = EnterFault(c)
    BY <1>5, Undisturbed DEF RunFlag2, Return
  <2> QED BY <1>1, <1>2, <1>3, <2>1 DEF AfterTransfer2
<1>6. CASE RunFlag3(c, bad, cmds)
  <2>1. \/ ctl' = [c EXCEPT !.flag = "FL4"] \/ ctl' = [c EXCEPT !.flag = "FL5"]
        \/ ctl' = c \/ ctl' = EnterFault(c)
    BY <1>6, Undisturbed DEF RunFlag3, Return
  <2> QED BY <1>1, <1>2, <1>3, <2>1
<1>7. CASE RunConveyor(c, cmds)
  <2>1. ctl' = [c EXCEPT !.flag = "IDLE", !.lamp = "green"] \/ ctl' = EnterFault(c)
    BY <1>7, Undisturbed DEF RunConveyor, Return
  <2>2. LampInv([c EXCEPT !.flag = "IDLE", !.lamp = "green"])
    BY DEF LampInv, StopIn, Control
  <2> QED BY <1>2, <2>1, <2>2
<1>8. CASE EnterFlag44(c, cmds)
  <2> DEFINE e == [c EXCEPT !.flag = "FL44", !.active44 = TRUE, !.elapsed44 = 0]
  <2>1. PICK d \in AfterMotion(e) : ctl' = [d EXCEPT !.lamp = "red"]
    BY <1>8 DEF EnterFlag44, Return
  <2>2. e \in Control /\ e.active44
    BY Values DEF Control
  <2> HIDE DEF e
  <2>3. d = e
    BY Undisturbed
  <2> QED BY <2>1, <2>2, <2>3 DEF LampInv, StopIn, Control
<1>9. CASE \E d \in AfterMotion(c) : ctl' = [d EXCEPT !.flag = "IDLE"]
  BY <1>1, <1>9, Undisturbed
<1> QED BY <1>4, <1>5, <1>6, <1>7, <1>8, <1>9 DEF FlagSwitch, Return

LEMMA TickLamp ==
  ASSUME ~EstopInterrupts, NEW c, ControlInv(c), LampInv(c), TickDue(c),
         NEW bad, NEW cmds, SortingTick(c, bad, cmds)
  PROVE  LampInv(ctl')
<1> DEFINE b == [c EXCEPT !.sinceStep = 0]
           d == TakeStandby(b)
<1>1. c \in Control /\ c.main \in {"RUN", "PAUSE"} /\ c.step = "SORTING"
  BY DEF TickDue, ControlInv, ControlLogic
<1>2. d \in Control /\ d.main = c.main
  BY <1>1, TakeStandbyControl DEF ControlInv
<1>3. LampInv(d)
  <2>1. b \in Control /\ LampInv(b)
    BY <1>1, Values DEF LampInv, StopIn, Control
  <2> HIDE DEF b
  <2>2. LampInv([b EXCEPT !.req45 = FALSE, !.flag = "FL45"])
    BY <2>1 DEF LampInv, StopIn, Control
  <2> QED BY <2>1, <2>2 DEF TakeStandby
<1> HIDE DEF d
<1>4. CASE ctl' = c
  BY <1>4
<1>5. CASE Flag44Window(d, cmds)
  <2> DEFINE e == [d EXCEPT !.active44 = FALSE, !.elapsed44 = 0, !.flag = "IDLE", !.lamp = "off"]
  <2>1. ctl' = d \/ ctl' = e
    BY <1>5 DEF Flag44Window, Return
  <2>2. LampInv(e)
    BY <1>1, <1>2 DEF LampInv, StopIn, Control
  <2> QED BY <1>3, <2>1, <2>2
<1>6. CASE ~d.active44 /\ FlagSwitch(d, bad, cmds)
  BY <1>1, <1>2, <1>3, <1>6, SwitchLamp
<1> QED BY <1>4, <1>5, <1>6 DEF SortingTick, Return, d

LEMMA DispatchLamp ==
  ASSUME ~EstopInterrupts, NEW c, ControlInv(c), LampInv(c), NEW bad, NEW cmds,
         Dispatch(c, bad, cmds)
  PROVE  LampInv(ctl')
<1>1. c \in Control
  BY DEF ControlInv
<1>2. CASE WaitMatrix(c, bad, cmds)
  <2>1. LampInv([c EXCEPT !.step = "SORTING", !.flag = "IDLE"])
    BY <1>1 DEF LampInv, StopIn, Control
  <2> QED BY <1>1, <1>2, <2>1, FaultLamp DEF WaitMatrix, Return
<1> QED BY <1>2, TickLamp DEF Dispatch, Return

LEMMA RequestsLamp ==
  ASSUME NEW c, ControlInv(c), LampInv(c)
  PROVE  /\ LampInv(Start(c)) /\ LampInv(ClearFault(c)) /\ LampInv(Estop(c))
         /\ c.main = "RUN" => LampInv([c EXCEPT !.main = "PAUSE"])
         /\ LampInv([c EXCEPT !.flag = "FL45"]) /\ LampInv([c EXCEPT !.req45 = TRUE])
         /\ LampInv([c EXCEPT !.lamp = "key1"])
<1>1. c \in Control
  BY DEF ControlInv
<1>2. LampInv(Start(c))
  <2>1. c.main = "PAUSE" => LampInv([c EXCEPT !.main = "RUN"])
    BY <1>1 DEF LampInv, StopIn, Control
  <2>2. LampInv([ResetInner(c) EXCEPT !.main = "RUN", !.sinceStep = STEP_HOLD, !.lamp = "off"])
    BY <1>1 DEF LampInv, StopIn, ResetInner, Control
  <2> QED BY <2>1, <2>2 DEF Start
<1>3. LampInv(ClearFault(c)) /\ LampInv(Estop(c))
  BY <1>1 DEF LampInv, StopIn, ClearFault, Estop, ResetInner, Control
<1>4. /\ c.main = "RUN" => LampInv([c EXCEPT !.main = "PAUSE"])
      /\ LampInv([c EXCEPT !.flag = "FL45"]) /\ LampInv([c EXCEPT !.req45 = TRUE])
  BY <1>1 DEF LampInv, StopIn, Control
<1>5. LampInv([c EXCEPT !.lamp = "key1"])
  BY <1>1 DEF LampInv, StopIn, Control
<1> QED BY <1>2, <1>3, <1>4, <1>5

LEMMA LampNext ==
  ASSUME ~EstopInterrupts, Inv, LampInv(ctl), [Next]_vars
  PROVE  LampInv(ctl')
<1>1. ControlInv(ctl)
  BY DEF Inv, TypeOK, ControlInv
<1>2. CASE Poll
  <2> DEFINE e == Elapse(ctl)
             b == [e EXCEPT !.req45 = FALSE]
  <2>1. ControlInv(e) /\ LampInv(e)
    BY <1>1, ElapseControl DEF LampInv, StopIn
  <2> HIDE DEF e
  <2>2. b \in Control /\ \A f \in {"main", "step", "hold", "flag", "active44", "lamp"} : b[f] = e[f]
    BY <2>1 DEF ControlInv, Control
  <2> HIDE DEF b
  <2>3. ControlInv(b) /\ LampInv(b)
    BY <2>1, <2>2 DEF ControlInv, ControlLogic, LampInv, StopIn
  <2>4. \E bad : Dispatch(e, bad, {}) \/ \E c \in AfterMotion(b) : Dispatch(c, bad, {"home"})
    BY <1>2 DEF Poll, b, e
  <2> QED BY <2>1, <2>3, <2>4, Undisturbed, DispatchLamp
<1>3. CASE Requests
  BY <1>1, <1>3, RequestsLamp
     DEF Requests, RequestStart, RequestPause, RequestClearFault, RequestEstop,
         RequestStandbyHome, Key1, Return
<1>4. CASE Key2
  BY <1>1, <1>4, RequestsLamp DEF Key2, Return
<1>5. CASE Host \/ UNCHANGED vars
  BY <1>5 DEF Host, HostClear, HostCommit, vars
<1> QED BY <1>2, <1>3, <1>4, <1>5 DEF Next

\* Where no stop preempts a motion, the alarm lamp is red exactly while the
\* sorter is stopped, unless KEY1 wrote it.
THEOREM LampTells == ASSUME ~EstopInterrupts PROVE Spec => []LampTellsStop
<1>1. Init => LampInv(ctl)
  BY DEF Init, LampInv, StopIn
<1>2. Inv /\ LampInv(ctl) /\ [Next]_vars => LampInv(ctl)'
  BY LampNext
<1>3. LampInv(ctl) => LampTellsStop
  BY DEF LampInv, StopIn, LampTellsStop, Stopped
<1> QED BY <1>1, <1>2, <1>3, InductiveInvariant, PTL DEF Spec
(***************************************************************************)
(* A standby request is used up by a homing motion only.                   *)
(***************************************************************************)

LEMMA DispatchKeepsCommands ==
  ASSUME NEW c, NEW bad, NEW cmds, Dispatch(c, bad, cmds)
  PROVE  cmds \subseteq out'
<1>1. ASSUME NEW d, FlagSwitch(d, bad, cmds)
      PROVE  cmds \subseteq out'
  <2>1. CASE FlagIdle(d, bad, cmds)  BY <2>1 DEF FlagIdle, Return
  <2>2. CASE EnterFlag44(d, cmds)    BY <2>2 DEF EnterFlag44, Return
  <2>3. CASE RunFlag2(d, bad, cmds)  BY <2>3 DEF RunFlag2, Return
  <2>4. CASE RunFlag3(d, bad, cmds)  BY <2>4 DEF RunFlag3, Return
  <2>5. CASE RunConveyor(d, cmds)    BY <2>5 DEF RunConveyor, Return
  <2> QED BY <1>1, <2>1, <2>2, <2>3, <2>4, <2>5 DEF FlagSwitch, Return
<1>2. CASE SortingTick(c, bad, cmds)
  BY <1>1, <1>2 DEF SortingTick, Flag44Window, Return
<1> QED BY <1>2 DEF Dispatch, WaitMatrix, Return

LEMMA RequestsKeepStandby ==
  ASSUME NEW c \in Control, c.req45
  PROVE  /\ Start(c).req45 /\ Estop(c).req45 /\ ClearFault(c).req45 /\ EnterFault(c).req45
         /\ [c EXCEPT !.main = "PAUSE"].req45 /\ [c EXCEPT !.flag = "FL45"].req45
         /\ [c EXCEPT !.req45 = TRUE].req45 /\ [c EXCEPT !.lamp = "key1"].req45
         /\ [c EXCEPT !.step = "SORTING", !.flag = "IDLE"].req45
BY DEF Start, Estop, ClearFault, EnterFault, ResetInner, Control

\* A step that serves no standby request itself drops one by homing only.
LEMMA DispatchKeepsStandby ==
  ASSUME NEW c \in Control, c.req45, ~c.active44, NEW bad, NEW cmds,
         Dispatch(c, bad, cmds), ~ctl'.req45
  PROVE  "home" \in out'
<1>1. ~(ctl' = c) /\ ~WaitMatrix(c, bad, cmds)
  BY RequestsKeepStandby DEF WaitMatrix, Return
<1>2. SortingTick(c, bad, cmds)
  BY <1>1 DEF Dispatch, Return
<1> DEFINE b == [c EXCEPT !.sinceStep = 0]
           d == TakeStandby(b)
<1>3. b.req45 /\ ~b.active44 /\ b = [b EXCEPT !.sinceStep = 0]
  BY DEF Control
<1>4. b \in Control
  BY Values DEF Control
<1>5. d.flag = "FL45" /\ ~d.active44
  <2> HIDE DEF b
  <2> QED BY <1>3, <1>4 DEF TakeStandby, Control
<1>6. FlagSwitch(d, bad, cmds)
  <2> HIDE DEF d
  <2> QED BY <1>1, <1>2, <1>5 DEF SortingTick, Return, d
<1> HIDE DEF d
<1>7. \E e \in AfterMotion(d) : Return([e EXCEPT !.flag = "IDLE"], cmds \cup {"home"})
  BY <1>5, <1>6 DEF FlagSwitch
<1> QED BY <1>7 DEF Return

\* No pause, fault, stop or start takes a standby request away.
THEOREM StandbyStays == Spec => StandbyKept
<1>1. Inv /\ [Next]_vars
        => [ctl.req45 /\ ~ctl'.req45 => "home" \in out' \/ ctl.active44]_vars
  <2> SUFFICES ASSUME Inv, Next, ctl.req45, ~ctl'.req45, ~ctl.active44
               PROVE  "home" \in out'
    BY DEF vars
  <2>1. ctl \in Control
    BY DEF Inv, TypeOK
  <2>2. ~Requests /\ ~Key2
    BY <2>1, RequestsKeepStandby
       DEF Requests, RequestStart, RequestPause, RequestClearFault, RequestEstop,
           RequestStandbyHome, Key1, Key2, Return
  <2>3. ~Host
    BY DEF Host, HostClear, HostCommit
  <2>4. Poll
    BY <2>2, <2>3 DEF Next
  <2> DEFINE e == Elapse(ctl)
  <2>5. e \in Control /\ e.req45 = ctl.req45 /\ e.active44 = ctl.active44
    BY <2>1, ElapseControl DEF Elapse, Control, Inv, ControlInv
  <2>6. CASE \E bad : \E c : Dispatch(c, bad, {"home"})
    BY <2>6, DispatchKeepsCommands
  <2>7. CASE \E bad : Dispatch(e, bad, {})
    <3> HIDE DEF e
    <3> QED BY <2>5, <2>7, DispatchKeepsStandby
  <2> QED BY <2>4, <2>6, <2>7 DEF Poll, e
<1>2. QED BY <1>1, InductiveInvariant, PTL DEF Spec, StandbyKept
=============================================================================
