\* An emergency stop during a motion: the ESTOP state is overwritten.
SPECIFICATION Spec
CONSTANTS
  Slots = {1}
  Grids <- WorkGrids
  HostGrids <- NoTables
  GeomFailures <- GeometryAlwaysValid
  RealMotion = TRUE
  EstopInterrupts = TRUE
  AutoStart = FALSE
  Bypass = TRUE
  HostLink = FALSE
  ReadsAnytime = FALSE
  STEP_HOLD = 0
  ALARM44 = 2
  MaxReads = 1
INVARIANTS EstopUntilCleared
