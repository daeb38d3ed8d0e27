\* A failed KEY2 read starts the sorter too.
SPECIFICATION Spec
CONSTANTS
  Slots = {1}
  Grids <- WorkGrids
  HostGrids <- NoTables
  GeomFailures <- GeometryAlwaysValid
  RealMotion = FALSE
  EstopInterrupts = FALSE
  AutoStart = TRUE
  Bypass = FALSE
  HostLink = FALSE
  ReadsAnytime = FALSE
  STEP_HOLD = 0
  ALARM44 = 2
  MaxReads = 2
PROPERTIES AutoStartAfterGoodRead
