\* After a belt run the next pass begins on the matrix of the last one.
SPECIFICATION Spec
CONSTANTS
  Slots = {1}
  Grids <- WorkGrids
  HostGrids <- NoTables
  GeomFailures <- GeometryAlwaysValid
  RealMotion = FALSE
  EstopInterrupts = FALSE
  AutoStart = TRUE
  Bypass = TRUE
  HostLink = FALSE
  ReadsAnytime = FALSE
  STEP_HOLD = 0
  ALARM44 = 2
  MaxReads = 1
PROPERTIES NoPassOnOldMatrix
