\* Image with the host text link: the matrix is cleared or replaced under a pass.
SPECIFICATION FairSpec
CONSTANTS
  Slots = {1}
  Grids <- WorkGrids
  HostGrids <- SomeHostTables
  GeomFailures <- GeometryAlwaysValid
  RealMotion = TRUE
  EstopInterrupts = FALSE
  AutoStart = FALSE
  Bypass = TRUE
  HostLink = TRUE
  ReadsAnytime = TRUE
  STEP_HOLD = 2
  ALARM44 = 3
  MaxReads = 1
INVARIANTS TypeOK Flag44HasTimer LampTellsStop
PROPERTIES PauseNeverSorts StandbyKept Flag44Ends
