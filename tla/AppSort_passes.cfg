\* Every full grid; motions and kinematics fail, emergency stops come in a motion.
SPECIFICATION FairSpec
CONSTANTS
  Slots = {1, 2}
  Grids <- PairGrids
  HostGrids <- NoTables
  GeomFailures <- GeometryMayFail
  RealMotion = TRUE
  EstopInterrupts = TRUE
  AutoStart = FALSE
  Bypass = FALSE
  HostLink = FALSE
  ReadsAnytime = FALSE
  STEP_HOLD = 0
  ALARM44 = 2
  MaxReads = 2
INVARIANTS LatchedStates NoLeftoverFlag PassHasMatrix BeltJustified FL3HasDestination
PROPERTIES LatchBlocksMotion TransferProgress PassReachesBelt
