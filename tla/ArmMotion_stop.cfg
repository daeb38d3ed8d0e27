\* Emergency stops at any moment, on a bus that works and on one that fails.
SPECIFICATION FairSpec
CONSTANTS
  EstopInterrupts = TRUE
  Buses = {FALSE, TRUE}
INVARIANTS TypeOK QuietAtRest OneMoveAfterLatch TableTold
PROPERTIES IsMotionCall DroppedOnlyByStop MotionEnds
