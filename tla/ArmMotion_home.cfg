\* A belt run after a homing motion that timed out.
SPECIFICATION Spec
CONSTANTS
  EstopInterrupts = FALSE
  Buses = {FALSE}
INVARIANTS HomeBeforeBelt
