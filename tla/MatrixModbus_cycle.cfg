\* Both builds; presses of KEY2, rewriting and late answers at any time.
SPECIFICATION FairSpec
CONSTANTS
  N = 2
  Builds <- BothBuilds
  BadGrids <- NoBadGrids
  MaxGrids = 2
  MaxLate = 2
INVARIANTS TypeOK TableWhole
PROPERTIES KeepsPromise ReadEnds PressIsServed
