\* main() and a preempting caller on a bus that loses, garbles and delays answers.
SPECIFICATION FairSpec
CONSTANTS
  Requests <- Callers
  None = None
  Garbled = Garbled
  Lateness = {FALSE, TRUE}
  Depth = 2
  MaxWire = 1
  MaxRing = 2
INVARIANTS TypeOK OneTransaction OnlyOwnAnswers HistoryIsRecent CarriedWithinTries
PROPERTIES CallsEnd
