\* Two clients and two builds; every cut of the stream, every pbuf dropped.
SPECIFICATION Spec
CONSTANTS
  Conns = {c1, c2}
  Frames <- TwoFrames
  Odd <- OddRows
  OddSums <- OneSum
  Slots = 2
  Builds <- TwoBuilds
  Nothing = Nothing
  Joined = Joined
  NoConn = NoConn
SYMMETRY Clients
INVARIANTS TypeOK TrustedIsCommitted
PROPERTIES KeepsPromise WholeFrameCounts BestOfWindow
