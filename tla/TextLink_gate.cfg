\* One client and the build that shuts the gate after a frame.
SPECIFICATION Spec
CONSTANTS
  Conns = {c1}
  Frames <- TwoFrames
  Odd = {}
  OddSums = {}
  Slots = 2
  Builds <- OneShut
  Nothing = Nothing
  Joined = Joined
  NoConn = NoConn
PROPERTY ClosedGateKeepsTable
