\* A ring of four cells, an interrupt at any step of the reader.
SPECIFICATION Spec
CONSTANTS
  a = a
  b = b
  N = 4
  Byte <- Bytes
  NoByte = NoByte
  Ports <- BothPorts
  Capacity = 4
  MaxCame = 6
  MaxLost = 2
INVARIANTS TypeOK AnswerIsWhatCame
PROPERTIES IsByteQueue
