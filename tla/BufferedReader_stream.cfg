CONSTANTS
  BufferSize = 2
  MaxLen = 3
  MaxSent = 6
  MaxConns = 2
SPECIFICATION LiveSpec
INVARIANTS
  StreamAfterLeftovers
  EveryByteReported
PROPERTIES
  CompleteEnds
