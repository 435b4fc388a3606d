CONSTANTS
  MaxBlocks = 4
  MaxSize = 2
  MaxRoom = 3
  Breaks = TRUE
SPECIFICATION SendLiveSpec
INVARIANTS
  BlocksDescribeRest
  SentInOrder
PROPERTIES
  SendEnds
