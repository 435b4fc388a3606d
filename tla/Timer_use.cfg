CONSTANTS
  Nop = nop
  Empty = empty
  Loop = loop
  Users = {main}
  MaxSets = 2
SPECIFICATION LiveSpec
INVARIANTS
  SetTimerIsPending
  SingleShotReportsOnce
PROPERTIES
  SilentAfterCancel
  SetTimerFires
CHECK_DEADLOCK FALSE
