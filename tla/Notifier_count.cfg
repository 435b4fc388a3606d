CONSTANTS
  Handlers = {h1, h2}
  Nop = nop
  MaxCount = 3
  MaxNotify = 7
SPECIFICATION LiveSpec
INVARIANTS
  NotifiedEqualsCalled
PROPERTIES
  ImplementsNotification
CHECK_DEADLOCK FALSE
