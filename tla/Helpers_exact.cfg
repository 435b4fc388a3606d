CONSTANTS
  Chars = {a, blank}
  Blank = blank
  MaxLen = 5
  MaxPattern = 2
  MaxGrown = 7
  Texts <- SomeTexts
  Netmasks <- SomeNetmasks
  UIntRange = 512
  Callers = {t1, t2}
  Caller = caller
  PipeSize = 1
  MaxStdin = 2
SPECIFICATION Spec
INVARIANTS
  SplitAndTrimExact
  ReplaceExact
  AddressesExact
  CommandSound
PROPERTIES
  ReplaceEnds
CHECK_DEADLOCK FALSE
