CONSTANTS
  Timers = {t1}
  Handles = {h1, h2}
  Null = null
  Notifier = notifier
  Socket = socket
  MaxSets = 2
  MaxPort = 2
  MaxNotify = 2
SPECIFICATION Spec
INVARIANTS
  ReturnsOnlyWhenAsked
  TimerReportsItsSetting
PROPERTIES
  NotifiesOneByOne
