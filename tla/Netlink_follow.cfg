CONSTANTS
  Ifs <- EthernetAndLoopback
  Hardware <- Ethernet
  Addrs = {lan, apipa}
  Apipa = {apipa}
  Gone = Gone
  Threads = {loop, user}
  Loop = loop
  MaxChanges = 2
  MaxQueue = 1
SPECIFICATION Spec
INVARIANTS
  AdaptersCurrent
  ApipaLast
  ListBeforeEvent
  EventsFollowKernel
CHECK_DEADLOCK FALSE
