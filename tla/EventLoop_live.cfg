CONSTANTS
  f1 = f1
  f2 = f2
  a1 = a1
  a2 = a2
  Fds = {f1}
  Nodes = {a1}
  Clients = {c}
  Loop = loop
  None = None
  StopFd = stopfd
  MAXEVENTS = 2
  MaxPend = 1
  MaxExecutes = 2
  Throwers = {}
  Watch <- OneBoth
  Closable = {}
  ConcurrentClients = FALSE
SPECIFICATION LiveSpec
PROPERTIES
  EverySignaledServed
  StopHonouredWhenQuiet
