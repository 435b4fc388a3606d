CONSTANTS
  f1 = f1
  f2 = f2
  a1 = a1
  a2 = a2
  Fds = {f1, f2}
  Nodes = {a1, a2}
  Clients = {c}
  Loop = loop
  None = None
  StopFd = stopfd
  MAXEVENTS = 2
  MaxPend = 1
  MaxExecutes = 1
  Throwers = {f2}
  Watch <- InOnly
  Closable = {f2}
  ConcurrentClients = TRUE
SPECIFICATION Spec
SYMMETRY NodeSymmetry
INVARIANT NoStaleCallback
