CONSTANTS
  client = client
  worker = worker
  Objects = {client, worker}
  Fds <- FewFds
  None = None
  Other = Other
  Calls <- ClientAndWorker
  Backlog = 2
SPECIFICATION Spec
INVARIANTS
  UsesOwnDescriptor
  NoDanglingCallback
  NoLeak
  WatchedAsAsked
  NoClientStranded
  OnlySecondStopHits
