CONSTANTS
  Ifs <- TwoIfs
  Fds <- ThreeFds
  Threads = {t1, t2}
  MaxInbox = 2
SPECIFICATION Spec
SYMMETRY ThreadSymmetry
INVARIANTS
  NothingLeftBehind
  NoTelegramStranded
  SentAsAsked
  SuccessMeansSent
CHECK_DEADLOCK FALSE
