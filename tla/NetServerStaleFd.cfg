CONSTANTS
  c1 = c1
  c2 = c2
  f1 = f1
  w1 = w1
  w2 = w2
  None = None
  Conns <- TwoConns
  Fds <- OneFd
  Workers <- TwoWorkers
  ActorModels <- ReactorOnly
  TrigModes <- EdgeOnly
  Fragments = 2
  MayExpire = TRUE
  MayFail = FALSE
  MaySignal = FALSE
SPECIFICATION Spec
CHECK_DEADLOCK FALSE
INVARIANT NoForeignFd
