CONSTANTS
  c1 = c1
  c2 = c2
  f1 = f1
  w1 = w1
  w2 = w2
  None = None
  Conns <- OneConn
  Fds <- OneFd
  Workers <- OneWorker
  ActorModels <- Both
  TrigModes <- Both
  Fragments = 3
  MayExpire = FALSE
  MayFail = TRUE
  MaySignal = TRUE
SPECIFICATION FairSpec
CHECK_DEADLOCK FALSE
PROPERTY RequestAnswered PeerCloseReleases SignalStops
