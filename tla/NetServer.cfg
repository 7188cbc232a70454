CONSTANTS
  c1 = c1
  c2 = c2
  f1 = f1
  w1 = w1
  w2 = w2
  None = None
  Conns <- TwoConns
  Fds <- OneFd
  Workers <- TwoWorkers
  ActorModels <- Both
  TrigModes <- Both
  Fragments = 2
  MayExpire = TRUE
  MayFail = TRUE
  MaySignal = TRUE
SPECIFICATION Spec
CHECK_DEADLOCK FALSE
CONSTRAINT NotRaced
SYMMETRY Symmetry
INVARIANT TypeOK OneToken UsersAgree TimerCoverage
