CONSTANTS
  c1 = c1
  c2 = c2
  f1 = f1
  f2 = f2
  s1 = s1
  s2 = s2
  w1 = w1
  w2 = w2
  None = None
  NoKey = NoKey
  Conns <- TwoConns
  Fds <- TwoFds
  Sessions <- TwoSessions
  Workers <- TwoWorkers
  Frames = 2
  MaxPushes = 1
SPECIFICATION Spec
INVARIANT TypeOK FdLivesWithConn SessionsAgree HandledInOrder
SYMMETRY Sym
CHECK_DEADLOCK FALSE
