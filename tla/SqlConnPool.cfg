CONSTANTS
  w1 = w1
  w2 = w2
  w3 = w3
  w4 = w4
  h1 = h1
  h2 = h2
  t1 = t1
  t2 = t2
  t3 = t3
  p1 = p1
  None = None
  Workers <- FourWorkers
  Handles <- TwoHandles
  TxRequests <- ThreeTx
  AutoRequests <- OneAuto
  MayLose = TRUE
  MayShutdown = TRUE
SPECIFICATION Spec
INVARIANT TypeOK HandlesAccounted TxBelongsToHolder ReplyTruthful NoLostWaiter
SYMMETRY Sym
CHECK_DEADLOCK FALSE
