CONSTANTS
  t1 = t1
  t2 = t2
  k1 = k1
  k2 = k2
  k3 = k3
  v1 = v1
  v2 = v2
  None = None
  Found = Found
  Failed = Failed
  Unknown = Unknown
  Threads <- TwoThreads
  Keys <- ThreeKeys
  Values <- TwoValues
  Setups <- SomeSetups
  MaxAnswers = 1
SPECIFICATION Spec
INVARIANT IndexMatchesList KeepsMostRecent
PROPERTY FreshRead
SYMMETRY Sym
