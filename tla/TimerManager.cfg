CONSTANTS
  i1 = i1
  i2 = i2
  a1 = a1
  a2 = a2
  a3 = a3
  a4 = a4
  NoTimer = NoTimer
  Ids <- TwoIds
  Addrs <- FourAddrs
  Timeouts <- TwoTimeouts
  MaxTime = 3
SPECIFICATION FairSpec
INVARIANT LiveInHeap
PROPERTY NothingDueAfterTick ImplementsDeadlineMap DueFires
