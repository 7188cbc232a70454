CONSTANTS
  w1 = w1
  w2 = w2
  Thread = Thread
  Free = Free
  Writers <- TwoWriters
  MaxWrites = 2
SPECIFICATION FairSpec
CHECK_DEADLOCK FALSE
PROPERTY ShutdownReturns
