CONSTANTS
  u1 = u1
  u2 = u2
  None = None
  Users <- TwoUsers
  MaxCount <- Counts
  Window <- Windows
  TokenLife = 1
  MaxTokens = 1
  OtherTypes <- AccessOnly
  Requests <- Both
  Strays <- Remains
  BufSize = 5
  FileSize = 2
SPECIFICATION Spec
INVARIANT TypeOK ParsedAsSent NothingForgotten Authorized AnswerFits AnswerWhole WindowBound
CHECK_DEADLOCK FALSE
