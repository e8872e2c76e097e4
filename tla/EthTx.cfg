CONSTANTS
  N = 3
  WaitPolls = 2
  DonePolls = 2
  RestartsAtBase = FALSE
  MaxCalls = 6
  MaxLinkUps = 3
SPECIFICATION FairSpec
INVARIANTS OkMeansSent  SentInOrder
PROPERTIES CallReturns RingDrains
CHECK_DEADLOCK FALSE
