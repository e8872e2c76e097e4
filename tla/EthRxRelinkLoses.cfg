CONSTANTS
  N = 2
  Buffers = {1, 2, 3, 4, 5, 6}
  NoBuf = NoBuf
  Candidates <- LowestFree
  Kinds = {"single"}
  AbnormalIrq = FALSE
  StackLimit = 1
  MaxFrames = 2
  MaxTxIrqs = 0
  MaxLinkUps = 2
SPECIFICATION Spec
INVARIANT NoBufferLost
CHECK_DEADLOCK FALSE
