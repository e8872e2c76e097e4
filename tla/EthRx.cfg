CONSTANTS
  N = 2
  Buffers = {1, 2, 3, 4, 5, 6, 7, 8, 9, 10}
  NoBuf = NoBuf
  Candidates <- LowestFree
  Kinds = {"single", "ctxt", "part"}
  AbnormalIrq = TRUE
  StackLimit = 2
  MaxFrames = 3
  MaxTxIrqs = 1
  MaxLinkUps = 2
SPECIFICATION FairSpec
INVARIANTS RingInStep NoSleepOnFrame LossAccounted
PROPERTIES InOrder FrameTaken DmaResumes 
CHECK_DEADLOCK FALSE
