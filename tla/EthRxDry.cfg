CONSTANTS
  N = 2
  Buffers = {1, 2, 3}
  NoBuf = NoBuf
  Candidates <- AnyFree
  Kinds = {"single", "ctxt", "part", "giant"}
  AbnormalIrq = TRUE
  StackLimit = 2
  MaxFrames = 4
  MaxTxIrqs = 0
  MaxLinkUps = 2
SPECIFICATION Spec
INVARIANTS SoleOwner NoEndlessLoop
CHECK_DEADLOCK FALSE
