CONSTANTS
  Posters = {t1, t2}
  Fetchers = {t2, t3}
  Size = 2
  MaxPosts = 3
SPECIFICATION MboxFairSpec
INVARIANTS SlotsAccounted
PROPERTIES QueueSpec PostReturns
CHECK_DEADLOCK FALSE
