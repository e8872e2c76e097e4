\* Two threads on two descriptors and two lwIP sockets
SPECIFICATION FairSpec
CONSTANTS
    Threads = {t1, t2}
    NIop = 2
    NSock = 2
    MaxSockets = 3
    MaxNest = 2
    None = None
INVARIANTS
    NamesOwnSocket
    
    CallsHitOwn

    
CHECK_DEADLOCK FALSE
