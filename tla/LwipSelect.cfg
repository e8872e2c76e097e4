\* A thread in lwip_select(), one in lwip_poll(), a server thread
SPECIFICATION FairSpec
CONSTANTS
    Threads = {t1, t2}
    Polls = {t2}
    Apps = {a1}
    NSock = 2
    Listener = listener
    Data = {d1}
    Wants <- MCWants
    Timeouts = {"finite"}
    SelWaitMod = 3
    MaxData = 1
    None = None
INVARIANTS
    
    NoLostWakeup
CHECK_DEADLOCK FALSE
