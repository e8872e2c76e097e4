\* Two lwip_select() calls where select_waiting holds one: overflow and waking
SPECIFICATION FairSpec
CONSTANTS
    Threads = {t1, t2}
    Polls = {}
    Apps = {a1}
    NSock = 2
    Listener = listener
    Data = {d1}
    Wants <- MCServer
    Timeouts = {"forever"}
    SelWaitMod = 2
    MaxData = 1
    None = None
INVARIANTS
    WaitingAccounted
PROPERTIES
    WakesUp
CHECK_DEADLOCK FALSE
