\* A client that connects twice to a server with one pcb and one netconn
SPECIFICATION FairSpec
CONSTANTS
    NPort = 2
    NConn = 2
    NetMax = 2
    PcbMax = 1
    ConnMax = 1
    MboxMax = 1
    SynMaxRtx = 0
    MaxRtx = 1
    FinWait = 0
    Msl2 = 0
    HalfClosers = {"client"}
    Stride = 4
    Wnd = 6
INVARIANTS
    SameConnection
    OwnerKnows
PROPERTIES
    Ends
CHECK_DEADLOCK FALSE
