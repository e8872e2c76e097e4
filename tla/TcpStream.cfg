\* Five bytes in segments of at most two through a window of four; sequence
\* numbers wrap after the second byte
SPECIFICATION FairSpec
CONSTANTS
    Writes <- MCWrites
    Mss = 2
    Cwnds = {2, 4}
    SndBuf = 4
    Wnd = 4
    Threshold = 2
    WndRange = 8
    SeqRange = 32
    Iss = 30
    MaxRtx = 1
    DupThresh = 2
    MboxSize = 1
    DataCap = 2
    AckCap = 2
INVARIANTS
    InOrder
    Recoverable
    EndsAgree
PROPERTIES
    Arrives
CHECK_DEADLOCK FALSE
