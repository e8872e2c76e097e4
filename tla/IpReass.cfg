SPECIFICATION FairSpec
CONSTANTS
    Ids = {"d1", "d2"}
    Lens = {5, 7}
    Unit = 2
    Room = 2
    MaxU16 = 15
    HLen = 3
    Foreign <- MCForeign
    NumReass = 2
    MaxPbufs = 6
    MaxAge = 1
    Clens = {1, 2}
INVARIANTS
    ListSound
    NothingCompleteWaits
    DeliveredIsSent
PROPERTIES
    EntryLeaves
CHECK_DEADLOCK FALSE
