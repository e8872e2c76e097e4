SPECIFICATION FairSpec
CONSTANTS
  Pool = {1, 2}
  LinkLocals = 2
  Leases <- MCLeases
  Infinite = 1000000
  NotGiven = 0
  CoarseSecs = 60
  CoopTries = 1
  RequestTries = 1
  RebootTries = 2
  MaxTries = 2
  ProbeNum = 1
  AnnounceNum = 2
  MaxConflicts = 2
  MaxFaults = 3
INVARIANTS NeverWedged ProbesForCheck LinkLocalHeld
PROPERTY Acquires
CHECK_DEADLOCK FALSE
