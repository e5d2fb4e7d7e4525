SPECIFICATION FairSpec
CONSTANTS
    w1 = w1
    w2 = w2
    w3 = w3
    ta = ta
    tb = tb
    Write = {w1, w2, w3}
    Table = {ta, tb}
    TablesOf <- MCTablesOf
    BadWrite = {w3}
    Tick = tick
    Dropper = {dropper}
    Casts <- MCCasts
    None = None
    Overlap = FALSE
    MaxGen = 5
    MaxCrashes = 1
    MaxStoreFails = 0
    MaxLogFails = 0
INVARIANTS AckedDurable AckedReadable OneLivePlace QuerySeesAcked 
PROPERTIES ImplementsTableStore AckedReachFiles
CHECK_DEADLOCK FALSE
