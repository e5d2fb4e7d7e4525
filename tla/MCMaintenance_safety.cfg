CONSTANTS
    a = a
    b = b
    k1 = k1
    k2 = k2
    k3 = k3
    Node = {a, b}
    Compactor = {}
    Keys = {k1, k2, k3}
    KeyTs <- MCKeyTs
    HourLen = 2
    Batches <- MCBatches
    Deletes <- MCDeletes
    Owned <- MCOwnAll
    Seq0 <- MCSeqApart
    MinFiles = 4
    MaxGroups = 1
    MaxRewrites = 1
    Grace = 2
    Timeout = 1
    MaxFlushes = 2
    MaxHour = 1
    MaxWait = 0
    MaxQueries = 1
    MaxEvents = 1
SPECIFICATION FairSpec
INVARIANTS   KeysKept
PROPERTIES Settles 
CHECK_DEADLOCK FALSE
