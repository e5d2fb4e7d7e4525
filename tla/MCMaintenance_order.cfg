CONSTANTS
    a = a
    b = b
    k1 = k1
    k2 = k2
    k3 = k3
    Node = {a, b}
    Compactor = {}
    Keys = {k1, k2, k3}
    KeyTs <- MCKeyTs
    HourLen = 2
    Batches <- MCLateBatches
    Deletes <- MCDeletes
    Owned <- MCOwnAll
    Seq0 <- MCSeqApart
    MinFiles = 2
    MaxGroups = 1
    MaxRewrites = 1
    Grace = 2
    Timeout = 1
    MaxFlushes = 2
    MaxHour = 1
    MaxWait = 0
    MaxQueries = 0
    MaxEvents = 0
SPECIFICATION Spec
INVARIANT LastWriteWins
CHECK_DEADLOCK FALSE
