SPECIFICATION Spec
CONSTANTS
    w1 = w1
    w2 = w2
    w3 = w3
    ta = ta
    tb = tb
    Write = {w1, w2}
    Table = {ta, tb}
    TablesOf <- MCTablesOf
    BadWrite = {}
    Tick = tick
    Dropper = {}
    Casts <- MCAll
    None = None
    Overlap = FALSE
    MaxGen = 3
    MaxCrashes = 1
    MaxStoreFails = 1
    MaxLogFails = 0
INVARIANTS AckedDurable
CHECK_DEADLOCK FALSE
