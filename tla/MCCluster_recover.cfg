CONSTANTS
    a = a
    b = b
    t1 = t1
    t2 = t2
    t3 = t3
    Ingester = {a, b}
    Peer <- MCPeer
    Order <- MCOrder
    Table = {t1, t2, t3}
    Hash <- MCHash
    Plans <- MCPlans
    Declared = {t3}
    TickInRecovery = TRUE
    DropsDead = FALSE
    MaxEvents = 2
SPECIFICATION Spec
INVARIANT PairDurable
CHECK_DEADLOCK FALSE
