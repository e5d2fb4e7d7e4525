CONSTANTS
    a = a
    b = b
    t1 = t1
    t2 = t2
    t3 = t3
    Ingester = {a, b}
    Peer <- MCPeer
    Order <- MCOrder
    Table = {t1, t2, t3}
    Hash <- MCHash
    Plans <- MCPlans
    Declared = {t3}
    TickInRecovery = FALSE
    DropsDead = FALSE
    MaxEvents = 2
SPECIFICATION SystemSpec
INVARIANTS PairDurable AloneDurable AnswersComplete
INVARIANTS   ReplayIsSuffix ActiveFileKept
INVARIANTS ReadsAreHonest  AnswersWhole PermitsReachable 
INVARIANTS LastIsNewest
CHECK_DEADLOCK FALSE
