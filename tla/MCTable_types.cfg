SPECIFICATION Spec
CONSTANTS
    Lines <- LineCases
    Queries <- QueryCases
    Deletes <- DeleteCases
    Leading = "k"
    HourLen = 2
    RgRows = 1
    MaxWrites = 4
    MaxFlushes = 2
    MaxCompacts = 0
    MaxRestarts = 0
    InGate = FALSE
INVARIANT OneTypePerColumn
CHECK_DEADLOCK FALSE
