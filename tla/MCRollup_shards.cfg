SPECIFICATION Spec
CONSTANTS
    Fleets <- ConsulFleet
    Hash = 1
    Interval = 2
    Lookback = 2
    Retain = 0
    Late = 3
    WatermarkFails = FALSE
    MaxTime = 6
    MaxRows = 2
    MaxFaults = 0
INVARIANT SealedOnce
CHECK_DEADLOCK FALSE
