SPECIFICATION FairSpec
CONSTANTS
    a = a
    b = b
    r1 = r1
    r2 = r2
    None = None
    Unset = Unset
    Node = {a, b}
    Req = {r1, r2}
    Plans <- MCPlans
    Setting <- MCSetting
    Bounds <- MCBounds
    Property <- MCProperty
    Pinned <- MCPinned
    MinRole <- MCMinRole
    RoleOf <- MCRoleOf
    Opened <- MCOpened
    Stored <- MCStored
    FailOpen = FALSE
    AuditFaults = {"refused"}
    FreeAttempts = 0
    RotateRecords = 1
    RetainSegments = TRUE
    Live = 99
    MaxEvents = 2
INVARIANTS   SettingsSurvive
 
CHECK_DEADLOCK FALSE
