SPECIFICATION ProgressSpec
CONSTANTS
    p1 = p1
    p2 = p2
    p3 = p3
    adminScope = adminScope
    v1 = v1
    v2 = v2
    Process <- MCDuplicates
    Operator = {o1}
    WorkerScope = {adminScope}
    Runtime = runtime
    Owner = {v1, v2}
    ScopeOf <- MCScopeOf
    OwnerOf <- MCOwnerOf
    None = none
    TTL = 1
    MaxTime = 2
    MaxGeneration = 2
    ClockMayStepBack = FALSE
    Account = {a1, a2}
    User = {u1}
    Request = {r1}
    Slot = {blue, green}
    ForceStop = TRUE
    Actors = {"admin"}
PROPERTIES
    SupersededStops
    PublicationReachesClients
    MaintenanceEnds
CHECK_DEADLOCK FALSE
