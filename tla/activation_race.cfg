SPECIFICATION Spec
CONSTANTS
    p1 = p1
    p2 = p2
    p3 = p3
    adminScope = adminScope
    v1 = v1
    v2 = v2
    Process <- MCDuplicates
    Operator = {o1, o2}
    WorkerScope = {adminScope}
    Runtime = runtime
    Owner = {v1, v2}
    ScopeOf <- MCScopeOf
    OwnerOf <- MCOwnerOf
    None = none
    TTL = 1
    MaxTime = 2
    MaxGeneration = 3
    ClockMayStepBack = TRUE
PROPERTIES
    ActivationReplacesConfirmed
CHECK_DEADLOCK FALSE
