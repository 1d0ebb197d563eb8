SPECIFICATION MCSpec
CONSTANTS
    Foci = {"leases", "store", "status", "logs", "teams", "files"}
    Cpa = {s1, s2}
    Caller = {h1}
    MaxChanges = 1
    MaxFaults = 2
    Human = {h1}
    Group = {g1, g2}
    NoGroup = nogroup
    Clerk = {q1, q2}
    MaxKeyNumber = 1
    MaxRequests = 3
    Starter = {e1, e2}
    MaxKeys = 2
    MaxValue = 4
    MaxStarts = 4
    Site = {s1, s2}
    Reports = {"active", "invalid"}
    Limited = {FALSE}
    CacheTTL = 1
    ProbeTime = 1
    LastSecond = 3
    MaxTurns = 2
    Backups = 2
    MaxCells = 1
    PrefixCells = 1
    Hour = 0
    MaxLines = 3
    LastTick = 2
    MaxBreaks = 1
    p1 = p1
    p2 = p2
    p3 = p3
    adminScope = adminScope
    v1 = v1
    v2 = v2
    Process <- MCTwoRuntimes
    Operator = {o1}
    WorkerScope = {adminScope}
    Runtime = runtime
    Owner = {v1, v2}
    ScopeOf <- MCScopeOf
    OwnerOf <- MCOwnerOf
    None = none
    TTL = 1
    MaxTime = 2
    MaxGeneration = 2
    ClockMayStepBack = TRUE
INVARIANTS
    KeysAndSecretsKept
    StatusSound
    LogsFaithful
    TeamsAgree
    ProjectionSound
    FencedHolderIsCurrent
    OneFencedWriter
    WriterOfCurrentRuntime
PROPERTIES
    ExitKeepsOthersFence
    FencingImplemented
CHECK_DEADLOCK FALSE
