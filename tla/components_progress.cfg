SPECIFICATION MCFairSpec
CONSTANTS
    Foci = {"ledger", "quota", "notices", "routes", "jobs", "saga"}
    u1 = u1
    a1 = a1
    r1 = r1
    p1 = p1
    o1 = o1
    w1 = w1
    i1 = i1
    i2 = i2
    i3 = i3
    t1 = t1
    all = all
    Member = {u1}
    Meter = {a1}
    Request = {r1}
    Zone = {0}
    DefaultZone = 0
    BatchSize = 1
    WeekLength = 2
    DefaultTokens = 1
    ResetOnNewWeek = FALSE
    CustomTokens = {1}
    FailOpenAfter = 0
    LastTick = 1
    MaxOperations = 1
    MaxFaults = 1
    Pool = {p1}
    Operator = {o1}
    RecoveryMaxAge = 0
    LastPeriod = 2
    LastSecond = 1
    MaxRequests = 1
    MaxChanges = 1
    MaxBreaks = 1
    Watched = {w1}
    LastDayTick = 2
    MaxTurns = 2
    MaxSlips = 1
    Person = {1}
    Backend = {1, 2}
    Full = 1
    Reserve = 0
    MaxShifts = 1
    MaxMishaps = 1
    JobId = {i1, i2}
    Target = {t1, all}
    All = all
    Workers = 1
    QueueSize = 1
    History = 1
    AccountId = {1, 2, 3}
    Evacuee = {u1}
    TakenIds = FALSE
    SagaOps = 1
    SagaFaults = 1
    SagaCrashes = 1
    SagaMoves = 1
PROPERTIES
    UsageArrives
    OverrunRefused
    RefreshCompletes
    AlertsArrive
    ExhaustedEvacuated
    JobsSettle
    SagaEnds
CHECK_DEADLOCK FALSE
