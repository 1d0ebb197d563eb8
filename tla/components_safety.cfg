SPECIFICATION MCSpec
CONSTANTS
    Foci = {"ledger", "routes", "jobs", "saga"}
    u1 = u1
    a1 = a1
    r1 = r1
    p1 = p1
    o1 = o1
    o2 = o2
    w1 = w1
    i1 = i1
    i2 = i2
    i3 = i3
    t1 = t1
    t2 = t2
    all = all
    Member = {u1}
    Meter = {a1}
    Request = {r1}
    Zone = {0, 1}
    DefaultZone = 0
    BatchSize = 1
    WeekLength = 2
    DefaultTokens = 1
    ResetOnNewWeek = TRUE
    CustomTokens = {2}
    FailOpenAfter = 0
    LastTick = 2
    MaxOperations = 1
    MaxFaults = 1
    Pool = {p1}
    Operator = {o1, o2}
    RecoveryMaxAge = 0
    LastPeriod = 2
    LastSecond = 2
    MaxRequests = 1
    MaxChanges = 2
    MaxBreaks = 1
    Watched = {w1}
    LastDayTick = 4
    MaxTurns = 2
    MaxSlips = 2
    Person = {1, 2}
    Backend = {1, 2, 3}
    Full = 2
    Reserve = 0
    MaxShifts = 0
    MaxMishaps = 1
    JobId = {i1, i2, i3}
    Target = {t1, t2, all}
    All = all
    Workers = 2
    QueueSize = 1
    History = 2
    AccountId = {1, 2, 3}
    Evacuee = {u1}
    TakenIds = FALSE
    SagaOps = 2
    SagaFaults = 1
    SagaCrashes = 1
    SagaMoves = 0
INVARIANTS
    UsageAgrees
    RefusalJustified
    TargetsKept
    SettledAgrees
    InterruptionsHarmless
PROPERTIES
    PlansEven
CHECK_DEADLOCK FALSE
