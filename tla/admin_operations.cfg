SPECIFICATION MCSpec
CONSTANTS
    Person = {u1}
    CPA = {c1, c2}
    MaxSecret = 2
    Peer = {peer}
    Client = {k1}
    Mailbox = {m1, m2}
    Burst = 2
    IdleExpiry = 2
    LastMinute = 3
    MaxPending = 2
    Upstream = {b1, b2}
    MaxSaves = 2
    MaxTroubles = 2
    Unit = {a1, a2, a3}
    EnabledUnit = {a1, a2}
    AllUnits = all
    LastImage = 2
    MaxJobs = 3
    MaxFailures = 2
    e1 = e1
    e2 = e2
    a1 = a1
    a2 = a2
    m1 = m1
    m2 = m2
    Consumer = {e1, e2}
    Unknown = unknown
    Channel = {a1, a2}
    Team = {t1}
    NoTeam = none
    Shape <- MCShape
    Zone <- MCZone
    DayLength = 3
    WeekDays = 2
    StartedAt = {2}
    Now = {9}
    LastInstant = 9
    MaxEvents = 2
    w1 = w1
    Watched = {w1}
    LastDayTick = 4
    MaxTurns = 2
    MaxSlips = 2
    p1 = p1
    o1 = o1
    o2 = o2
    Pool = {p1}
    Operator = {o1, o2}
    RecoveryMaxAge = 0
    LastPeriod = 2
    LastSecond = 2
    MaxRequests = 1
    MaxChanges = 2
    MaxBreaks = 1
INVARIANTS
    CompletedRequestIsFresh
    OneCreditPerExhaustion
    RepeatNeedsFailure
    UsersConsistent
    BucketsMatchReference
    EffectsAgree
    RuntimeConsistent
    ReportsAgree
PROPERTIES
    ClearedSuperseded
    InternalKeyStable
CHECK_DEADLOCK FALSE
