SPECIFICATION ReportSpec
CONSTANTS
    e1 = e1
    e2 = e2
    a1 = a1
    a2 = a2
    m1 = m1
    m2 = m2
    Consumer = {e1, e2}
    Unknown = unknown
    Channel = {a1, a2}
    Team = {t1}
    NoTeam = none
    Shape <- MCShape
    Zone <- MCMidnightZone
    DayLength = 3
    WeekDays = 2
    StartedAt = {1}
    Now = {9}
    LastInstant = 9
    MaxEvents = 1
INVARIANT
    DailyAddsUp
CHECK_DEADLOCK FALSE
