SPECIFICATION Spec
CONSTANTS
    c1 = c1
    c2 = c2
    ip1 = ip1
    Container <- OneContainer
    Ip <- OneIp
    RateMax = 2
    Window = 2
    DailyCap = 3
    DayLength = 3
    MaxNow = 5
    Pysqlite = TRUE
    MaxDiscards = 1
INVARIANTS
    TypeOK
    WindowHolds
    DailySpend
    SpendPerStart
PROPERTIES
    RefusalsAreEarned
