SPECIFICATION Spec
CONSTANTS
    c1 = c1
    c2 = c2
    ip1 = ip1
    Container <- TwoContainers
    Ip <- OneIp
    RateMax = 2
    Window = 2
    DailyCap = 1
    DayLength = 3
    MaxNow = 1
    Pysqlite = TRUE
    MaxDiscards = 0
INVARIANTS
    GlobalCap
