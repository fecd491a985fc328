SPECIFICATION Spec
CONSTANTS
    LagTicks = 16
    TimeoutTicks = 100
    StatementTicks = 80
    \* nanoseconds, scaled: a tick is far longer than an ulp, an ulp longer than LagS
    Unit = 1000000
    Ulp = 1024
    Offsets <- MCOffsets
    StartAt <- MCStartAt
    MaxNow = 260
INVARIANTS
    WaitedOut
CHECK_DEADLOCK FALSE
