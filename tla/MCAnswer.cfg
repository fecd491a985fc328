SPECIFICATION AnswerSpec
CONSTANTS
    \* the code's spans, scaled
    LagTicks = 2
    TimeoutTicks = 8
    StatementTicks = 6
    \* nanoseconds, scaled: a tick is far longer than an ulp, an ulp longer than LagS
    Unit = 1000000
    Ulp = 1024
    Offsets <- MCOffsets
    StartAt <- MCStartAt
    MaxNow = 44
    Items = 2
    Text <- MCText
    House <- MCHouse
    MaxJobs = 1
INVARIANTS
    AnswerTypeOK
    NotBeforeTheStamp
    GradersAgree
PROPERTIES
    RecallEnds
\* time stops at MaxNow, and an endless query holds up its grader
CHECK_DEADLOCK FALSE
