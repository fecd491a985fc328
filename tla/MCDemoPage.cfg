SPECIFICATION NetworkSpec
CONSTANTS
    q02 = q02
    q07 = q07
    a1 = a1
    a2 = a2
    Question <- MCQuestion
    DefaultQ = q02
    Call <- MCCall
INVARIANTS
    TypeOK
    OneAskAtATime
    LatestAskWins
    RecordingIsLabelled
PROPERTIES
    SpinnerResolves
\* a page whose questions do not load stays as it is
CHECK_DEADLOCK FALSE
