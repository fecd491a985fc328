SPECIFICATION EduSpec
CONSTANTS
    soft = soft
    fiscal = fiscal
    q08 = q08
    q02 = q02
    v = v
    Key <- MCKey
    Teacher <- MCTeacher
    Lesson <- MCLesson
    Visitor <- MCVisitor
    Curriculum <- MCCurriculum
    ItemLesson <- MCItemLesson
    Policies <- MCPolicies
    RecallLimit = 50
    RecallK = 1
    MaxRuns = 2
    MaxWipes = 2
INVARIANTS
    EduTypeOK
    EpochsCumulative
    ArmsShareMemory
    ManifestSeals
    CurveIsEarned
    ZeroForgetsThePast
PROPERTIES
    ImplementsRuleBook
\* the last run may have ended and the visitor with it
CHECK_DEADLOCK FALSE
