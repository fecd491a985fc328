SPECIFICATION Spec
CONSTANTS
    k1 = k1
    k2 = k2
    t1 = t1
    t2 = t2
    Key <- MCKey
    Teacher <- MCTeacher
    Lesson <- MCLesson
    MaxWipes = 2
INVARIANTS
    TypeOK
    ExactlyOneLive
    LinearSupersession
    ReceiptWhole
    NoLessonCrossesAReset
    ZeroForgetsThePast
PROPERTIES
    AuditTrail
    ImplementsRuleBook
\* every teach has ended and the resets are used up
CHECK_DEADLOCK FALSE
