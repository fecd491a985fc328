SPECIFICATION Spec
CONSTANTS
    q02 = q02
    q07 = q07
    a1 = a1
    a2 = a2
    Question <- MCQuestion
    DefaultQ = q02
    Call <- MCCall
\* a page whose questions do not load stays as it is
PROPERTY SpinnerResolves
CHECK_DEADLOCK FALSE
