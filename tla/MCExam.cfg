SPECIFICATION Spec
CONSTANTS
    R = R
    S = S
    C = C
    F = F
    J = J
    Corrections <- MCCorrections
    Signature <- MCSignature
    Label <- MCLabel
    Failed = Failed
    MaxExams = 2
INVARIANTS
    TypeOK
    GradesTheWholeExam
    PublishedCurve
    OnlyBaitRegresses
    BaitsFireForTheirReason
    BaitsAreTheCeiling
