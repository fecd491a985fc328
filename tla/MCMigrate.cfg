SPECIFICATION Spec
CONSTANTS
    r1 = r1
    r2 = r2
    Rule <- MCRule
    MaxMigrations = 3
INVARIANTS
    TypeOK
    OkMeansWide
    UndisturbedSucceeds
PROPERTIES
    FreshVectorsSurvive
\* the migrations are used up and the table is full
CHECK_DEADLOCK FALSE
