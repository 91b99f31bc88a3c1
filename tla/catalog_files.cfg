SPECIFICATION Spec
CHECK_DEADLOCK FALSE
CONSTANTS
    Absent = Absent  Torn = Torn
    Thread = {t1}
    Script = {s1}
    Year = {y1}
    MaxDays = 2
    MaxCrashes = 1
INVARIANTS
    DumpsAreWhole
    ServiceCanStart
    LoneRefreshIsDurable
