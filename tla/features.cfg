SPECIFICATION MCSpec
CHECK_DEADLOCK FALSE
CONSTANTS
    i1 = i1  i2 = i2  a = a  b = b
    Item = {i1, i2}
    Category = {a, b}
    CategoriesOf <- SharedGenre
    Type = {"like", "watch", "skip", "dislike", "view", "rating", "impression"}
    Value = {392000, 4008000}
    MaxTime = 3
    MaxEvents = 4
    HistoryCap = 2
    RecentCap = 2
    Day = 1
    Week = 2
    Unit = 800000
    Grid = 20000
    NoValue = NoValue
INVARIANTS
    TypeOK
    WindowsExactBelowCap
    ServingMatchesTraining
    LastSignalWins
PROPERTY
    KnownLikesCount
