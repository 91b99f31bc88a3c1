SPECIFICATION MCSpec
CHECK_DEADLOCK FALSE
CONSTANTS
    u1 = u1  u2 = u2  i1 = i1  i2 = i2  i3 = i3  a = a  b = b
    User = {u1, u2}
    Item = {i1, i2, i3}
    Category = {a, b}
    CategoriesOf <- Genres
    Time = {1, 2, 3, 4, 5}
    TrainPercent = 50
    ValPercent = 25
    Negatives = 1
    MaxPositives = 2
    SampleSize = 2
    Nobody = Nobody
    HistoryCap = 5
    RecentCap = 2
    Day = 1
    Week = 2
    Unit = 80000
    Grid = 2000
    NoValue = NoValue
INVARIANT
    OneFormulaPerFeature
