SPECIFICATION Spec
CHECK_DEADLOCK FALSE
CONSTANTS
    x = x  u = u  v = v
    Absent = Absent  Blank = Blank  NotJson = NotJson
    Text = {Absent, Blank, x, u, v}
    Post = {p1, p2, p3}
    Body <- AnyBody
    MaxLog = 3
    MaxLapses = 1
SYMMETRY PostSymmetry
INVARIANTS
    AcceptedIsLogged
    LogCanBeRead
    InlineCountsOnce
    AcceptedCountsUnlessSpoiled
