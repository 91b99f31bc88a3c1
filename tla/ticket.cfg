SPECIFICATION MCSpec
CHECK_DEADLOCK FALSE
CONSTANTS
    t1 = t1  t2 = t2  t3 = t3
    Tab = {t1, t2, t3}
    Page <- ThreePages
    Item = {i1}
    MaxTaps <- Taps
    MaxLoads = 1
    MaxLosses = 1
INVARIANTS
    ConfirmedTapIsSaved
    NoPhantomMarks
PROPERTY
    EveryTapEnds
