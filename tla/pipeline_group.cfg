SPECIFICATION Spec
CHECK_DEADLOCK FALSE
CONSTANTS
    e1 = e1  e2 = e2  bad = bad  u1 = u1
    Event = {e1, e2, bad}
    User = {u1}
    UserOf <- OneUser
    Poison = {bad}
    Worker = {w1, w2}
    None = None
    MaxLog = 3
    MaxCrashes = 1
    MaxEvictions = 1
    MaxLapses = 1
SYMMETRY WorkerSymmetry
INVARIANTS
    NoDoubleCount
    CommittedIsHandled
PROPERTY
    CommitNeverRegresses
