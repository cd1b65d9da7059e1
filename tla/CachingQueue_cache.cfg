SPECIFICATION Spec
CONSTANTS
    f = f
    g = g
    v1 = v1
    v2 = v2
    NoValue = NoValue
    NothingSent = NothingSent
    Commands = {f}
    Values = {v1, v2}
    Unasked = {}
    Compared <- MCWhole
    Served = {f}
    PollPlan <- MCOnePoll
    Meters = {f}
    Intervals = {70}
    CounterMod = 26
    MaxQueue = 2
    MaxPending = 1

INVARIANTS TypeOK StopLetsOneOut CacheIsAhead
PROPERTIES SetsLeaveBySending
SYMMETRY MCSymmetry
