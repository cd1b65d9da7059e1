SPECIFICATION FairSpec
CONSTANTS
    f = f
    g = g
    v1 = v1
    v2 = v2
    NoValue = NoValue
    NothingSent = NothingSent
    Commands = {f, g}
    Values = {}
    Unasked = {}
    Compared <- MCNothing
    Served = {}
    PollPlan <- MCTwoPolls
    Meters = {f}
    Intervals = {70}
    CounterMod = 26
    MaxQueue = 3
    MaxPending = 0

PROPERTIES PollsSurvive RefinesScheduler EachQueueIsProcessed IntervalTakesEffect
