SPECIFICATION FairSpec
CONSTANTS
    Programs = {p, q}
    Hosts = {here, there}
    None = None
    Freed = Freed
    Intervals = {100}
    Default = 1000
INVARIANTS TypeOK StopIsUndone PartnersExist StreamsHaveControl
PROPERTIES VanishedAreForgotten
CHECK_DEADLOCK FALSE
