SPECIFICATION Spec
CONSTANTS
    freq = freq
    meter = meter
    Unknown = Unknown
    Table <- MCTable
    Freq = freq
    Echoes = TRUE
    MaxTimers = 2
    MaxEvents = 3
INVARIANTS TypeOK NeverDeadlocks ProbedWhileOff
PROPERTIES PowerOnInstallsTable StrayReplyDoesNotFlip
