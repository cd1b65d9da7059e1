SPECIFICATION FairSpec
CONSTANTS
    SeqMod = 8
    BufSize = 3
    MaxMissing = 2
    Tries = 2
    MaxInFlight = 2
PROPERTIES GapsAreRequested
