SPECIFICATION FairSpec
CONSTANTS
    Chunks = 1
    MaxFiles = 2
    MaxEvents = 1
INVARIANTS TypeOK AllHandedOn CompleteFilesAreWhole SentFilesArrive
PROPERTIES DeliversFiles SenderEnds ReceiverEnds
CHECK_DEADLOCK FALSE
