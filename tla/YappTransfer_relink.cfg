SPECIFICATION Spec
CONSTANTS
    Chunks = 2
    MaxFiles = 1
    MaxEvents = 2
INVARIANTS SentIsWhole
CHECK_DEADLOCK FALSE
