SPECIFICATION FairSpec
CONSTANTS
    Burst = 3
    MaxFrames = 2
    MaxAudio = 12
PROPERTIES SlotIsCleared
