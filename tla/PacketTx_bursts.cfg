SPECIFICATION FairSpec
CONSTANTS
    Burst = 3
    MaxFrames = 2
    MaxAudio = 12
INVARIANTS TypeOK OneUnkey AudioMoves
PROPERTIES BurstsEnd UnkeyAfterLastSlice
