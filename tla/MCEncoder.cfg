\* Command lines with right and wrong options, then up to two frames through two
\* input and two output buffers, every call failing, and two signals.
SPECIFICATION FairSpec
CONSTANTS
    Args <- MCArgs
    CommandLines <- MCCommandLines
    Word = 64
    Mega = 4
    kMinBitRate = 2
    kMaxBitRate = 40
    DefaultWidth = 4
    DefaultHeight = 3
    MaxSide = 4
    MaxFrames = 2
    InBuffers = 2
    OutBuffers = 2
    MaxSignals = 2
    Faults = TRUE
INVARIANTS
    
    KillsOnceCaught
    BuffersOwnedOnce
    WrittenInOrder
    ReleasedAtExit
PROPERTY Terminates
