SPECIFICATION Spec
CONSTANTS
    EpochSecs = 3
    TicksPerSec = 1
    NanosPerSec = 1
    EpochSpace = 8
    LowSpace = 2
    RequestBase = 1
    RequestMax = 3
    StartTime = 4
    MaxTime = 10
    MaxBoots = 1
PROPERTY
    NeverWalksBack
