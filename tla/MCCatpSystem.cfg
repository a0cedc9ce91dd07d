SPECIFICATION Spec
CONSTANTS
    s1 = s1
    s2 = s2
    stranger = stranger
    Senders = {s1, s2}
    Silent = {s2}
    Stranger = stranger
    EpochSecs = 2
    TicksPerSec = 1
    NanosPerSec = 1
    EpochSpace = 8
    LowSpace = 2
    Entries = 1
    MaxOffset = 1
    SeriesSpan = 1
    Skew <- Behind
    Token = 2
    PerMs = 1
    Burst = 1
    CountMax = 100
    MaxNow = 5
    MaxClaims = 2
    MaxCalls = 3
    MaxJunk = 1
    MaxResets = 1
INVARIANTS
    TypeOK
    
    RefusalJustified
    StatsAddUp
PROPERTIES
    KeepsPromise
CHECK_DEADLOCK FALSE
