SPECIFICATION Spec
CONSTANTS
    Entries = 2
    MaxOffset = 2
    EpochMs = 2
    MaxNow = 5
    LowSpace = 2
    FlawSets <- CommonFlaws
    Limited = TRUE
    Token = 2
    PerMs = 1
    Burst = 2
    CountMax = 100
    AnnounceTargets = {1}
    MaxCalls = 3
    MaxBacksteps = 1
    StepsMayRewind = FALSE
INVARIANTS
    TypeOK
    WindowsExact
    AtMostOnce
    NeverEvicts
    EveryCallCounted
PROPERTY
    JunkIsHarmless
