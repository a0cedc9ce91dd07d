SPECIFICATION Spec
CONSTANTS
    Entries = 2
    MaxOffset = 2
    EpochMs = 2
    MaxNow = 5
    LowSpace = 2
    FlawSets <- ForgedFlaws
    Limited = FALSE
    Token = 2
    PerMs = 1
    Burst = 2
    CountMax = 100
    AnnounceTargets = {1}
    MaxCalls = 4
    MaxBacksteps = 1
    StepsMayRewind = TRUE
INVARIANT
    AtMostOnce
