SPECIFICATION FairSpec
CONSTANTS
    EpochSecs = 2
    TicksPerSec = 2
    NanosPerSec = 3
    EpochSpace = 4
    LowSpace = 2
    MaxNow = 17
    MaxBacksteps = 2
    MaxRestarts = 1
    StepsMayRewind = FALSE
    RestartsMayRewind = FALSE
INVARIANTS
    TypeOK
    NoTupleReuse
    ClaimsIncrease
    ShedsOnlyOnConflict
PROPERTY
    ShedRecovers
