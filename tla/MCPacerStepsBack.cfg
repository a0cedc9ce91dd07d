SPECIFICATION Spec
CONSTANTS
    EpochSecs = 2
    TicksPerSec = 2
    NanosPerSec = 3
    EpochSpace = 4
    LowSpace = 2
    MaxNow = 17
    MaxBacksteps = 2
    MaxRestarts = 0
    StepsMayRewind = TRUE
    RestartsMayRewind = FALSE
INVARIANTS
    NoTupleReuse
