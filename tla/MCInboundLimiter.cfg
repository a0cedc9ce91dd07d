SPECIFICATION Spec
CONSTANTS
    Token = 4
    PerMs = 3
    Burst = 2
    CountMax = 15
    StartMs = 5
    MaxElapsed = 6
    MaxBacksteps = 2
INVARIANTS
    TypeOK
    RateBound
    QuietPeerAdmitted
