SPECIFICATION Spec
CONSTANTS
    VectorFile <- TestVectors
    FuzzTypes <- GrammarTypes
    FuzzOctets <- HeaderOctets
    MaxPayload = 8
    FuzzOffset <- LateOffset
    SeriesInstantSet <- EdgeInstants
    RecordSet <- EdgeRecords
INVARIANTS
    VectorsPass
    OtherFaultsIsolated
    RoundTrip
    FramingExact
    BuiltIsAccepted
    SeriesInstantsAgree
    CapabilityExact
CHECK_DEADLOCK FALSE
