SPECIFICATION Spec
CONSTANTS
    VectorFile <- TestVectors
    FuzzTypes <- GrammarTypes
    FuzzOctets <- HeaderOctets
    MaxPayload = 1
    FuzzOffset <- LateOffset
    SeriesInstantSet <- EdgeInstants
    RecordSet <- EdgeRecords
INVARIANT
    FaultsIsolated
CHECK_DEADLOCK FALSE
