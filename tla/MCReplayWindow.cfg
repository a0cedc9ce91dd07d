SPECIFICATION Spec
CONSTANTS
    Entries = 4
    MaxOffset = 9
INVARIANTS
    TypeOK
    WindowExact
    AtMostOnce
PROPERTY
    ImplementsFilter
