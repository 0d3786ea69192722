SPECIFICATION Spec
CONSTANTS
    Size = 5
    MaxFiles = 7
    MaxNodes = 2
    Picked = 2
    MaxSpaces = 2
INVARIANTS
    TypeOK
    ReferencesStayGood
    OnlyFailuresLeak
PROPERTIES
    OnlyPickedUpRobs
CHECK_DEADLOCK FALSE
