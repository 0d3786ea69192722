SPECIFICATION FairSpec
CONSTANTS
    Services = {s1, s2, s3}
    Test = Test
    Spaces <- AllSpaces
INVARIANTS
    TypeOK
    SelfVisible
    FindsOwnChildren
    EndsOnlyBelowClosed
PROPERTIES
    MountsStayLocal
    EndsOnceClosed
CHECK_DEADLOCK FALSE
