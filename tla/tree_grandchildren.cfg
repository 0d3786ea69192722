SPECIFICATION Spec
CONSTANTS
    Services = {s1, s2, s3, s4}
    Test = Test
    Spaces <- PIDSpaces
INVARIANTS
    FindsOwnChildren
SYMMETRY ServiceSymmetry
CHECK_DEADLOCK FALSE
