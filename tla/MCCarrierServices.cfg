SPECIFICATION Spec
CONSTANTS
    s1 = s1
    s2 = s2
    s3 = s3
    Unknown = Unknown
    Service <- MCService
    MaxNames = 3
SYMMETRY MCSymmetry
INVARIANTS
    LoopInv
    NeverOutOfRange
    RemoveExact
    SetExact
