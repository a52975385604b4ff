SPECIFICATION Spec
CONSTANTS
    u1 = u1
    u2 = u2
    r1 = r1
    r2 = r2
    NoUser = NoUser
    User <- MCTwoUsers
    Request <- MCTwoRequests
    MaxTokens = 2
SYMMETRY MCSymmetry
INVARIANTS
    TokensInv
    RecordedRowsExclusive
    RevokedForCause
    HeldIsSettled
PROPERTIES
    ImplementsLedger
    NeverRevalidated
    OneAccountPerStep
