SPECIFICATION Spec
CONSTANTS
    u1 = u1
    u2 = u2
    r1 = r1
    r2 = r2
    NoUser = NoUser
    User <- MCOneUser
    Request <- MCTwoRequests
    MaxTokens = 3
SYMMETRY MCSymmetry
INVARIANT
    AtMostOneSuccessor
