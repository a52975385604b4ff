SPECIFICATION Spec
CONSTANTS
    a1 = a1
    a2 = a2
    e1 = e1
    e2 = e2
    e3 = e3
    r1 = r1
    r2 = r2
    None = None
    Account <- MCAccount
    Email <- MCEmail
    Request <- MCRequest
    MaxTokens = 2
SYMMETRY MCSymmetry
INVARIANTS
    LinksWork
