SPECIFICATION Spec
CONSTANTS
    r1 = r1
    r2 = r2
    c1 = c1
    c2 = c2
    Request <- MCRequest
    Code <- MCCode
    MaxSecrets = 2
    MaxBatches = 2
SYMMETRY MCSymmetry
INVARIANTS
    TwoFactorInv
    ColumnsFit
    VerifiedSecretProven
    CodesOfSecret
    CodesSpentOnce
    BanStands
    CopiesInv
