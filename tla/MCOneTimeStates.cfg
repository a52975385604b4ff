SPECIFICATION Spec
CONSTANTS
    a1 = a1
    a2 = a2
    i1 = i1
    i2 = i2
    r1 = r1
    r2 = r2
    None = None
    Account <- MCAccount
    Name = {n1}
    Identity <- MCIdentity
    Request <- MCRequest
    MaxStates = 2
SYMMETRY MCSymmetry
INVARIANTS
    StatesInv
    RedeemedTwiceForCause
    LinkedByOwner
    KeysOfBeginner
    LinkStands
