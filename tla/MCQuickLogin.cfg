SPECIFICATION Spec
CONSTANTS
    u1 = u1
    n1 = n1
    n2 = n2
    r1 = r1
    r2 = r2
    r3 = r3
    NoUser = NoUser
    NoNumber = NoNumber
    User <- MCUser
    Number <- MCNumber
    Request <- MCRequest
    MaxSessions = 3
SYMMETRY MCSymmetry
CONSTRAINT Undisturbed
INVARIANTS
    QuickInv
    LoginForOwnApproval
    OneLoginPerApproval
    PromptApprovalFitsSession
    PendingOrVerified
