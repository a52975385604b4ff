SPECIFICATION FairSpec
CONSTANTS
    u1 = u1
    u2 = u2
    t1 = t1
    None = None
    Full = Full
    Token = {t1}
    Carrier = {c1}
    User = {u1, u2}
    Admin = {u2}
    Request = {r1, r2}
    UserOf <- MCUserOf
INVARIANTS
    ApiInv
    GrantsStand
    NoneServedLate
PROPERTIES
    ShownByRight
    UsedExpiredIsRevoked
