SPECIFICATION Spec
CONSTANTS
    c1 = c1
    c2 = c2
    u1 = u1
    u2 = u2
    u3 = u3
    r1 = r1
    r2 = r2
    NoRow = NoRow
    Nobody = Nobody
    Carrier <- MCCarrier
    User <- MCUser
    Caller <- MCCaller
    Location <- MCLocation
    Access <- MCAccess
    Service <- MCService
    NewCarriers <- MCNewCarriers
    Overrides <- MCOverrides
    Patches <- MCPatches
    Request <- MCRequest
    MaxHistory = 1
SYMMETRY MCSymmetry
INVARIANTS
    ServicesDistinct
    CarriersInv
PROPERTIES
    ImplementsFleet
