SPECIFICATION Spec
CONSTANTS
    a1 = a1
    u1 = u1
    u2 = u2
    u3 = u3
    r1 = r1
    r2 = r2
    r3 = r3
    Asset <- Assets
    Body <- Bodies
    NoBody = NoBody
    User <- Users
    Request <- Requests
    MaxConfirms = 2
SYMMETRY Symmetric
INVARIANTS
    ConfirmedIsVerified
    SlotsAreExact
PROPERTIES
    ConfirmedInTime
    DeleteSparesConfirmed
CHECK_DEADLOCK FALSE
