SPECIFICATION FairSpec
CONSTANTS
    Admin <- ThreeAdmins
    Request = {r1, r2}
    NoRequest = NoRequest
    MaxAttempts = 3
INVARIANTS
    AdminRemains
PROPERTIES
    CallersAreEnabled
    RequestsEnd
CHECK_DEADLOCK FALSE
