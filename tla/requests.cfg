SPECIFICATION Spec
CONSTANTS
    k1 = k1
    k2 = k2
    k3 = k3
    m1 = m1
    r1 = r1
    r2 = r2
    r3 = r3
    a1 = a1
    a2 = a2
    Key <- Keys
    FirstKey = k1
    Model <- Models
    Request <- Requests
    Admin <- Admins
    Readable <- Rights
    GlobalConcurrency = 1
    MaxOpenConns = 2
    MaxRows = 1
    None = None
INVARIANTS
    DownloadsHoldTheirKey
    RotationsFormChains
    ScopeWithinIssuer
PROPERTIES
    RequestsEnd
