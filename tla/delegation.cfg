SPECIFICATION Spec
CONSTANTS
    User = {root, a, b}
    Emergency = {root}
    Slow = {a}
    Target = {a, b}
    Role = {r1, r2}
    HighRisk = HighRisk
    m1 = m1
    n1 = n1
    Model = {m1}
    Namespace = {n1}
    System = System
    Nobody = Nobody
    Requested <- Named
SYMMETRY CustomRoles
VIEW Durable
INVARIANTS
    TypeOK
PROPERTIES
    OrdinaryMovesOnlyHisGrants
    NobodyRaisesHimself
    TierIsClosed
CHECK_DEADLOCK FALSE
