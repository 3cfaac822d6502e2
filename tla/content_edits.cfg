SPECIFICATION Spec
CONSTANTS
    e1 = e1
    e2 = e2
    k1 = k1
    k2 = k2
    a1 = a1
    Entry <- OneEntry
    Content <- KeyContents
    NoContent = NoContent
    UniqueKey <- Keys
    Asset <- NoAssets
    KeysOf <- KeyKeysOf
    RefsOf <- KeyRefsOf
    MaxRevisions = 3
    MaxRequests = 2
INVARIANTS
    PointersFollowHistory
    PublishedWasReviewed
    CurrentEntriesAreExact
PROPERTIES
    ClientView
    VisibilityChangesAreRecorded
CHECK_DEADLOCK FALSE
