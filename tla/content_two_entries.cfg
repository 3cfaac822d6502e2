SPECIFICATION Spec
CONSTANTS
    e1 = e1
    e2 = e2
    k1 = k1
    k2 = k2
    a1 = a1
    Entry <- Entries
    Content <- AssetContents
    NoContent = NoContent
    UniqueKey <- Keys
    Asset <- Assets
    KeysOf <- AssetKeysOf
    RefsOf <- AssetRefsOf
    MaxRevisions = 2
    MaxRequests = 1
SYMMETRY SymmetricEntries
INVARIANTS
    LiveKeysUnique
PROPERTIES
    ArchivedAssetsDoNotSpread
CHECK_DEADLOCK FALSE
