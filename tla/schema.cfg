SPECIFICATION Spec
CONSTANTS
    m1 = m1
    m2 = m2
    f1 = f1
    f2 = f2
    f3 = f3
    short = short
    long = long
    Model = {m1, m2}
    Field = {f1, f2, f3}
    Entry = {e1}
    Value <- Values
    NoModel = NoModel
    Root = Root
    Keep = Keep
    None = None
    ModelOf <- ModelOfFields
    Places <- PlacesOfFields
    Inputs <- FieldInputs
    Patches <- FieldPatches
    Contents <- ClientContents
    MaxRequests = 2
INVARIANTS
    RowsAreSound
    StoredContentFits
PROPERTIES
    PatchesChangeOnlyWhatTheyName
    ArchivedIsFrozen
CHECK_DEADLOCK FALSE
