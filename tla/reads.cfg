SPECIFICATION ReadsSpec
CONSTANTS
    post = post
    author = author
    r1 = r1
    r1a = r1a
    r2 = r2
    r3 = r3
    r4 = r4
    r4a = r4a
    c1 = c1
    c2 = c2
    i1 = i1
    i2 = i2
    Entry = {1, 2, 3, 4}
    Model <- Models
    RootModel = post
    EntryModel <- EntryModels
    Revision <- Revisions
    Content <- Contents
    Item = {i1, i2}
    ConfigRevision = {c1, c2}
    ConfigTargets <- Targets
    FirstConfig <- FirstItems
    Query <- Queries
    Scopes <- KeyScopes
    Limit = 1
    MaxChanges = 2
    None = None
INVARIANTS
    ListsAreComplete
    AnswersAreSound
    ConfigIsOneMoment
