SPECIFICATION Spec
CONSTANTS
    Item = {i1, i2}
    Value <- Values
    NoValue = NoValue
    Constraint <- ItemConstraints
    NoConstraint = NoConstraint
    Accepts <- AcceptedValues
    Normal <- NormalValues
    MaxItems = 1
    MaxRevisions = 2
    MaxViews = 1
    Text <- Texts
    Length <- Lengths
    NumberOf <- Numbers
    Zero = "0"
    Unit = 10
    MinInt <- LeastInt
    MaxInt = 7
    MaxScale = 1
    MaxWhole = 1000
    MaxMultiValues = 2
SYMMETRY Interchangeable
INVARIANTS
    PointersFollowHistory
    PublishedWasReviewed
    NothingArchivedIsOnline
    ValuesFitConstraints
    ItemLimit
CHECK_DEADLOCK FALSE
