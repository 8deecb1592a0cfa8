SPECIFICATION SumSpec
CONSTANTS
    x1 = x1
    x2 = x2
    y1 = y1
    y2 = y2
    None = None
    Nothing = Nothing
    Rung = {1, 2, 3}
    Requested = 3
    Facility <- MCFacility
    Distance <- MCDistance
    Industrial = {"near", "far", "farthest"}
    MaxFacilities = 2
    Attempts = 3
    Budget = 4
    Worker = {x1, x2}
    AttemptLimit = 3
    RetryLimit = 2
    MaxContent = 2
    Generation = {"legacy", x1, x2}
    Legacy = "legacy"
    Session = {y1, y2}
    Brokerage = {x1, x2}
    Subscription = {"live1", "live2", "test"}
    Live = {"live1", "live2"}
    Rank <- MCRank
    StatusWord = {"active", "canceled"}
    EventName = {"subscription_updated"}
    Delivery = {y1, y2}
    MaxTime = 1
    MaxEvents = 2
    NoRow = NoRow
    Request = {x1, x2}
    Page = {y1, y2}
    SlotLife = 3
    PageLife = 18
    RequestLife = 1
    MaxClock = 4
    Zip = {x1, x2}
    Source = {"source"}
    Word <- MCWord
    Batch = 1
    Cap = 1
    MaxFires = 3
    MaxRestarts = 1
    Absent = Absent
    Shard = {1, 2}
    Key = {"own", "shared"}
    KeysOf <- MCKeysOf
    Feature = {1, 2, 3, 4}
    KeyOf <- MCKeyOf
    Place <- MCPlace
    Unusable = {4}
    MaxTries = 2
    MaxClaims = 2
    Watch = {"watch"}
    Agent = {"agent"}
    Run = {x1, x2}
    Change = {1, 2}
    EmailRoom = 2
    ClaimLimit = 1
    NoOne = NoOne
SYMMETRY BackgroundSymmetry
INVARIANTS
    TypesOK
    SmallCircleIsExcused
    LedgerIsFaithful
    PaidOnNewestLiveWord
    PagesAreSpaced
    AnswersCountInOrder
    HolesAreMarked
    MapIsWhole
    RecordedMailsAreApart
    PostingIsFenced
    OneRecord
    PublishedAsFrozen
    AlwaysServed
    ServedWasProven
    CanBeRolledBack
PROPERTIES
    PlansMoveForAReason
    PageSaysWhatWasRead
    ImplementsServedMap
