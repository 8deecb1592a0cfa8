SPECIFICATION SumSpec
CONSTANTS
    x1 = x1
    x2 = x2
    y1 = y1
    y2 = y2
    b1 = b1
    k1 = k1
    k2 = k2
    q1 = q1
    q2 = q2
    None = None
    Nobody = Nobody
    Nothing = Nothing
    First = {x1, x2}
    Second = {b1}
    Claim = {y1, y2}
    Span = {1, 2}
    Limit <- MCLimit
    Page = {"page"}
    User = {x1, x2}
    Address = {y1, y2}
    Key = {k1, k2}
    Request = {q1, q2}
    FreeLimit = 1
    PaidLimit = 1
    Account = {x1, x2}
    Device = {"left", "right"}
    Tab = {"left", "right"}
    DeviceOf <- MCDeviceOf
    Project = {"project"}
    Zip = {"zip"}
    Expires = TRUE
    Null = Null
    Retention = 2
    Patience = 1
    MaxClock = 2
SYMMETRY AskingSymmetry
INVARIANTS
    TypesOK
    LimitsHold
    RetryChargesOnce
    ShownAsCharged
    OwnFollowsOnly
    MergeAgrees
    LastingRemoval
