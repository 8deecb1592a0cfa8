SPECIFICATION FollowSpec
CONSTANTS
    a1 = a1
    a2 = a2
    p1 = p1
    Null = Null
    Account = {a1, a2}
    Device = {"browser"}
    Tab = {"left", "right"}
    DeviceOf <- MCOneBrowser
    Project = {p1}
    Zip = {}
    Expires = FALSE
SYMMETRY MCSymmetry
INVARIANT OwnFollowsOnly
