SPECIFICATION SumSpec
CONSTANTS
    u1 = u1
    u2 = u2
    b1 = b1
    b2 = b2
    i1 = i1
    i2 = i2
    i3 = i3
    s1 = s1
    s2 = s2
    Nobody = Nobody
    Nothing = Nothing
    User = {u1, u2}
    Session = {s1, s2}
    Brokerage = {b1, b2}
    Invite = {i1, i2, i3}
    Operation = {"redeem", "mint", "withdraw", "signup", "remove", "change"}
    Change = {"owner", "gone"}
    SeatLimit = 1
    Leaver = {u1, u2}
    EvaluationEnds = 1
    InviteLife = 1
    MaxClock = 1
SYMMETRY SpineSymmetry
INVARIANTS
    TypeOK
    PlacesAndSeatsHold
    NoCycleOfWaits
PROPERTIES
    ImplementsMembership
    AnOwnerRemains
