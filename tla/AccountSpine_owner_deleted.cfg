SPECIFICATION Spec
CONSTANTS
    u1 = u1
    u2 = u2
    b1 = b1
    b2 = b2
    i1 = i1
    i2 = i2
    i3 = i3
    s1 = s1
    s2 = s2
    Nobody = Nobody
    Nothing = Nothing
    User = {u1, u2}
    Brokerage = {b1}
    Invite = {i1, i2}
    Session = {s1, s2}
    Operation = {"redeem", "mint", "change"}
    Change = {"owner", "agent", "gone"}
    SeatLimit = 2
    Leaver = {u1, u2}
    EvaluationEnds = 2
    InviteLife = 2
    MaxClock = 0
SYMMETRY SpineSymmetry
PROPERTIES
    AnOwnerRemains
