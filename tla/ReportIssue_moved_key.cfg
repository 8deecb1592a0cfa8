SPECIFICATION Spec
CONSTANTS
    b1 = b1
    b2 = b2
    u1 = u1
    u2 = u2
    k1 = k1
    k2 = k2
    k3 = k3
    r1 = r1
    r2 = r2
    r3 = r3
    c1 = c1
    c2 = c2
    x1 = x1
    Never = Never
    Nobody = Nobody
    Nothing = Nothing
    Brokerage = {b1, b2}
    User = {u1}
    Key = {k1}
    Report = {r1, r2}
    Call = {c1}
    Binding = {x1}
    MayJoin <- Movers
    ExpiresAt <- NoExpiry
    FreeLimit = 1
    PaidLimit = 1
    MonthLength = 1
    MaxClock = 0
INVARIANT
    KeyChargedOnce
