SPECIFICATION RequestSpec
CONSTANTS
    p1 = p1
    p2 = p2
    u1 = u1
    u2 = u2
    a1 = a1
    a2 = a2
    k1 = k1
    k2 = k2
    k3 = k3
    q1 = q1
    q2 = q2
    Nobody = Nobody
    Nothing = Nothing
    Page = {p1}
    User = {u1}
    Address = {a1, a2}
    Key = {k1, k2, k3}
    Request = {q1, q2}
    FreeLimit = 1
    PaidLimit = 1
SYMMETRY RequestSymmetry
INVARIANTS
    LostAnswerChargesOnce
