SPECIFICATION FairSpec
CONSTANTS
    w1 = w1
    w2 = w2
    a1 = a1
    a2 = a2
    r1 = r1
    r2 = r2
    NoOne = NoOne
    Watch = {w1}
    Agent = {a1}
    Run = {r1, r2}
    Change = {1, 2}
    EmailRoom = 1
    ClaimLimit = 1
INVARIANTS
    ToldWasMailed
PROPERTIES
    EachChangeTold
