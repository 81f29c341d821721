CONSTANTS
    Users = {u1, u2}
    Nobody = Nobody
    Shares = {s1, s2}
    Claims = {c1}
    Withdrawals = {w1}
    Offers = {o1, o2}
    Purchases = {p1, p2}
    Collects = {n1}
    MaxAtOnce = 2
    MaxFailures = 1
SPECIFICATION Spec
SYMMETRY CallSymmetry
INVARIANTS
    IInv
    RacesAreAllOrNothing
    InTurn
PROPERTIES
    GrantsUsedOnce
    TurnsKeepOrder
\* Every call ends.
CHECK_DEADLOCK FALSE
