CONSTANTS
    Users = {u1, u2}
    Nobody = Nobody
    Shares = {}
    Claims = {}
    Withdrawals = {}
    Offers = {o1}
    Purchases = {p1}
    Collects = {}
    MaxAtOnce = 2
    MaxFailures = 1
SPECIFICATION Spec
SYMMETRY CallSymmetry
INVARIANTS
    AllOrNothing
\* Every call ends.
CHECK_DEADLOCK FALSE
