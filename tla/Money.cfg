CONSTANTS
    Users = {u1, u2}
    Nobody = Nobody
    Causes <- MCCauses
    TopUps = {t1}
    Vouchers = {v1}
    Deliveries = {d1, d2}
    Redemptions = {r1, r2}
    Purchases = {p1}
    By <- MCBy
    TopUpKobo = 2
    DenominationKobo = 1
    PurchaseKobo = 2
    Orders = {o1, o2}
    NoOrder = NoOrder
    GuestOrders = {}
    AgentOrders = {o1}
    Copies = {k1, k2}
    Referrer = u1
    Agent = u2
    RewardKobo = 1
    CommissionKobo = 1
    Points <- MCPoints
    MaxAtOnce = 2
    MaxFailures = 1
SPECIFICATION Spec
SYMMETRY CallSymmetry
INVARIANTS
    IInv
    MoneySettles
\* Every call ends.
CHECK_DEADLOCK FALSE
