CONSTANTS
    ga = ga
    stalls = stalls
    s1 = s1
    s2 = s2
    Orders = {o1, o2, o3}
    Sweepers = {c1, c2}
    Channels = {"paystack", "wallet", "corporate"}
    TicketTypes <- GA
    Capacity <- GACapacity
    SeatsOf <- GASeats
    MaxQuantity = 2
    MaxCrashes = 1
    SlowHandlers = FALSE
SPECIFICATION Spec
SYMMETRY OrderSymmetry
INVARIANTS
    IInv
    ValidTicketsFit
PROPERTIES
    SettledOnce
\* Every order of the instance may be settled: nothing is left to do.
CHECK_DEADLOCK FALSE
