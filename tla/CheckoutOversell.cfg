CONSTANTS
    ga = ga
    stalls = stalls
    s1 = s1
    s2 = s2
    Orders = {o1, o2}
    Sweepers = {c1}
    Channels = {"wallet"}
    TicketTypes <- GA
    Capacity <- GACapacity
    SeatsOf <- GASeats
    MaxQuantity = 2
    MaxCrashes = 0
    SlowHandlers = FALSE
SPECIFICATION Spec
SYMMETRY OrderSymmetry
INVARIANTS
    LiveTicketsFit
\* Every order of the instance may be settled: nothing is left to do.
CHECK_DEADLOCK FALSE
