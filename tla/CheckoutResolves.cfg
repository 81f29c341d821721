CONSTANTS
    ga = ga
    stalls = stalls
    s1 = s1
    s2 = s2
    Orders = {o1, o2}
    Sweepers = {c1, c2}
    Channels = {"paystack", "wallet", "corporate"}
    TicketTypes <- Mixed
    Capacity <- MixedCapacity
    SeatsOf <- MixedSeats
    MaxQuantity = 2
    MaxCrashes = 1
    SlowHandlers = FALSE
SPECIFICATION FairSpec
INVARIANTS
    SeatsFollowTickets
PROPERTIES
    ImplementsInventory
    OrdersEnd
\* Every order of the instance may be settled: nothing is left to do.
CHECK_DEADLOCK FALSE
