CONSTANTS
    Calls <- MCCalls
    Groups <- MCGroups
    MaxAtOnce = 3
    MaxFailures = 1
    Orders = {o1, o2, o3}
    Retire = retire
    Settle = settle
    Baskets <- MCBaskets
    MaxUses = 1
    AddOnCapacity = 2
    StartPoints = 2
    CreditLimit = 3
    OrderLimit = 2
    MaxAmount = 3
    Quotes = {q1}
    Asks <- MCAsks
    Editors = {e1, e2}
    Buyers = {b1, b2}
    Labels = {A1, A2, A3, A4}
    SeatCapacity = 2
    NoSeat = NoSeat
    Guests = {g1}
    Passengers = {p1, p2, p3}
    Deliveries = {d1, d2, d3}
    FlightCapacity = 2
    NoPnr = NoPnr
    Broadcasts = {mail1}
    Sales = {sale1, sale2, sale3}
    BuyerOf <- MCBuyerOf
    Analysts = {read1}
    Glances = {look1, look2}
    Books <- MCBooks
    Events = {ev1, ev2}
    OtherEvents = {abroad}
    AffiliateCodes = {code1}
    AgentCodes = {agent1}
    TicketCounts = {2}
    DayLength = 4
    Now = 10
    LastHour = 11
    Ranges = {0}
    Visits = {visit1}
    Presses = {press1, press2}
    AppVisits = {visit2}
    AppPresses = {buy1, buy2}
    Offers <- MCOffers
    MaxTickets = 2
    Tiers = {standing, seated}
    SeatedTiers = {seated}
    NoOffer = NoOffer
    NoTier = NoTier
    Queries = {q1, q2}
    Fetches = {fetch1, fetch2, fetch3}
    NoQuery = NoQuery
    Tours = {tour1}
    Names <- MCNames
    sale1 = sale1
    sale2 = sale2
    sale3 = sale3
    ann = ann
    ben = ben
    ev1 = ev1
    ev2 = ev2
    abroad = abroad
    code1 = code1
    agent1 = agent1
    look1 = look1
SPECIFICATION Spec
SYMMETRY CallSymmetry
INVARIANTS
    SoldAsCounted
    PricesHold
    MapKept
    BroadcastCounts
    ReportsAgree
    OrderAsAnnounced
    SearchShowsQuery
    SiteHolds
PROPERTIES
    BookingsHold
\* Every call ends.
CHECK_DEADLOCK FALSE
