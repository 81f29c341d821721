CONSTANTS
    Calls <- MCCalls
    Groups <- MCGroups
    MaxAtOnce = 3
    MaxFailures = 1
    Orders = {}
    Retire = retire
    Settle = settle
    Baskets <- MCBaskets
    MaxUses = 1
    AddOnCapacity = 2
    StartPoints = 2
    CreditLimit = 3
    OrderLimit = 2
    MaxAmount = 3
    Quotes = {}
    Asks <- MCAsks
    Editors = {}
    Buyers = {}
    Labels = {A1, A2, A3, A4}
    SeatCapacity = 2
    NoSeat = NoSeat
    Guests = {}
    Passengers = {}
    Deliveries = {}
    FlightCapacity = 2
    NoPnr = NoPnr
    Broadcasts = {}
    Sales = {sale1, sale2, sale3}
    BuyerOf <- MCBuyerOf
    Analysts = {}
    Glances = {look1}
    Books <- MCBooks
    Events = {ev1, ev2}
    OtherEvents = {abroad}
    AffiliateCodes = {code1}
    AgentCodes = {agent1}
    TicketCounts = {2}
    DayLength = 4
    Now = 10
    LastHour = 11
    Ranges = {0}
    Visits = {}
    Presses = {}
    AppVisits = {}
    AppPresses = {}
    Offers <- MCOffers
    MaxTickets = 2
    Tiers = {standing, seated}
    SeatedTiers = {seated}
    NoOffer = NoOffer
    NoTier = NoTier
    Queries = {q1, q2}
    Fetches = {}
    NoQuery = NoQuery
    Tours = {tour1}
    Names <- MCNames
    sale1 = sale1
    sale2 = sale2
    sale3 = sale3
    ann = ann
    ben = ben
    ev1 = ev1
    ev2 = ev2
    abroad = abroad
    code1 = code1
    agent1 = agent1
    look1 = look1
SPECIFICATION Spec
INVARIANTS
    BouncedBack
\* Every call ends.
CHECK_DEADLOCK FALSE
