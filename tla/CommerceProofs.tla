---------------------------- MODULE CommerceProofs ----------------------------
(***************************************************************************)
(* What the parts of Commerce keep, for any number of orders, seats, mails *)
(* and requests at once, cut short at any point: flight seats, bookings    *)
(* and the extras of orders are counted and settled once, bills add up,    *)
(* seat maps keep their buyers, mails reach whom they should, reports      *)
(* agree, a form announces what it charges, a search shows what was asked, *)
(* and a visit to the site gets where it leads.                            *)
(***************************************************************************)
EXTENDS Commerce, FiniteSetTheorems, TLAPS

(* A step is made for one part; the rows of the other parts stay.          *)
StepOf(i) ==
    /\ Only(Parts[i]) /\ Only(Parts[i])'
    /\ IF i = 1 THEN ExtrasNext ELSE UNCHANGED extrasVars
    /\ IF i = 2 THEN \E q \in Quotes : Quote(q) ELSE UNCHANGED quoteVars
    /\ IF i = 3 THEN SeatMapsNext ELSE UNCHANGED seatVars
    /\ IF i = 4 THEN BookingsNext ELSE UNCHANGED bookingVars
    /\ IF i = 5 THEN MailingsNext ELSE UNCHANGED mailVars
    /\ IF i = 6 THEN ReportsNext ELSE UNCHANGED reportVars
    /\ IF i = 7 THEN BuyFormsNext ELSE UNCHANGED buyVars
    /\ IF i = 8 THEN SearchesNext ELSE UNCHANGED searchVars
    /\ IF i = 9 THEN SiteNext ELSE UNCHANGED siteVars

LEMMA PartsByNumber ==
    /\ Parts[1] = ExtrasPart /\ Parts[2] = Quotes /\ Parts[3] = SeatPart
    /\ Parts[4] = BookingPart /\ Parts[5] = Broadcasts /\ Parts[6] = Readers
    /\ Parts[7] = BuyPart /\ Parts[8] = Fetches /\ Parts[9] = Tours
    BY DEF Parts

LEMMA StepsOfParts ==
    ASSUME Next
    PROVE  \E i \in 1..9 : StepOf(i)
<1>1. StepOf(1) \/ StepOf(2) \/ StepOf(3) \/ StepOf(4) \/ StepOf(5) \/ StepOf(6) \/ StepOf(7)
        \/ StepOf(8) \/ StepOf(9)
    BY PartsByNumber DEF Next, StepOf, clientVars
<1> QED
    BY <1>1

(* While one part acts, no call of another is under way.                   *)
LEMMA OthersAreIdle ==
    ASSUME NEW i \in 1..9, NEW j \in 1..9, i # j, StepOf(i)
    PROVE  \A c \in Parts[j] \cap Calls : pc[c] = "idle" /\ pc'[c] = "idle"
<1>1. Parts[i] \cap Parts[j] = {}
    BY CommerceAssumption
<1> QED
    BY <1>1 DEF StepOf, Only, Started

-------------------------------------------------------------------------------
(* Failures are counted and never forgotten, and neither is an overlap.    *)
FailuresGrow ==
    \/ failures' = failures
    \/ failures < MaxFailures /\ failures' = failures + 1
OverlapStays ==
    /\ overlapped => overlapped'
    /\ overlapped \in BOOLEAN => overlapped' \in BOOLEAN
OverlapNoted == overlapped' = overlapped \/ overlapped' = (overlapped \/ Busy # {})

LEMMA OverlapKept == OverlapNoted => OverlapStays
<1> SUFFICES ASSUME OverlapNoted PROVE OverlapStays
    OBVIOUS
<1>1. CASE overlapped' = overlapped
    BY <1>1 DEF OverlapStays
<1>2. CASE overlapped' = (overlapped \/ Busy # {})
    <2>1. (overlapped \/ Busy # {}) \in BOOLEAN
        BY Zenon
    <2> QED
        BY <1>2, <2>1 DEF OverlapStays
<1> QED
    BY <1>1, <1>2 DEF OverlapNoted

LEMMA FailuresOfExtras == ASSUME ExtrasNext PROVE FailuresGrow
    BY DEF FailuresGrow, Begin, Goto, CutShort, requestVars, ExtrasNext,
           OrderStep, ReadEvent, TakeAddOns, AddOnsSoldOut, FindPromo,
           ClaimPromo, Commit, Rollback, AssertCanCharge, ChargeAccount,
           PayOrder, ExpireOrder, RetirePromo, SettleAccount, ExtrasCutShort

LEMMA OverlapOfExtras == ASSUME ExtrasNext PROVE OverlapStays
<1>1. OverlapNoted
    BY DEF OverlapNoted, Begin, Goto, CutShort, requestVars, ExtrasNext,
           OrderStep, ReadEvent, TakeAddOns, AddOnsSoldOut, FindPromo,
           ClaimPromo, Commit, Rollback, AssertCanCharge, ChargeAccount,
           PayOrder, ExpireOrder, RetirePromo, SettleAccount, ExtrasCutShort
<1> QED
    BY <1>1, OverlapKept

LEMMA FailuresOfQuotes == ASSUME NEW q \in Quotes, Quote(q) PROVE FailuresGrow
    BY DEF FailuresGrow, Begin, Goto, CutShort, requestVars, Quote

LEMMA OverlapOfQuotes == ASSUME NEW q \in Quotes, Quote(q) PROVE OverlapStays
<1>1. OverlapNoted
    BY DEF OverlapNoted, Begin, Goto, CutShort, requestVars, Quote
<1> QED
    BY <1>1, OverlapKept

LEMMA FailuresOfSeatMaps == ASSUME SeatMapsNext PROVE FailuresGrow
    BY DEF FailuresGrow, Begin, Goto, CutShort, requestVars, SeatMapsNext,
           ReadSeats, DeleteSeats, CreateSeats, EditCutShort, ChooseSeat,
           HoldSeat, SellSeats, ReleaseSeats, VoidSeats

LEMMA OverlapOfSeatMaps == ASSUME SeatMapsNext PROVE OverlapStays
<1>1. OverlapNoted
    BY DEF OverlapNoted, Begin, Goto, CutShort, requestVars, SeatMapsNext,
           ReadSeats, DeleteSeats, CreateSeats, EditCutShort, ChooseSeat,
           HoldSeat, SellSeats, ReleaseSeats, VoidSeats
<1> QED
    BY <1>1, OverlapKept

LEMMA FailuresOfBookings == ASSUME BookingsNext PROVE FailuresGrow
    BY DEF FailuresGrow, Begin, Goto, CutShort, requestVars, BookingsNext,
           ReadFlight, ClaimFlightSeat, InsertFlightBooking,
           CreateHotelBooking, InitializePayment, PayBooking, FinaliseBooking,
           BookingCutShort

LEMMA OverlapOfBookings == ASSUME BookingsNext PROVE OverlapStays
<1>1. OverlapNoted
    BY DEF OverlapNoted, Begin, Goto, CutShort, requestVars, BookingsNext,
           ReadFlight, ClaimFlightSeat, InsertFlightBooking,
           CreateHotelBooking, InitializePayment, PayBooking, FinaliseBooking,
           BookingCutShort
<1> QED
    BY <1>1, OverlapKept

LEMMA FailuresOfMailings == ASSUME MailingsNext PROVE FailuresGrow
    BY DEF FailuresGrow, Begin, Goto, CutShort, requestVars, MailingsNext,
           ReadRecipients, CreateBroadcast, MailOne, StoreCount,
           BroadcastCutShort, SaleMoves

LEMMA OverlapOfMailings == ASSUME MailingsNext PROVE OverlapStays
<1>1. OverlapNoted
    BY DEF OverlapNoted, Begin, Goto, CutShort, requestVars, MailingsNext,
           ReadRecipients, CreateBroadcast, MailOne, StoreCount,
           BroadcastCutShort, SaleMoves
<1> QED
    BY <1>1, OverlapKept

LEMMA FailuresOfReports == ASSUME ReportsNext PROVE FailuresGrow
    BY DEF FailuresGrow, Begin, Goto, CutShort, requestVars, ReportsNext, AnalystStep, AskReport,
           AnswerTotals, AnswerQuery, ReadFigure, ReportCutShort, OrderPaid, TicketsIssued, OrderRefunded,
           HourPasses

LEMMA OverlapOfReports == ASSUME ReportsNext PROVE OverlapStays
<1>1. OverlapNoted
    BY DEF OverlapNoted, Begin, Goto, CutShort, requestVars, ReportsNext, AnalystStep, AskReport,
           AnswerTotals, AnswerQuery, ReadFigure, ReportCutShort, OrderPaid, TicketsIssued, OrderRefunded,
           HourPasses
<1> QED
    BY <1>1, OverlapKept

LEMMA FailuresOfBuyForms == ASSUME BuyFormsNext PROVE FailuresGrow
    BY DEF FailuresGrow, Begin, Goto, CutShort, requestVars, BuyFormsNext,
           OpenPage, Bump, ToggleWallet, TypePromo, TypeEmail, Submit,
           PressButton, Swipe, Misswipe, AcceptOrder, RefuseOrder, LeavePage,
           ShowError, OpenScreen, SelectTier, SeatListEnds, ToggleSeat,
           StepCount, Buy, AnswerApp, EndBuy

LEMMA OverlapOfBuyForms == ASSUME BuyFormsNext PROVE OverlapStays
<1>1. OverlapNoted
    BY DEF OverlapNoted, Begin, Goto, CutShort, requestVars, BuyFormsNext,
           OpenPage, Bump, ToggleWallet, TypePromo, TypeEmail, Submit,
           PressButton, Swipe, Misswipe, AcceptOrder, RefuseOrder, LeavePage,
           ShowError, OpenScreen, SelectTier, SeatListEnds, ToggleSeat,
           StepCount, Buy, AnswerApp, EndBuy
<1> QED
    BY <1>1, OverlapKept

LEMMA FailuresOfSearches == ASSUME SearchesNext PROVE FailuresGrow
    BY DEF FailuresGrow, Begin, Goto, CutShort, requestVars, SearchesNext,
           OpenSearch, TypeQuery, SendQuery, SendFetch, ShowResults, FetchFails

LEMMA OverlapOfSearches == ASSUME SearchesNext PROVE OverlapStays
<1>1. OverlapNoted
    BY DEF OverlapNoted, Begin, Goto, CutShort, requestVars, SearchesNext,
           OpenSearch, TypeQuery, SendQuery, SendFetch, ShowResults, FetchFails
<1> QED
    BY <1>1, OverlapKept

LEMMA FailuresOfSite == ASSUME SiteNext PROVE FailuresGrow
    BY DEF FailuresGrow, Begin, Goto, CutShort, requestVars, SiteNext,
           OpenSite, Visit

LEMMA OverlapOfSite == ASSUME SiteNext PROVE OverlapStays
<1>1. OverlapNoted
    BY DEF OverlapNoted, Begin, Goto, CutShort, requestVars, SiteNext,
           OpenSite, Visit
<1> QED
    BY <1>1, OverlapKept

LEMMA CountersStep ==
    ASSUME [Next]_vars
    PROVE  FailuresGrow /\ OverlapStays
<1>1. CASE UNCHANGED vars
    BY <1>1 DEF vars, requestVars, FailuresGrow, OverlapStays
<1>2. CASE Next
    BY <1>2, FailuresOfExtras, OverlapOfExtras, FailuresOfQuotes, OverlapOfQuotes,
       FailuresOfSeatMaps, OverlapOfSeatMaps, FailuresOfBookings, OverlapOfBookings,
       FailuresOfMailings, OverlapOfMailings, FailuresOfReports, OverlapOfReports,
       FailuresOfBuyForms, OverlapOfBuyForms, FailuresOfSearches, OverlapOfSearches,
       FailuresOfSite, OverlapOfSite
       DEF Next
<1> QED
    BY <1>1, <1>2

-------------------------------------------------------------------------------
(* Flights and hotels.                                                     *)
USE BookingsAssumption DEF Bookers

(* Where a request to book stands tells what it holds: a seat from its     *)
(* claim on, and a booking from the insert on.                             *)
BookingInv ==
    /\ seated \subseteq Passengers
    /\ flightSold = Cardinality(seated) /\ flightSold <= FlightCapacity
    /\ booking \in [Bookers -> {"none", "PENDING", "PAID"}]
    /\ payment \in [Bookers -> {"none", "open", "charged"}]
    /\ DOMAIN pnr = Bookers
    /\ \A b \in Bookers : booking[b] = "PAID" => payment[b] = "charged"
    /\ \A b \in Bookers : payment[b] # "none" => pc[b] = "done"
    /\ \A p \in Passengers :
        /\ pc[p] \in {"idle", "claim", "refused"} => p \notin seated /\ booking[p] = "none"
        /\ pc[p] \in {"insert", "initialize", "done"} => p \in seated
        /\ pc[p] = "insert" => booking[p] = "none"
        /\ pc[p] \in {"initialize", "done"} => booking[p] # "none"
        /\ pc[p] \in BookingSteps \cup Ended \cup {"idle"}
        /\ booking[p] # "none" => p \in seated

LEMMA SeatsAreCounted ==
    ASSUME NEW S \in SUBSET Passengers
    PROVE  /\ Cardinality(S) \in Nat
           /\ \A p \in Passengers \ S : Cardinality(S \cup {p}) = Cardinality(S) + 1
<1>1. IsFiniteSet(S)
    BY FS_Subset
<1> QED
    BY <1>1, FS_CardinalityType, FS_AddElement

LEMMA BookingInit == Init => BookingInv
<1> SUFFICES ASSUME Init PROVE BookingInv
    OBVIOUS
<1>1. Cardinality({}) = 0
    BY FS_EmptySet
<1>2. \A c \in Bookers : pc[c] = "idle"
    BY DEF Init, RequestsInit
<1> QED
    BY <1>1, <1>2 DEF Init, BookingsInit, BookingInv, BookingSteps, Ended

(* A step of the customer, Paystack or the API about one booking.          *)
LEMMA BookingStep ==
    ASSUME BookingInv, BookingsNext
    PROVE  BookingInv'
<1> USE DEF BookingInv, BookingSteps, Ended, bookingVars, Begin, Goto, CutShort, MovesTo
<1>1. ASSUME NEW p \in Passengers, ReadFlight(p) PROVE BookingInv'
    BY <1>1 DEF ReadFlight
<1>2. ASSUME NEW p \in Passengers, ClaimFlightSeat(p) PROVE BookingInv'
    <2>1. CASE SeatLeft
        <3>1. p \notin seated /\ seated \in SUBSET Passengers
            BY <1>2 DEF ClaimFlightSeat
        <3>2. Cardinality(seated) \in Nat /\ Cardinality(seated \cup {p}) = Cardinality(seated) + 1
            BY <3>1, SeatsAreCounted
        <3>3. seated' = seated \cup {p} /\ flightSold' = flightSold + 1 /\ flightSold < FlightCapacity
            BY <1>2, <2>1 DEF ClaimFlightSeat, SeatLeft
        <3>4. flightSold' = Cardinality(seated') /\ flightSold' <= FlightCapacity
            BY <3>2, <3>3
        <3> QED
            BY <1>2, <2>1, <3>4 DEF ClaimFlightSeat
    <2>2. CASE ~SeatLeft
        BY <1>2, <2>2 DEF ClaimFlightSeat
    <2> QED
        BY <2>1, <2>2
<1>3. ASSUME NEW p \in Passengers, InsertFlightBooking(p) PROVE BookingInv'
    BY <1>3 DEF InsertFlightBooking
<1>4. ASSUME NEW g \in Guests, CreateHotelBooking(g) PROVE BookingInv'
    BY <1>4 DEF CreateHotelBooking
<1>5. ASSUME NEW b \in Bookers, InitializePayment(b) PROVE BookingInv'
    BY <1>5 DEF InitializePayment
<1>6. ASSUME NEW b \in Bookers, PayBooking(b) PROVE BookingInv'
    BY <1>6 DEF PayBooking, requestVars
<1>7. ASSUME NEW b \in Bookers, BookingCutShort(b) PROVE BookingInv'
    BY <1>7 DEF BookingCutShort, Busy, Started
<1>8. ASSUME NEW d \in Deliveries, NEW b \in Bookers, FinaliseBooking(d, b) PROVE BookingInv'
    BY <1>8 DEF FinaliseBooking, Finalisable
<1> QED
    BY <1>1, <1>2, <1>3, <1>4, <1>5, <1>6, <1>7, <1>8 DEF BookingsNext

(* The steps of the other parts leave bookings and their requests alone.   *)
LEMMA OthersLeaveBookings ==
    ASSUME Next
    PROVE  \/ BookingsNext
           \/ UNCHANGED bookingVars /\ \A c \in Bookers : pc[c] = "idle" /\ pc'[c] = "idle"
<1>1. PICK i \in 1..9 : StepOf(i)
    BY StepsOfParts
<1>2. Bookers \subseteq Parts[4] \cap Calls
    BY PartsByNumber DEF BookingPart
<1>3. CASE i = 4
    BY <1>1, <1>3 DEF StepOf
<1>4. CASE i # 4
    BY <1>1, <1>2, <1>4, OthersAreIdle DEF StepOf
<1> QED
    BY <1>3, <1>4

LEMMA BookingInductive == BookingInv /\ [Next]_vars => BookingInv'
<1> SUFFICES ASSUME BookingInv, [Next]_vars PROVE BookingInv'
    OBVIOUS
<1>1. CASE UNCHANGED vars
    BY <1>1 DEF BookingInv, vars, bookingVars, requestVars
<1>2. CASE BookingsNext
    BY <1>2, BookingStep
<1>3. CASE UNCHANGED bookingVars /\ \A c \in Bookers : pc[c] = "idle" /\ pc'[c] = "idle"
    BY <1>3 DEF BookingInv, bookingVars
<1> QED
    BY <1>1, <1>2, <1>3, OthersLeaveBookings

LEMMA BookingSafe == Spec => []BookingInv
    BY BookingInit, BookingInductive, PTL DEF Spec

(* createFlightBooking claims a seat before it inserts the booking: no     *)
(* interleaving of requests and no request cut short oversells the flight  *)
(* or leaves a booking without its seat.                                   *)
THEOREM FlightSeats == Spec => []FlightSeatsAccounted
<1>1. BookingInv => FlightSeatsAccounted
    <2> SUFFICES ASSUME BookingInv PROVE FlightSeatsAccounted
        OBVIOUS
    <2>1. \A p \in Passengers : p \in seated /\ booking[p] = "none" => pc[p] \in {"insert", "dead"}
        BY DEF BookingInv, BookingSteps, Ended
    <2> QED
        BY <2>1 DEF FlightSeatsAccounted, BookingInv
<1> QED
    BY <1>1, BookingSafe, PTL

(* finaliseByReference, delivered any number of times, makes a booking     *)
(* PAID once, for a charge that was made, and never draws another PNR.     *)
THEOREM BookingsOnce == Spec => BookedOnce
<1> DEFINE Step ==
        \A b \in Bookers :
            /\ booking'[b] # booking[b] /\ booking'[b] = "PAID" => payment[b] = "charged"
            /\ booking[b] = "PAID" => booking'[b] = "PAID" /\ pnr'[b] = pnr[b]
<1>1. BookingInv /\ [Next]_vars => [Step]_bookingVars
    <2> SUFFICES ASSUME BookingInv, [Next]_vars, bookingVars' # bookingVars PROVE Step
        OBVIOUS
    <2>1. BookingsNext
        BY OthersLeaveBookings DEF vars
    <2> USE DEF BookingInv, bookingVars, Begin, Goto, MovesTo
    <2>2. ASSUME NEW p \in Passengers, ReadFlight(p) \/ ClaimFlightSeat(p) PROVE Step
        BY <2>2 DEF ReadFlight, ClaimFlightSeat
    <2>3. ASSUME NEW p \in Passengers, InsertFlightBooking(p) PROVE Step
        BY <2>3 DEF InsertFlightBooking
    <2>4. ASSUME NEW g \in Guests, CreateHotelBooking(g) PROVE Step
        BY <2>4 DEF CreateHotelBooking
    <2>5. ASSUME NEW b \in Bookers, InitializePayment(b) \/ PayBooking(b) \/ BookingCutShort(b)
          PROVE  Step
        BY <2>5 DEF InitializePayment, PayBooking, BookingCutShort
    <2>6. ASSUME NEW d \in Deliveries, NEW b \in Bookers, FinaliseBooking(d, b) PROVE Step
        BY <2>6 DEF FinaliseBooking, Finalisable
    <2> QED
        BY <2>1, <2>2, <2>3, <2>4, <2>5, <2>6 DEF BookingsNext
<1> QED
    BY <1>1, BookingSafe, PTL DEF Spec, BookedOnce

(* Both: the bookings of Commerce are counted and settled once.            *)
THEOREM BookingsAlwaysHold == Spec => BookingsHold
    BY FlightSeats, BookingsOnce, PTL DEF BookingsHold

-------------------------------------------------------------------------------
(* Pages that list what the user asked for.                                *)
Answering == {c \in Fetches : pc[c] = "answer"}

(* Who waits for a list: the page is loading for an answer or its timer,   *)
(* the bus page for the one search that it sent.                           *)
LoadingHasReason ==
    /\ loading /\ search.flag = "always" => timer \/ Answering # {}
    /\ search.flag = "none" => ~loading
    /\ search.flag = "button" =>
        /\ loading <=> (\E c \in Answering : asked[c] # NoQuery)
        /\ \A c, d \in Answering : asked[c] # NoQuery /\ asked[d] # NoQuery => c = d

(* As long as none failed, the list is that of the request sent last, once *)
(* it is answered; requests that take turns are answered before the next.  *)
ListIsLatest ==
    failures = 0 /\ (overlapped => search.shows = "last") =>
        /\ ~overlapped => \A c \in Answering : c = latestFetch
        /\ pc[latestFetch] # "answer" => results = {asked[latestFetch]}

SearchInv ==
    /\ failures \in Nat /\ SearchesTypeOK
    /\ search = NoQuery => \A c \in Fetches : pc[c] = "idle"
    /\ search # NoQuery =>
        /\ latestFetch \in Fetches /\ pc[latestFetch] # "idle"
        /\ LoadingHasReason /\ ListIsLatest

LEMMA SearchInit == Init => SearchInv
<1> SUFFICES ASSUME Init PROVE SearchInv
    OBVIOUS
<1>1. \A c \in Fetches : pc[c] = "idle"
    BY SearchesAssumption DEF Init, RequestsInit
<1> QED
    BY <1>1 DEF Init, RequestsInit, SearchesInit, SearchesTypeOK, SearchInv

(* A request is sent, for what is then asked.                              *)
LEMMA FetchSent ==
    ASSUME SendFetch
    PROVE  \E c \in Fetches :
              /\ pc[c] = "idle" /\ latestFetch' = c
              /\ \A d \in Fetches : pc'[d] = IF d = c THEN "answer" ELSE pc[d]
              /\ asked' = [asked EXCEPT ![c] = query']
              /\ overlapped' = (overlapped \/ Busy # {}) /\ UNCHANGED failures
              /\ Answering' = Answering \cup {c} /\ c \notin Answering
<1>1. FreshFetch \in Fetches /\ pc[FreshFetch] = "idle"
    BY DEF SendFetch, FetchLeft, FreshFetch
<1>2. \A d \in Fetches : pc'[d] = IF d = FreshFetch THEN "answer" ELSE pc[d]
    BY <1>1, SearchesAssumption DEF SendFetch, Begin, MovesTo
<1>3. Answering' = Answering \cup {FreshFetch} /\ FreshFetch \notin Answering
    BY <1>1, <1>2 DEF Answering
<1> QED
    BY <1>1, <1>2, <1>3 DEF SendFetch, Begin

PageKind(s) ==
    /\ s.flag \in {"always", "none", "button"}
    /\ s.flag = "button" => s.waits /\ s.sends = "button"

LEMMA SearchPages == (\A s \in Searches : PageKind(s)) /\ BusSearch.flag = "button"
<1>1. MarketplaceSearch.flag = "always" /\ PageKind(BusSearch) /\ BusSearch.flag = "button"
    BY DEF MarketplaceSearch, BusSearch, PageKind
<1>2. AuditLogFilter.flag = "none"
    BY DEF BusSearch, AuditLogFilter
<1>3. AnalyticsPeriod.flag = "none"
    BY <1>2 DEF BusSearch, AuditLogFilter, AnalyticsPeriod
<1>4. AppEvents.flag = "none"
    BY DEF MarketplaceSearch, AppEvents
<1> QED
    BY <1>1, <1>2, <1>3, <1>4 DEF Searches, PageKind

LEMMA SearchStep ==
    ASSUME SearchInv, SearchesNext
    PROVE  SearchInv'
<1>0. /\ Fetches \subseteq Calls /\ NoQuery \notin Queries /\ NoQuery \notin Searches
      /\ Answering \subseteq Busy /\ Answering \subseteq Fetches
    BY SearchesAssumption, SearchPagesAssumption DEF Answering, Busy, Started, Ended
<1> USE <1>0
<1>a. \A s \in Searches : PageKind(s)
    BY SearchPages
<1>1. ASSUME NEW s \in Searches, OpenSearch(s) PROVE SearchInv'
    <2>1. PICK c \in Fetches :
              /\ pc[c] = "idle" /\ latestFetch' = c
              /\ \A d \in Fetches : pc'[d] = IF d = c THEN "answer" ELSE pc[d]
              /\ asked' = [asked EXCEPT ![c] = query']
              /\ UNCHANGED failures
              /\ Answering' = Answering \cup {c}
        BY <1>1, FetchSent DEF OpenSearch
    <2>2. /\ search = NoQuery /\ search' = s /\ query' = NoQuery
          /\ loading' = (s.flag = "always") /\ UNCHANGED <<timer, results, broken>>
        BY <1>1 DEF OpenSearch
    <2>3. Answering' = {c}
        BY <2>1, <2>2 DEF SearchInv, Answering
    <2>4. SearchesTypeOK'
        BY <2>1, <2>2 DEF SearchInv, SearchesTypeOK
    <2>5. LoadingHasReason'
        BY <2>1, <2>2, <2>3, <1>a DEF PageKind, LoadingHasReason, SearchInv, SearchesTypeOK
    <2>6. ListIsLatest'
        BY <2>1, <2>3 DEF ListIsLatest
    <2> QED
        BY <2>1, <2>2, <2>4, <2>5, <2>6 DEF SearchInv
<1>2. CASE TypeQuery
    <2>1. /\ search # NoQuery /\ search.sends = "timer" /\ query' \in Queries
          /\ timer' = TRUE /\ loading' = (loading \/ search.flag = "always")
          /\ UNCHANGED <<requestVars, search, asked, latestFetch, results, broken>>
        BY <1>2 DEF TypeQuery
    <2>2. Answering' = Answering
        BY <2>1 DEF Answering, requestVars
    <2>3. SearchesTypeOK'
        BY <2>1 DEF SearchInv, SearchesTypeOK, requestVars
    <2>4. LoadingHasReason'
        BY <2>1, <2>2, <1>a DEF PageKind, LoadingHasReason, SearchInv, SearchesTypeOK
    <2>5. ListIsLatest'
        BY <2>1, <2>2 DEF ListIsLatest, SearchInv, requestVars
    <2> QED
        BY <2>1, <2>3, <2>4, <2>5 DEF SearchInv, requestVars
<1>3. CASE SendQuery
    <2>1. PICK c \in Fetches :
              /\ pc[c] = "idle" /\ latestFetch' = c
              /\ \A d \in Fetches : pc'[d] = IF d = c THEN "answer" ELSE pc[d]
              /\ asked' = [asked EXCEPT ![c] = query']
              /\ overlapped' = (overlapped \/ Busy # {}) /\ UNCHANGED failures
              /\ Answering' = Answering \cup {c} /\ c \notin Answering
        BY <1>3, FetchSent DEF SendQuery
    <2>2. /\ search # NoQuery /\ query' \in Queries \cup {NoQuery}
          /\ search.sends = "button" => query' \in Queries /\ ~(search.waits /\ loading)
          /\ timer' = FALSE /\ loading' = (loading \/ search.flag = "button")
          /\ results' = IF search.clears THEN {} ELSE results
          /\ UNCHANGED <<search, broken>>
        BY <1>3 DEF SendQuery, SearchInv, SearchesTypeOK
    <2>3. /\ asked' \in [Fetches -> Queries \cup {NoQuery}] /\ asked'[c] = query'
          /\ \A d \in Fetches \ {c} : asked'[d] = asked[d]
        BY <2>1, <2>2 DEF SearchInv, SearchesTypeOK
    <2>4. SearchesTypeOK'
        BY <2>1, <2>2, <2>3 DEF SearchInv, SearchesTypeOK
    <2>5. LoadingHasReason'
        BY <2>1, <2>2, <2>3, <1>a DEF PageKind, LoadingHasReason, SearchInv, SearchesTypeOK
    <2>6. ListIsLatest'
        BY <2>1 DEF ListIsLatest
    <2> QED
        BY <2>1, <2>2, <2>4, <2>5, <2>6 DEF SearchInv
<1>4. ASSUME NEW c \in Fetches, ShowResults(c) \/ FetchFails(c) PROVE SearchInv'
    <2>1. /\ pc[c] = "answer" /\ search # NoQuery
          /\ pc'[c] \in Ended /\ \A d \in Fetches \ {c} : pc'[d] = pc[d]
          /\ loading' = (loading /\ ~ResetsLoading(c))
          /\ UNCHANGED <<search, query, timer, asked, latestFetch, overlapped>>
        BY <1>4 DEF ShowResults, FetchFails, CutShort, Goto, MovesTo, Busy, Started, Ended,
                    SearchInv, SearchesTypeOK
    <2>2. Answering' = Answering \ {c} /\ c \in Answering
        BY <2>1 DEF Answering, Ended
    <2>3. CASE ShowResults(c)
        <3>1. results' = ResultsOf(c) /\ UNCHANGED <<broken, failures>>
            BY <2>3 DEF ShowResults, Goto
        <3>2. results' \in SUBSET (Queries \cup {NoQuery})
            BY <3>1 DEF ResultsOf, SearchInv, SearchesTypeOK
        <3>3. SearchesTypeOK'
            BY <2>1, <3>1, <3>2 DEF SearchInv, SearchesTypeOK
        <3>4. LoadingHasReason'
            BY <2>1, <2>2, <1>a DEF PageKind, LoadingHasReason, ResetsLoading, SearchInv, SearchesTypeOK
        <3>5. ListIsLatest'
            BY <2>1, <2>2, <3>1 DEF ListIsLatest, ResultsOf, IsShownList, SearchInv, Ended
        <3> QED
            BY <2>1, <3>1, <3>3, <3>4, <3>5 DEF SearchInv, Ended
    <2>4. CASE FetchFails(c)
        <3>1. /\ results' = results \/ results' = {}
              /\ broken' \in BOOLEAN /\ failures' = failures + 1
            BY <2>4 DEF FetchFails, CutShort
        <3>2. SearchesTypeOK'
            BY <2>1, <3>1 DEF SearchInv, SearchesTypeOK
        <3>3. LoadingHasReason'
            BY <2>1, <2>2, <1>a DEF PageKind, LoadingHasReason, ResetsLoading, SearchInv, SearchesTypeOK
        <3>4. ListIsLatest' /\ failures' \in Nat
            BY <3>1 DEF ListIsLatest, SearchInv
        <3> QED
            BY <2>1, <3>2, <3>3, <3>4 DEF SearchInv, Ended
    <2> QED
        BY <1>4, <2>3, <2>4
<1> QED
    BY <1>1, <1>2, <1>3, <1>4 DEF SearchesNext

LEMMA SearchInductive == SearchInv /\ [Next]_vars => SearchInv'
<1> SUFFICES ASSUME SearchInv, [Next]_vars PROVE SearchInv'
    OBVIOUS
<1>1. CASE UNCHANGED vars
    BY <1>1 DEF SearchInv, SearchesTypeOK, LoadingHasReason, ListIsLatest, Answering, vars,
                clientVars, searchVars, requestVars
<1>2. CASE Next
    <2>1. PICK i \in 1..9 : StepOf(i)
        BY <1>2, StepsOfParts
    <2>2. CASE i = 8
        BY <2>1, <2>2, SearchStep DEF StepOf
    <2>3. CASE i # 8
        <3>1. \A c \in Fetches : pc[c] = "idle" /\ pc'[c] = "idle"
            BY <2>1, <2>3, PartsByNumber, SearchesAssumption, OthersAreIdle
        <3>2. UNCHANGED searchVars /\ search = NoQuery
            BY <2>1, <2>3, <3>1 DEF StepOf, SearchInv
        <3>3. failures' \in Nat
            BY <1>2, CountersStep DEF FailuresGrow, SearchInv
        <3> QED
            BY <3>1, <3>2, <3>3 DEF SearchInv, SearchesTypeOK, searchVars
    <2> QED
        BY <2>2, <2>3
<1> QED
    BY <1>1, <1>2

(* The marketplace, the bus page, the audit log, the analytics and the     *)
(* app's events: once nothing is under way the page is not left loading,   *)
(* and its list, if nothing failed, is of the query sent last, unless an   *)
(* older request was still out; the bus page sends one search at a time.   *)
THEOREM SearchesAlwaysShow == Spec => []SearchShowsQuery
<1>1. ASSUME SearchInv PROVE SearchShowsQuery
    <2>1. Answering \subseteq Busy /\ Busy \cap Fetches = Answering
        BY <1>1, SearchesAssumption DEF Answering, Busy, Started, Ended, SearchInv, SearchesTypeOK
    <2>2. search # NoQuery => search \in Searches
        BY <1>1 DEF SearchInv, SearchesTypeOK
    <2>3. search # NoQuery => search.flag \in {"always", "none", "button"}
        BY <2>2, SearchPages DEF PageKind
    <2>4. ASSUME search # NoQuery, Busy = {}, ~timer
          PROVE  /\ ~loading
                 /\ failures = 0 /\ (overlapped => search.shows = "last") =>
                        results = {asked[latestFetch]}
        <3>1. Answering = {} /\ pc[latestFetch] # "answer"
            BY <1>1, <2>1, <2>4 DEF SearchInv, Answering
        <3> QED
            BY <1>1, <2>3, <2>4, <3>1 DEF SearchInv, LoadingHasReason, ListIsLatest, SearchesTypeOK
    <2>5. ASSUME search = BusSearch
          PROVE  Cardinality({c \in Busy \cap Fetches : asked[c] # NoQuery}) <= 1
        <3> DEFINE S == {c \in Busy \cap Fetches : asked[c] # NoQuery}
        <3>1. \A c, d \in S : c = d
            BY <1>1, <2>1, <2>5, SearchPages, SearchPagesAssumption
            DEF SearchInv, LoadingHasReason, Searches
        <3>2. S = {} \/ \E c \in S : S = {c}
            BY <3>1
        <3> QED
            BY <3>2, FS_EmptySet, FS_Singleton
    <2> QED
        BY <2>4, <2>5 DEF SearchShowsQuery
<1> QED
    BY <1>1, SearchInit, SearchInductive, PTL DEF Spec

-------------------------------------------------------------------------------
(* Mails to the buyers of an event.                                        *)
Outstanding(c) == {BuyerOf[s] : s \in todo[c]}

(* A broadcast owes at most one mail to each buyer, and has sent the mails *)
(* of the others, but for those whose sending threw.                       *)
Owes(c) ==
    /\ \A s, t \in todo[c] : BuyerOf[s] = BuyerOf[t] => s = t
    /\ Outstanding(c) \subseteq eligible[c] /\ thrown[c] \subseteq eligible[c] \ Outstanding(c)
    /\ \A b \in Mailers : inbox[c][b] <= (IF b \in eligible[c] \ Outstanding(c) THEN 1 ELSE 0)
    /\ sent[c] = Cardinality((eligible[c] \ thrown[c]) \ Outstanding(c))

Writes(c) ==
    /\ pc[c] \in {"idle", "create"} => sentCount[c] = -1 /\ sent[c] = 0
    /\ pc[c] = "idle" => eligible[c] = {} /\ todo[c] = {} /\ thrown[c] = {}
    /\ pc[c] = "mail" => sentCount[c] = 0
    /\ pc[c] \in {"refused", "dead"} => sentCount[c] <= 0
    /\ pc[c] = "done" => todo[c] = {} /\ sentCount[c] = sent[c]

MailInv == MailingsTypeOK /\ \A c \in Broadcasts : Owes(c) /\ Writes(c)

LEMMA MailersAreFinite == \A S \in SUBSET Mailers : IsFiniteSet(S) /\ Cardinality(S) \in Nat
<1> DEFINE f == [s \in Sales |-> BuyerOf[s]]
<1>1. f \in Surjection(Sales, Mailers)
    BY DEF Surjection, Mailers
<1>2. IsFiniteSet(Mailers)
    BY <1>1, MailingsAssumption, FS_Surjection
<1> QED
    BY <1>2, FS_Subset, FS_CardinalityType

LEMMA MailInit == Init => MailInv
<1> SUFFICES ASSUME Init PROVE MailInv
    OBVIOUS
<1>1. \A c \in Broadcasts : pc[c] = "idle"
    BY MailingsAssumption DEF Init, RequestsInit
<1>2. MailingsTypeOK
    BY <1>1 DEF Init, MailingsInit, MailingsTypeOK
<1>3. ASSUME NEW c \in Broadcasts PROVE Owes(c) /\ Writes(c)
    <2>1. /\ todo[c] = {} /\ eligible[c] = {} /\ thrown[c] = {} /\ sent[c] = 0 /\ sentCount[c] = -1
          /\ inbox[c] = [b \in Mailers |-> 0]
        BY DEF Init, MailingsInit
    <2>2. Outstanding(c) = {} /\ (eligible[c] \ thrown[c]) \ Outstanding(c) = {}
        BY <2>1 DEF Outstanding
    <2> QED
        BY <1>1, <2>1, <2>2, FS_EmptySet DEF Owes, Writes
<1> QED
    BY <1>2, <1>3 DEF MailInv

(* One of the orders of each buyer who paid.                               *)
LEMMA OneEach ==
    ASSUME NEW R, NEW paid \in SUBSET Sales, Recipients(R, paid)
    PROVE  /\ R \subseteq Sales
           /\ \A s, t \in R : BuyerOf[s] = BuyerOf[t] => s = t
           /\ {BuyerOf[s] : s \in R} = {BuyerOf[s] : s \in paid}
<1>1. R \subseteq paid
    BY DEF Recipients
<1>2. ASSUME NEW s \in paid
      PROVE  \E x : {r \in R : BuyerOf[r] = BuyerOf[s]} = {x}
    <2>1. {r \in R : BuyerOf[r] = BuyerOf[s]} \in SUBSET Sales
        BY <1>1
    <2>2. IsFiniteSet({r \in R : BuyerOf[r] = BuyerOf[s]})
        BY <2>1, MailingsAssumption, FS_Subset
    <2>3. Cardinality({r \in R : BuyerOf[r] = BuyerOf[s]}) = 1
        BY DEF Recipients
    <2> QED
        BY <2>2, <2>3, FS_Singleton
<1>3. \A s, t \in R : BuyerOf[s] = BuyerOf[t] => s = t
    <2> SUFFICES ASSUME NEW s \in R, NEW t \in R, BuyerOf[s] = BuyerOf[t] PROVE s = t
        OBVIOUS
    <2>1. PICK x : {r \in R : BuyerOf[r] = BuyerOf[s]} = {x}
        BY <1>1, <1>2
    <2> QED
        BY <2>1
<1>4. \A s \in paid : \E r \in R : BuyerOf[r] = BuyerOf[s]
    <2> SUFFICES ASSUME NEW s \in paid PROVE \E r \in R : BuyerOf[r] = BuyerOf[s]
        OBVIOUS
    <2>1. PICK x : {r \in R : BuyerOf[r] = BuyerOf[s]} = {x}
        BY <1>2
    <2> QED
        BY <2>1
<1> QED
    BY <1>1, <1>3, <1>4

LEMMA MailStep ==
    ASSUME MailInv, MailingsNext
    PROVE  MailInv'
<1>0. Broadcasts \subseteq Calls
    BY MailingsAssumption
<1> USE <1>0 DEF MailInv
<1>1. ASSUME NEW c \in Broadcasts, ReadRecipients(c) PROVE MailInv'
    <2>1. PICK new \in SUBSET Before("PENDING") :
            LET paid == Before("PAID") \cup new
            IN  /\ Begin(c, "create")
                /\ sale' = [s \in Sales |-> IF s \in new THEN "PAID" ELSE sale[s]]
                /\ \E R \in SUBSET paid : Recipients(R, paid) /\ todo' = [todo EXCEPT ![c] = R]
                /\ eligible' = [eligible EXCEPT ![c] = {BuyerOf[s] : s \in paid}]
                /\ UNCHANGED <<sent, sentCount, inbox, thrown>>
        BY <1>1 DEF ReadRecipients
    <2> DEFINE paid == Before("PAID") \cup new
    <2>2. paid \in SUBSET Sales
        BY DEF Before
    <2>3. PICK R \in SUBSET paid : Recipients(R, paid) /\ todo' = [todo EXCEPT ![c] = R]
        BY <2>1
    <2>4. eligible' = [eligible EXCEPT ![c] = {BuyerOf[s] : s \in paid}]
        BY <2>1
    <2> HIDE DEF paid
    <2>5. /\ R \subseteq Sales /\ {BuyerOf[s] : s \in R} = {BuyerOf[s] : s \in paid}
          /\ \A s, t \in R : BuyerOf[s] = BuyerOf[t] => s = t
        BY <2>2, <2>3, OneEach
    <2>6. /\ pc[c] = "idle" /\ pc'[c] = "create" /\ \A d \in Broadcasts \ {c} : pc'[d] = pc[d]
        BY <2>1 DEF Begin, MovesTo
    <2>7. /\ todo'[c] = R /\ eligible'[c] = {BuyerOf[s] : s \in paid}
          /\ Outstanding(c)' = eligible'[c]
          /\ {BuyerOf[s] : s \in paid} \subseteq Mailers
        BY <2>2, <2>3, <2>4, <2>5 DEF MailingsTypeOK, Outstanding, Mailers
    <2>8. MailingsTypeOK'
        BY <2>1, <2>3, <2>4, <2>5, <2>6, <2>7 DEF MailingsTypeOK
    <2>9. Owes(c)' /\ Writes(c)'
        <3>1. eligible[c] = {} /\ todo[c] = {} /\ thrown[c] = {} /\ sent[c] = 0 /\ sentCount[c] = -1
            BY <2>6 DEF Writes
        <3>2. \A b \in Mailers : inbox[c][b] <= 0
            BY <3>1 DEF Owes
        <3>3. ((eligible[c] \ thrown[c]) \ Outstanding(c))' = {}
            BY <2>7
        <3>4. /\ \A s, t \in todo'[c] : BuyerOf[s] = BuyerOf[t] => s = t
              /\ thrown'[c] = {} /\ sent'[c] = 0 /\ sentCount'[c] = -1 /\ inbox'[c] = inbox[c]
            BY <2>1, <2>5, <2>7, <3>1
        <3> QED
            BY <2>6, <2>7, <3>2, <3>3, <3>4, FS_EmptySet DEF Owes, Writes
    <2>10. ASSUME NEW d \in Broadcasts \ {c} PROVE Owes(d)' /\ Writes(d)'
        <3>1. todo'[d] = todo[d] /\ eligible'[d] = eligible[d] /\ pc'[d] = pc[d]
            BY <2>3, <2>4, <2>6 DEF MailingsTypeOK
        <3>2. Outstanding(d)' = Outstanding(d)
            BY <3>1 DEF Outstanding
        <3> QED
            BY <2>1, <3>1, <3>2 DEF Owes, Writes
    <2> QED
        BY <2>8, <2>9, <2>10
<1>2. ASSUME NEW c \in Broadcasts, CreateBroadcast(c) PROVE MailInv'
    BY <1>2 DEF CreateBroadcast, Goto, MovesTo, MailingsTypeOK, Owes, Writes, Outstanding, Ended
<1>3. ASSUME NEW c \in Broadcasts, StoreCount(c) PROVE MailInv'
    BY <1>3 DEF StoreCount, Goto, MovesTo, MailingsTypeOK, Owes, Writes, Outstanding, Ended
<1>4. ASSUME NEW c \in Broadcasts, BroadcastCutShort(c) PROVE MailInv'
    <2>1. /\ UNCHANGED mailVars /\ pc[c] \in {"create", "mail"}
          /\ pc'[c] \in {"dead", "refused"}
          /\ \A d \in Broadcasts \ {c} : pc'[d] = pc[d]
        BY <1>4 DEF BroadcastCutShort, CutShort, MovesTo, Busy, Started, Ended, MailingsTypeOK
    <2>2. MailingsTypeOK'
        BY <2>1 DEF MailingsTypeOK, mailVars, Ended
    <2>3. ASSUME NEW d \in Broadcasts PROVE Owes(d)'
        BY <2>1 DEF Owes, Outstanding, mailVars
    <2>4. ASSUME NEW d \in Broadcasts \ {c} PROVE Writes(d)'
        BY <2>1 DEF Writes, mailVars
    <2>5. Writes(c)'
        <3>1. sentCount[c] <= 0
            BY <2>1 DEF Writes
        <3> QED
            BY <2>1, <3>1 DEF Writes, mailVars
    <2> QED
        BY <2>2, <2>3, <2>4, <2>5
<1>5. ASSUME NEW s \in Sales, SaleMoves(s) PROVE MailInv'
    BY <1>5 DEF SaleMoves, requestVars, MailingsTypeOK, Owes, Writes, Outstanding
<1>6. ASSUME NEW c \in Broadcasts, NEW s \in Sales, NEW outcome \in PostmarkOutcomes,
             MailOne(c, s, outcome)
      PROVE  MailInv'
    <2> DEFINE b == BuyerOf[s]
    <2>1. /\ pc[c] = "mail" /\ s \in todo[c] /\ UNCHANGED <<requestVars, sale, sentCount, eligible>>
          /\ todo' = [todo EXCEPT ![c] = todo[c] \ {s}]
          /\ inbox' = IF outcome = "delivered"
                      THEN [inbox EXCEPT ![c] = [inbox[c] EXCEPT ![b] = inbox[c][b] + 1]] ELSE inbox
          /\ sent' = IF outcome # "thrown" THEN [sent EXCEPT ![c] = sent[c] + 1] ELSE sent
          /\ thrown' = IF outcome = "thrown" THEN [thrown EXCEPT ![c] = thrown[c] \cup {b}] ELSE thrown
        BY <1>6 DEF MailOne
    <2>2. /\ b \in Mailers /\ b \in Outstanding(c) /\ b \in eligible[c] /\ b \notin thrown[c]
          /\ inbox[c][b] <= 0 /\ inbox[c][b] \in Nat
        <3>1. s \in Sales /\ b \in Mailers /\ b \in Outstanding(c)
            BY <2>1 DEF Mailers, Outstanding
        <3>2. b \in eligible[c] /\ b \notin thrown[c]
            BY <3>1 DEF Owes
        <3>3. inbox[c] \in [Mailers -> Nat]
            BY DEF MailingsTypeOK
        <3>4. b \notin eligible[c] \ Outstanding(c)
            BY <3>1
        <3>5. inbox[c][b] <= 0
            BY <3>1, <3>4 DEF Owes
        <3> QED
            BY <3>1, <3>2, <3>3, <3>5
    <2>3. Outstanding(c)' = Outstanding(c) \ {b}
        <3>1. todo'[c] = todo[c] \ {s}
            BY <2>1 DEF MailingsTypeOK
        <3>2. \A t \in todo[c] : BuyerOf[t] = b => t = s
            BY <2>1 DEF Owes
        <3> QED
            BY <3>1, <3>2 DEF Outstanding
    <2>4. MailingsTypeOK'
        BY <2>1, <2>2 DEF MailingsTypeOK, requestVars
    <2>5. ASSUME NEW d \in Broadcasts \ {c} PROVE Owes(d)' /\ Writes(d)'
        <3>1. /\ todo'[d] = todo[d] /\ eligible'[d] = eligible[d] /\ pc'[d] = pc[d]
              /\ inbox'[d] = inbox[d] /\ sent'[d] = sent[d] /\ thrown'[d] = thrown[d]
              /\ sentCount'[d] = sentCount[d]
            BY <2>1 DEF MailingsTypeOK, requestVars
        <3>2. Outstanding(d)' = Outstanding(d)
            BY <3>1 DEF Outstanding
        <3> QED
            BY <3>1, <3>2 DEF Owes, Writes
    <2>6. Writes(c)'
        BY <2>1 DEF Writes, requestVars
    <2>7. Owes(c)'
        <3> DEFINE S == (eligible[c] \ thrown[c]) \ Outstanding(c)
        <3>1. todo'[c] \subseteq todo[c] /\ eligible'[c] = eligible[c]
            BY <2>1 DEF MailingsTypeOK
        <3>2. \A a \in Mailers :
                inbox'[c][a] <= (IF a \in eligible'[c] \ Outstanding(c)' THEN 1 ELSE 0)
            <4> SUFFICES ASSUME NEW a \in Mailers
                         PROVE  inbox'[c][a] <= (IF a \in eligible'[c] \ Outstanding(c)' THEN 1 ELSE 0)
                OBVIOUS
            <4>1. inbox[c] \in [Mailers -> Nat]
                BY DEF MailingsTypeOK
            <4>2. inbox[c][a] <= (IF a \in eligible[c] \ Outstanding(c) THEN 1 ELSE 0)
                BY DEF Owes
            <4>3. inbox'[c] \in {inbox[c], [inbox[c] EXCEPT ![b] = inbox[c][b] + 1]}
                BY <2>1 DEF MailingsTypeOK
            <4>4. CASE a = b
                BY <2>2, <2>3, <3>1, <4>1, <4>3, <4>4
            <4>5. CASE a # b
                <5>1. inbox'[c][a] = inbox[c][a]
                    BY <4>1, <4>3, <4>5
                <5> QED
                    BY <2>3, <3>1, <4>2, <4>5, <5>1
            <4> QED
                BY <4>4, <4>5
        <3>3. S \in SUBSET Mailers /\ IsFiniteSet(S) /\ b \notin S
            BY <2>2, MailersAreFinite DEF MailingsTypeOK
        <3>4. CASE outcome = "thrown"
            <4>1. thrown'[c] = thrown[c] \cup {b} /\ sent'[c] = sent[c]
                BY <2>1, <3>4 DEF MailingsTypeOK
            <4>2. ((eligible[c] \ thrown[c]) \ Outstanding(c))' = S
                BY <2>2, <2>3, <3>1, <4>1
            <4> QED
                BY <2>2, <2>3, <3>1, <3>2, <4>1, <4>2 DEF Owes
        <3>5. CASE outcome # "thrown"
            <4>1. thrown'[c] = thrown[c] /\ sent'[c] = sent[c] + 1
                BY <2>1, <3>5 DEF MailingsTypeOK
            <4>2. ((eligible[c] \ thrown[c]) \ Outstanding(c))' = S \cup {b}
                BY <2>2, <2>3, <3>1, <4>1
            <4>3. Cardinality(S \cup {b}) = Cardinality(S) + 1
                BY <3>3, FS_AddElement
            <4> QED
                BY <2>2, <2>3, <3>1, <3>2, <4>1, <4>2, <4>3 DEF Owes
        <3> QED
            BY <3>4, <3>5
    <2> QED
        BY <2>4, <2>5, <2>6, <2>7
<1> QED
    BY <1>1, <1>2, <1>3, <1>4, <1>5, <1>6 DEF MailingsNext

LEMMA MailInductive == MailInv /\ [Next]_vars => MailInv'
<1> SUFFICES ASSUME MailInv, [Next]_vars PROVE MailInv'
    OBVIOUS
<1>1. CASE UNCHANGED vars
    BY <1>1 DEF MailInv, MailingsTypeOK, Owes, Writes, Outstanding, vars, mailVars, requestVars
<1>2. CASE Next
    <2>1. PICK i \in 1..9 : StepOf(i)
        BY <1>2, StepsOfParts
    <2>2. CASE i = 5
        BY <2>1, <2>2, MailStep DEF StepOf
    <2>3. CASE i # 5
        <3>1. \A c \in Broadcasts : pc'[c] = pc[c]
            BY <2>1, <2>3, PartsByNumber, MailingsAssumption, OthersAreIdle
        <3>2. UNCHANGED mailVars
            BY <2>1, <2>3 DEF StepOf
        <3> QED
            BY <3>1, <3>2 DEF MailInv, MailingsTypeOK, Owes, Writes, Outstanding, mailVars
    <2> QED
        BY <2>2, <2>3
<1> QED
    BY <1>1, <1>2

(* BroadcastsService.send writes once to every buyer who had paid when it  *)
(* began, and its row counts the mails that Postmark was given, however    *)
(* many broadcasts run at once and wherever one is cut short.              *)
THEOREM BroadcastsAlwaysCount == Spec => []BroadcastCounts
<1>1. ASSUME MailInv PROVE BroadcastCounts
    <2> SUFFICES ASSUME NEW c \in Broadcasts
                 PROVE  /\ \A b \in Mailers : inbox[c][b] <= (IF b \in eligible[c] THEN 1 ELSE 0)
                        /\ pc[c] = "done" => sentCount[c] = Cardinality(eligible[c] \ thrown[c])
                        /\ pc[c] # "done" => sentCount[c] <= 0
        BY DEF BroadcastCounts
    <2>1. \A b \in Mailers : inbox[c][b] \in Nat
        BY <1>1 DEF MailInv, MailingsTypeOK
    <2>2. pc[c] \in {"idle", "create", "mail", "done", "refused", "dead"}
        BY <1>1 DEF MailInv, MailingsTypeOK, Ended
    <2>3. pc[c] = "done" => (eligible[c] \ thrown[c]) \ Outstanding(c) = eligible[c] \ thrown[c]
        BY <1>1 DEF MailInv, Writes, Outstanding
    <2>4. ASSUME NEW b \in Mailers PROVE inbox[c][b] <= (IF b \in eligible[c] THEN 1 ELSE 0)
        <3>1. inbox[c][b] <= (IF b \in eligible[c] \ Outstanding(c) THEN 1 ELSE 0)
            BY <1>1 DEF MailInv, Owes
        <3> QED
            BY <2>1, <3>1
    <2>5. pc[c] = "done" => sentCount[c] = Cardinality(eligible[c] \ thrown[c])
        BY <1>1, <2>3 DEF MailInv, Owes, Writes
    <2>6. pc[c] # "done" => sentCount[c] <= 0
        BY <1>1, <2>2 DEF MailInv, Writes
    <2> QED
        BY <2>4, <2>5, <2>6
<1> QED
    BY <1>1, MailInit, MailInductive, PTL DEF Spec
-------------------------------------------------------------------------------
(* The map of a ticket type.                                               *)
Editing(e) == pc[e] \in {"delete", "create"}

(* Edits that take turns have the map for themselves: nobody holds a seat  *)
(* meanwhile, and what an edit has locked is the whole map.                *)
EditsTakeTurns ==
    ~overlapped =>
        /\ \A d, e \in Editors : Editing(d) /\ Editing(e) => d = e
        /\ \A e \in Editors : Editing(e) => Reshapable
        /\ \A e \in Editors : pc[e] = "create" => doomed[e] = Present

(* Only an order that is pending holds seats, only a paid one has bought   *)
(* some.                                                                   *)
OrderOwns(o) ==
    /\ ticket[o] # "none" => pc[o] = "done"
    /\ ticket[o] # "PENDING" => SeatsOf("HELD", o) = {}
    /\ ticket[o] # "PAID" => SeatsOf("SOLD", o) = {}

SeatInv == SeatMapsTypeOK /\ EditsTakeTurns /\ (\A o \in Buyers : OrderOwns(o)) /\ MapKept

LEMMA RowsDiffer ==
    /\ Free # Gone
    /\ \A st \in {"HELD", "SOLD"}, o \in Buyers : Taken(st, o) \notin {Gone, Free}
    /\ \A st1, st2 \in {"HELD", "SOLD"}, o, p \in Buyers :
            Taken(st1, o) = Taken(st2, p) => st1 = st2 /\ o = p
<1>1. Gone.state = "gone" /\ Free.state = "AVAILABLE"
    BY DEF Gone, Free
<1>2. \A st \in {"HELD", "SOLD"}, o \in Buyers : Taken(st, o).state = st /\ Taken(st, o).order = o
    BY DEF Taken
<1>3. Free # Gone
    BY <1>1
<1>4. ASSUME NEW st \in {"HELD", "SOLD"}, NEW o \in Buyers PROVE Taken(st, o) \notin {Gone, Free}
    BY <1>1, <1>2
<1>5. ASSUME NEW st1 \in {"HELD", "SOLD"}, NEW st2 \in {"HELD", "SOLD"}, NEW o \in Buyers,
             NEW p \in Buyers, Taken(st1, o) = Taken(st2, p)
      PROVE  st1 = st2 /\ o = p
    BY <1>2, <1>5
<1> QED
    BY <1>3, <1>4, <1>5

(* Rows that are given another state stay rows.                            *)
LEMMA ReseatedRows ==
    ASSUME NEW S \in SUBSET Present, NEW v, v # Gone, Reseat(S, v)
    PROVE  Present' = Present
    BY DEF Present, Reseat

LEMMA ReseatedOrders ==
    ASSUME NEW S \in SUBSET Seats, NEW v, Reseat(S, v), NEW st, NEW p
    PROVE  /\ v = Taken(st, p) => SeatsOf(st, p)' = SeatsOf(st, p) \cup S
           /\ v # Taken(st, p) => SeatsOf(st, p)' = SeatsOf(st, p) \ S
    BY DEF SeatsOf, Reseat

LEMMA SeatInit == Init => SeatInv
<1> SUFFICES ASSUME Init PROVE SeatInv
    OBVIOUS
<1>1. \A c \in Editors \cup Buyers : pc[c] = "idle"
    BY SeatMapsAssumption DEF Init, RequestsInit
<1>2. SeatMapsTypeOK
    BY <1>1 DEF Init, SeatMapsInit, SeatMapsTypeOK
<1>3. Present = {}
    BY DEF Init, SeatMapsInit, Present
<1>4. OneMap
    BY <1>3, FS_EmptySet DEF OneMap
<1>5. EditsTakeTurns
    BY <1>1 DEF EditsTakeTurns, Editing
<1>6. \A o \in Buyers : SeatsOf("HELD", o) = {} /\ SeatsOf("SOLD", o) = {} /\ ticket[o] = "none"
    BY RowsDiffer DEF Init, SeatMapsInit, SeatsOf
<1> QED
    BY <1>2, <1>4, <1>5, <1>6 DEF SeatInv, OrderOwns, MapKept, OrdersKeepSeats

(* A step of a buyer, taken while no edit has the map for itself.          *)
LEMMA TurnsPass ==
    ASSUME SeatInv, \A e \in Editors : pc'[e] = pc[e], overlapped => overlapped',
           ~overlapped' => \A e \in Editors : ~Editing(e)
    PROVE  EditsTakeTurns'
    BY DEF EditsTakeTurns, Editing, SeatInv

(* An order with a seat stops every edit that takes turns.                 *)
LEMMA OwnersStopEdits ==
    ASSUME SeatInv, NEW o \in Buyers, ticket[o] \in {"PENDING", "PAID"}, ~overlapped
    PROVE  \A e \in Editors : ~Editing(e)
<1>1. PICK st \in {"HELD", "SOLD"} : SeatsOf(st, o) = {chosen[o]}
    BY DEF SeatInv, MapKept, OrdersKeepSeats
<1>2. chosen[o] \in Seats /\ seatRow[chosen[o]] = Taken(st, o)
    BY <1>1 DEF SeatsOf
<1>3. chosen[o] \in Present /\ seatRow[chosen[o]] # Free
    BY <1>2, RowsDiffer DEF Present
<1> QED
    BY <1>3 DEF SeatInv, EditsTakeTurns, Reshapable

(* The seats of an order that is paid, expires or is refunded: those of    *)
(* state st are given v, and its status becomes to.                        *)
LEMMA SeatsPassOn ==
    ASSUME SeatInv, NEW o \in Buyers, NEW st \in {"HELD", "SOLD"}, NEW v,
           NEW to \in {"PAID", "EXPIRED", "REFUNDED"},
           v = (IF to = "PAID" THEN Taken("SOLD", o) ELSE Free),
           st = (IF to = "REFUNDED" THEN "SOLD" ELSE "HELD"),
           ticket[o] = (IF st = "HELD" THEN "PENDING" ELSE "PAID"),
           ticket' = [ticket EXCEPT ![o] = to], Reseat(SeatsOf(st, o), v),
           UNCHANGED <<requestVars, chosen, doomed>>
    PROVE  SeatInv'
<1> DEFINE S == SeatsOf(st, o)
<1>1. S \in SUBSET Seats /\ S \in SUBSET Present /\ v # Gone
    BY RowsDiffer DEF SeatsOf, Present
<1>2. SeatMapsTypeOK'
    <2>1. v \in {Gone, Free} \cup [state : {"HELD", "SOLD"}, order : Buyers]
        BY DEF Taken
    <2>2. seatRow' \in [Seats -> {Gone, Free} \cup [state : {"HELD", "SOLD"}, order : Buyers]]
        BY <2>1 DEF Reseat, SeatInv, SeatMapsTypeOK
    <2> QED
        BY <2>2 DEF SeatInv, SeatMapsTypeOK, requestVars
<1>3. EditsTakeTurns'
    BY OwnersStopEdits, TurnsPass DEF requestVars
<1>4. OneMap'
    BY <1>1, ReseatedRows DEF SeatInv, MapKept, OneMap, requestVars
<1>5. ASSUME NEW p \in Buyers \ {o}, NEW t \in {"HELD", "SOLD"}
      PROVE  SeatsOf(t, p)' = SeatsOf(t, p)
    <2>1. v # Taken(t, p)
        BY RowsDiffer
    <2>2. SeatsOf(t, p) \cap S = {}
        BY RowsDiffer DEF SeatsOf
    <2>3. Reseat(S, v)
        OBVIOUS
    <2> HIDE DEF S
    <2>4. SeatsOf(t, p)' = SeatsOf(t, p) \ S
        BY <1>1, <2>1, <2>3, ReseatedOrders
    <2> QED
        BY <2>2, <2>4
<1>6. \A p \in Buyers \ {o} : ticket'[p] = ticket[p]
    BY DEF SeatInv, SeatMapsTypeOK
<1>7. ticket'[o] = to
    BY DEF SeatInv, SeatMapsTypeOK
<1>8. /\ SeatsOf("HELD", o)' = {}
      /\ SeatsOf("SOLD", o)' = IF to = "PAID" THEN SeatsOf("HELD", o) ELSE {}
    <2>1. CASE to = "PAID"
        <3>1. v = Taken("SOLD", o) /\ v # Taken("HELD", o) /\ S = SeatsOf("HELD", o)
            BY <2>1, RowsDiffer
        <3>2. SeatsOf("SOLD", o) = {}
            BY <2>1 DEF SeatInv, OrderOwns
        <3>3. SeatsOf("HELD", o)' = SeatsOf("HELD", o) \ S
            BY <1>1, <3>1, ReseatedOrders
        <3>4. SeatsOf("SOLD", o)' = SeatsOf("SOLD", o) \cup S
            BY <1>1, <3>1, ReseatedOrders
        <3> QED
            BY <2>1, <3>1, <3>2, <3>3, <3>4
    <2>2. CASE to # "PAID"
        <3>1. v # Taken("SOLD", o) /\ v # Taken("HELD", o)
            BY <2>2, RowsDiffer
        <3>2. (st = "HELD" => SeatsOf("SOLD", o) = {}) /\ (st = "SOLD" => SeatsOf("HELD", o) = {})
            BY DEF SeatInv, OrderOwns
        <3>3. SeatsOf("HELD", o)' = SeatsOf("HELD", o) \ S
            BY <1>1, <3>1, ReseatedOrders
        <3>4. SeatsOf("SOLD", o)' = SeatsOf("SOLD", o) \ S
            BY <1>1, <3>1, ReseatedOrders
        <3> QED
            BY <2>2, <3>2, <3>3, <3>4
    <2> QED
        BY <2>1, <2>2
<1>9. \A p \in Buyers : OrderOwns(p)'
    <2>1. ASSUME NEW p \in Buyers \ {o} PROVE OrderOwns(p)'
        BY <1>5, <1>6 DEF SeatInv, OrderOwns, requestVars
    <2>2. OrderOwns(o)'
        BY <1>7, <1>8 DEF SeatInv, OrderOwns, requestVars
    <2> QED
        BY <2>1, <2>2
<1>10. OrdersKeepSeats'
    <2> SUFFICES ASSUME ~overlapped, NEW p \in Buyers
                 PROVE  /\ ticket'[p] = "PENDING" => SeatsOf("HELD", p)' = {chosen[p]}
                        /\ ticket'[p] = "PAID" => SeatsOf("SOLD", p)' = {chosen[p]}
        BY DEF OrdersKeepSeats, requestVars
    <2>1. CASE p # o
        BY <1>5, <1>6, <2>1 DEF SeatInv, MapKept, OrdersKeepSeats
    <2>2. CASE p = o
        BY <1>7, <1>8, <2>2 DEF SeatInv, MapKept, OrdersKeepSeats
    <2> QED
        BY <2>1, <2>2
<1> QED
    BY <1>2, <1>3, <1>4, <1>9, <1>10 DEF SeatInv, MapKept
LEMMA SeatHeld ==
    ASSUME SeatInv, NEW o \in Buyers, HoldSeat(o)
    PROVE  SeatInv'
<1> DEFINE s == chosen[o]
<1>1. s \in Seats /\ UNCHANGED <<chosen, doomed>>
    BY DEF HoldSeat, SeatInv, SeatMapsTypeOK
<1>2. CASE seatRow[s] # Free
    <2>1. /\ UNCHANGED <<seatVars, failures>> /\ pc[o] = "idle" /\ pc'[o] = "refused"
          /\ overlapped => overlapped'
          /\ \A c \in (Editors \cup Buyers) \ {o} : pc'[c] = pc[c]
        BY <1>2, SeatMapsAssumption DEF HoldSeat, Begin, MovesTo, seatVars
    <2>2. SeatMapsTypeOK'
        BY <2>1, SeatMapsAssumption DEF SeatInv, SeatMapsTypeOK, seatVars, Ended
    <2>3. \A e \in Editors : pc'[e] = pc[e]
        BY <2>1, SeatMapsAssumption
    <2>4. Reshapable' = Reshapable /\ Present' = Present
        BY <2>1 DEF Reshapable, Present, seatVars
    <2>5. EditsTakeTurns'
        BY <2>1, <2>3, <2>4 DEF SeatInv, EditsTakeTurns, Editing, seatVars
    <2>6. \A p \in Buyers : OrderOwns(p)'
        BY <2>1 DEF SeatInv, OrderOwns, SeatsOf, seatVars
    <2>7. MapKept'
        BY <2>1, <2>4 DEF SeatInv, MapKept, OneMap, OrdersKeepSeats, SeatsOf, seatVars
    <2> QED
        BY <2>2, <2>5, <2>6, <2>7 DEF SeatInv
<1>3. CASE seatRow[s] = Free
    <2>1. /\ Reseat({s}, Taken("HELD", o)) /\ ticket' = [ticket EXCEPT ![o] = "PENDING"]
          /\ pc[o] = "idle" /\ pc'[o] = "done" /\ overlapped' = (overlapped \/ Busy # {})
          /\ \A c \in (Editors \cup Buyers) \ {o} : pc'[c] = pc[c]
        BY <1>3, SeatMapsAssumption DEF HoldSeat, Begin, MovesTo
    <2>2. /\ {s} \in SUBSET Seats /\ {s} \in SUBSET Present /\ Taken("HELD", o) # Gone
        BY <1>1, <1>3, RowsDiffer DEF Present
    <2>3. SeatMapsTypeOK'
        <3>1. Taken("HELD", o) \in {Gone, Free} \cup [state : {"HELD", "SOLD"}, order : Buyers]
            BY DEF Taken
        <3>2. seatRow' \in [Seats -> {Gone, Free} \cup [state : {"HELD", "SOLD"}, order : Buyers]]
            BY <2>1, <3>1 DEF Reseat, SeatInv, SeatMapsTypeOK
        <3>3. ticket' \in [Buyers -> {"none", "PENDING", "PAID", "EXPIRED", "REFUNDED"}]
            BY <2>1 DEF SeatInv, SeatMapsTypeOK
        <3> QED
            BY <1>1, <2>1, <3>2, <3>3, SeatMapsAssumption DEF SeatInv, SeatMapsTypeOK, Ended
    <2>4. EditsTakeTurns'
        <3>1. \A e \in Editors : pc'[e] = pc[e]
            BY <2>1, SeatMapsAssumption
        <3>2. ~overlapped' => \A e \in Editors : ~Editing(e)
            BY <2>1, SeatMapsAssumption DEF Editing, Busy, Started, Ended
        <3> QED
            BY <2>1, <3>1, <3>2, TurnsPass
    <2>5. OneMap'
        BY <2>1, <2>2, ReseatedRows DEF SeatInv, MapKept, OneMap
    <2>6. ASSUME NEW p \in Buyers, NEW t \in {"HELD", "SOLD"}
          PROVE  SeatsOf(t, p)' = IF p = o /\ t = "HELD" THEN SeatsOf(t, p) \cup {s}
                                                         ELSE SeatsOf(t, p)
        <3>1. s \notin SeatsOf(t, p)
            BY <1>3, RowsDiffer DEF SeatsOf
        <3>2. Taken("HELD", o) = Taken(t, p) <=> (p = o /\ t = "HELD")
            BY RowsDiffer
        <3> QED
            BY <2>1, <2>2, <3>1, <3>2, ReseatedOrders
    <2>7. ticket[o] = "none" /\ SeatsOf("HELD", o) = {} /\ SeatsOf("SOLD", o) = {}
        BY <2>1 DEF SeatInv, OrderOwns
    <2>8. ticket'[o] = "PENDING" /\ \A p \in Buyers \ {o} : ticket'[p] = ticket[p]
        BY <2>1 DEF SeatInv, SeatMapsTypeOK
    <2>9. ASSUME NEW p \in Buyers PROVE OrderOwns(p)'
        BY <2>1, <2>6, <2>7, <2>8 DEF SeatInv, OrderOwns
    <2>10. OrdersKeepSeats'
        <3> SUFFICES ASSUME ~overlapped', NEW p \in Buyers
                     PROVE  /\ ticket'[p] = "PENDING" => SeatsOf("HELD", p)' = {chosen[p]}
                            /\ ticket'[p] = "PAID" => SeatsOf("SOLD", p)' = {chosen[p]}
            BY <1>1 DEF OrdersKeepSeats
        <3>1. CASE p # o
            BY <2>1, <2>6, <2>8, <3>1 DEF SeatInv, MapKept, OrdersKeepSeats
        <3>2. CASE p = o
            BY <2>6, <2>7, <2>8, <3>2
        <3> QED
            BY <3>1, <3>2
    <2> QED
        BY <2>3, <2>4, <2>5, <2>9, <2>10 DEF SeatInv, MapKept
<1> QED
    BY <1>2, <1>3

LEMMA SeatChosen ==
    ASSUME SeatInv, NEW o \in Buyers, ChooseSeat(o)
    PROVE  SeatInv'
<1>1. PICK s \in Present : seatRow[s] = Free /\ chosen' = [chosen EXCEPT ![o] = s]
    BY DEF ChooseSeat
<1>2. pc[o] = "idle" /\ UNCHANGED <<pc, failures, overlapped, seatRow, ticket, doomed>>
    BY DEF ChooseSeat, requestVars
<1>3. s \in Seats /\ ticket[o] = "none"
    BY <1>1, <1>2 DEF Present, SeatInv, OrderOwns
<1>4. SeatMapsTypeOK'
    BY <1>1, <1>2, <1>3 DEF SeatInv, SeatMapsTypeOK
<1>5. Present' = Present /\ Reshapable' = Reshapable
    BY <1>2 DEF Present, Reshapable
<1>6. EditsTakeTurns' /\ OneMap'
    BY <1>2, <1>5 DEF SeatInv, EditsTakeTurns, Editing, MapKept, OneMap
<1>7. \A p \in Buyers : OrderOwns(p)'
    BY <1>2 DEF SeatInv, OrderOwns, SeatsOf
<1>8. OrdersKeepSeats'
    <2>1. \A p \in Buyers : ticket[p] # "none" => chosen'[p] = chosen[p]
        BY <1>1, <1>3 DEF SeatInv, SeatMapsTypeOK
    <2> QED
        BY <1>2, <2>1 DEF SeatInv, MapKept, OrdersKeepSeats, SeatsOf
<1> QED
    BY <1>4, <1>6, <1>7, <1>8 DEF SeatInv, MapKept

(* A new map has as many rows as its layout has labels.                    *)
LEMMA LayoutRows ==
    ASSUME NEW e, NEW L \in Layouts
    PROVE  Cardinality({e} \X L) = SeatCapacity
<1> DEFINE f == [l \in L |-> <<e, l>>]
<1>1. IsFiniteSet(L) /\ Cardinality(L) = SeatCapacity
    BY SeatMapsAssumption, FS_Subset DEF Layouts
<1>2. f \in Bijection(L, {e} \X L)
    <2>1. f \in [L -> {e} \X L]
        OBVIOUS
    <2>2. \A a, b \in L : f[a] = f[b] => a = b
        OBVIOUS
    <2>3. \A t \in {e} \X L : \E a \in L : f[a] = t
        OBVIOUS
    <2> QED
        BY <2>1, <2>2, <2>3 DEF Bijection, Injection, Surjection, IsInjective
<1> QED
    BY <1>1, <1>2, FS_Bijection DEF ExistsBijection

(* What a new map leaves to the orders: a seat that it keeps, or none.     *)
LEMMA MapCreated ==
    ASSUME SeatInv, NEW e \in Editors, CreateSeats(e)
    PROVE  SeatInv'
<1>1. PICK L \in Layouts :
        IF \E s \in Kept(e) : s[2] \in L
        THEN Goto(e, "refused") /\ UNCHANGED seatRow
        ELSE /\ Goto(e, "done")
             /\ seatRow' = [s \in Seats |->
                    CASE s \in {e} \X L -> Free
                      [] s \in Kept(e) \ ({e} \X L) -> seatRow[s]
                      [] OTHER -> Gone]
    BY DEF CreateSeats
<1>2. /\ pc[e] = "create" /\ pc'[e] \in {"done", "refused"} /\ UNCHANGED <<failures, overlapped>>
      /\ \A c \in (Editors \cup Buyers) \ {e} : pc'[c] = pc[c]
      /\ doomed' = [doomed EXCEPT ![e] = {}] /\ UNCHANGED <<chosen, ticket>>
    BY <1>1, SeatMapsAssumption DEF CreateSeats, Goto, MovesTo
<1>3. L \subseteq Labels /\ {e} \X L \subseteq Seats
    BY DEF Layouts, Seats
<1>4. \A s \in Seats : seatRow'[s] \in {Free, Gone, seatRow[s]}
    BY <1>1 DEF SeatInv, SeatMapsTypeOK
<1>5. SeatMapsTypeOK'
    <2>1. seatRow' \in [Seats -> {Gone, Free} \cup [state : {"HELD", "SOLD"}, order : Buyers]]
        <3>1. DOMAIN seatRow' = Seats /\ seatRow' = [s \in Seats |-> seatRow'[s]]
            BY <1>1 DEF SeatInv, SeatMapsTypeOK
        <3> QED
            BY <1>4, <3>1 DEF SeatInv, SeatMapsTypeOK
    <2> QED
        BY <1>2, <2>1 DEF SeatInv, SeatMapsTypeOK, Ended
<1>6. \A o \in Buyers : pc'[o] = pc[o]
    BY <1>2, SeatMapsAssumption
<1>7. ASSUME NEW o \in Buyers, NEW t \in {"HELD", "SOLD"}
      PROVE  SeatsOf(t, o)' \subseteq SeatsOf(t, o)
    BY <1>4, RowsDiffer DEF SeatsOf
<1>8. \A o \in Buyers : OrderOwns(o)'
    BY <1>2, <1>6, <1>7 DEF SeatInv, OrderOwns
<1>9. ASSUME ~overlapped PROVE (\A d \in Editors : ~Editing(d)') /\ Kept(e) = {}
    <2>1. \A d \in Editors \ {e} : ~Editing(d)
        BY <1>2, <1>9 DEF SeatInv, EditsTakeTurns, Editing
    <2>2. doomed[e] = Present
        BY <1>2, <1>9 DEF SeatInv, EditsTakeTurns
    <2> QED
        BY <1>2, <2>1, <2>2 DEF Editing, Kept
<1>10. EditsTakeTurns'
    BY <1>2, <1>9 DEF EditsTakeTurns, Editing
<1>11. OneMap'
    <2> SUFFICES ASSUME ~overlapped PROVE Cardinality(Present') \in {0, SeatCapacity}
        BY <1>2 DEF OneMap
    <2>1. seatRow' = [s \in Seats |-> CASE s \in {e} \X L -> Free
                                        [] s \in Kept(e) \ ({e} \X L) -> seatRow[s]
                                        [] OTHER -> Gone]
        BY <1>1, <1>9
    <2>2. \A s \in Seats : seatRow'[s] = IF s \in {e} \X L THEN Free ELSE Gone
        BY <1>9, <2>1
    <2>3. Present' = {e} \X L
        BY <1>3, <2>2, RowsDiffer DEF Present
    <2> QED
        BY <2>3, LayoutRows
<1>12. OrdersKeepSeats'
    BY <1>2, OwnersStopEdits DEF OrdersKeepSeats, Editing
<1> QED
    BY <1>5, <1>8, <1>10, <1>11, <1>12 DEF SeatInv, MapKept

LEMMA SeatStep ==
    ASSUME SeatInv, SeatMapsNext
    PROVE  SeatInv'
<1>1. ASSUME NEW e \in Editors, ReadSeats(e) PROVE SeatInv'
    <2>1. /\ UNCHANGED seatVars /\ overlapped' = (overlapped \/ Busy # {}) /\ pc[e] = "idle"
          /\ pc'[e] = (IF Reshapable THEN "delete" ELSE "refused")
          /\ \A c \in (Editors \cup Buyers) \ {e} : pc'[c] = pc[c]
        BY <1>1, SeatMapsAssumption DEF ReadSeats, Begin, MovesTo
    <2>2. SeatMapsTypeOK'
        BY <2>1, SeatMapsAssumption DEF SeatInv, SeatMapsTypeOK, seatVars, Ended
    <2>3. Present' = Present /\ Reshapable' = Reshapable
        BY <2>1 DEF Present, Reshapable, seatVars
    <2>4. ~overlapped' => \A d \in Editors : ~Editing(d)
        BY <2>1, SeatMapsAssumption DEF Editing, Busy, Started, Ended
    <2>5. EditsTakeTurns'
        BY <2>1, <2>3, <2>4 DEF EditsTakeTurns, Editing
    <2>6. \A o \in Buyers : OrderOwns(o)'
        BY <2>1, SeatMapsAssumption DEF SeatInv, OrderOwns, SeatsOf, seatVars
    <2>7. MapKept'
        BY <2>1, <2>3 DEF SeatInv, MapKept, OneMap, OrdersKeepSeats, SeatsOf, seatVars
    <2> QED
        BY <2>2, <2>5, <2>6, <2>7 DEF SeatInv
<1>2. ASSUME NEW e \in Editors, DeleteSeats(e) PROVE SeatInv'
    <2>1. /\ UNCHANGED <<seatRow, chosen, ticket, overlapped>> /\ pc[e] = "delete"
          /\ pc'[e] = "create" /\ doomed' = [doomed EXCEPT ![e] = Present]
          /\ \A c \in (Editors \cup Buyers) \ {e} : pc'[c] = pc[c]
        BY <1>2, SeatMapsAssumption DEF DeleteSeats, Goto, MovesTo
    <2>2. Present \in SUBSET Seats
        BY DEF Present
    <2>3. SeatMapsTypeOK'
        BY <2>1, <2>2, SeatMapsAssumption DEF SeatInv, SeatMapsTypeOK
    <2>4. Present' = Present /\ Reshapable' = Reshapable
        BY <2>1 DEF Present, Reshapable
    <2>5. doomed'[e] = Present /\ \A d \in Editors \ {e} : doomed'[d] = doomed[d]
        BY <2>1 DEF SeatInv, SeatMapsTypeOK
    <2>6. EditsTakeTurns'
        BY <2>1, <2>4, <2>5 DEF SeatInv, EditsTakeTurns, Editing
    <2>7. \A o \in Buyers : OrderOwns(o)'
        BY <2>1, SeatMapsAssumption DEF SeatInv, OrderOwns, SeatsOf
    <2>8. MapKept'
        BY <2>1, <2>4 DEF SeatInv, MapKept, OneMap, OrdersKeepSeats, SeatsOf
    <2> QED
        BY <2>3, <2>6, <2>7, <2>8 DEF SeatInv
<1>3. ASSUME NEW e \in Editors, EditCutShort(e) PROVE SeatInv'
    <2>1. /\ UNCHANGED <<seatRow, chosen, ticket, overlapped>> /\ pc[e] # "idle"
          /\ pc'[e] = "dead" /\ doomed' = [doomed EXCEPT ![e] = {}]
          /\ \A c \in (Editors \cup Buyers) \ {e} : pc'[c] = pc[c]
        BY <1>3, SeatMapsAssumption DEF EditCutShort, CutShort, MovesTo, Busy, Started
    <2>2. SeatMapsTypeOK'
        BY <2>1, SeatMapsAssumption DEF SeatInv, SeatMapsTypeOK, Ended
    <2>3. Present' = Present /\ Reshapable' = Reshapable
        BY <2>1 DEF Present, Reshapable
    <2>4. \A d \in Editors \ {e} : doomed'[d] = doomed[d]
        BY <2>1 DEF SeatInv, SeatMapsTypeOK
    <2>5. EditsTakeTurns'
        BY <2>1, <2>3, <2>4 DEF SeatInv, EditsTakeTurns, Editing
    <2>6. \A o \in Buyers : OrderOwns(o)'
        BY <2>1, SeatMapsAssumption DEF SeatInv, OrderOwns, SeatsOf
    <2>7. MapKept'
        BY <2>1, <2>3 DEF SeatInv, MapKept, OneMap, OrdersKeepSeats, SeatsOf
    <2> QED
        BY <2>2, <2>5, <2>6, <2>7 DEF SeatInv
<1>4. ASSUME NEW o \in Buyers, SellSeats(o) PROVE SeatInv'
    BY <1>4, SeatsPassOn DEF SellSeats
<1>5. ASSUME NEW o \in Buyers, ReleaseSeats(o) PROVE SeatInv'
    BY <1>5, SeatsPassOn DEF ReleaseSeats
<1>6. ASSUME NEW o \in Buyers, VoidSeats(o) PROVE SeatInv'
    BY <1>6, SeatsPassOn DEF VoidSeats
<1> QED
    BY <1>1, <1>2, <1>3, <1>4, <1>5, <1>6, MapCreated, SeatHeld, SeatChosen DEF SeatMapsNext

LEMMA SeatInductive == SeatInv /\ [Next]_vars => SeatInv'
<1> SUFFICES ASSUME SeatInv, [Next]_vars PROVE SeatInv'
    OBVIOUS
<1> USE DEF SeatInv, SeatMapsTypeOK, EditsTakeTurns, Editing, Reshapable, OrderOwns, MapKept,
            OneMap, OrdersKeepSeats, SeatsOf, Present
<1>1. CASE UNCHANGED vars
    BY <1>1 DEF vars, seatVars, requestVars
<1>2. CASE Next
    <2>1. PICK i \in 1..9 : StepOf(i)
        BY <1>2, StepsOfParts
    <2>2. CASE i = 3
        BY <2>1, <2>2, SeatStep DEF StepOf
    <2>3. CASE i # 3
        <3>1. \A c \in Editors \cup Buyers : pc'[c] = pc[c] /\ pc[c] = "idle"
            BY <2>1, <2>3, PartsByNumber, SeatMapsAssumption, OthersAreIdle DEF SeatPart
        <3>2. UNCHANGED seatVars
            BY <2>1, <2>3 DEF StepOf
        <3>3. overlapped => overlapped'
            BY CountersStep DEF OverlapStays
        <3> QED
            BY <3>1, <3>2, <3>3 DEF seatVars
    <2> QED
        BY <2>2, <2>3
<1> QED
    BY <1>1, <1>2

(* SeatingService.setSeatMap and the holds of orders leave one map of as   *)
(* many rows as the ticket type has tickets, on which every order keeps    *)
(* the seat that it chose, for any number of edits and orders, as long as  *)
(* no edit began while another call was under way.                         *)
THEOREM MapAlwaysKept == Spec => []MapKept
<1>1. SeatInv => MapKept
    BY DEF SeatInv
<1> QED
    BY <1>1, SeatInit, SeatInductive, PTL DEF Spec
-------------------------------------------------------------------------------
(* The extras of orders.                                                   *)
AmountsOfOrders == [Orders -> 0..MaxAmount]

(* Where an order is tells what it has taken and whether it is billed.     *)
ExtrasOf(o) ==
    /\ pc[o] \in {"idle", "addOns", "findPromo", "claimPromo"} => o \notin claimed
    /\ pc[o] \in {"idle", "addOns", "findPromo", "claimPromo", "commit"} => orderStatus[o] = "none"
    /\ pc[o] \in {"assert", "charge"} => orderStatus[o] = "PENDING" /\ basket[o].corporate
    /\ pc[o] = "done" /\ orderStatus[o] = "PENDING" => ~basket[o].corporate
    /\ pc[o] \in {"findPromo", "claimPromo"} => basket[o].promo
    /\ pc[o] = "commit" \/ orderStatus[o] # "none" => (basket[o].promo => o \in claimed)
    /\ o \in claimed /\ orderStatus[o] = "none" =>
          \/ pc[o] \in {"commit", "dead"}
          \/ pc[o] = "refused" /\ (basket[o].points > 0 \/ basket[o].seats)

(* An order that has the API for itself: what it has read still holds.     *)
TakesItsTurn(o) ==
    /\ \A p \in Orders : pc[p] \in OrderSteps /\ pc[o] \in OrderSteps => p = o
    /\ pc[o] \in {"addOns", "findPromo", "claimPromo", "commit"} => seenSold[o] = addOnSold
    /\ pc[o] \in {"findPromo", "claimPromo", "commit"} => basket[o].addOns = 0 \/ AddOnsFit(o)
    /\ pc[o] = "charge" => TotalOf(KoboOf, Charged) + basket[o].kobo <= CreditLimit

ExtrasInv ==
    /\ ExtrasTypeOK
    /\ \A o \in Orders : ExtrasOf(o)
    /\ ~overlapped => \A o \in Orders : TakesItsTurn(o)
    /\ uses = Cardinality(claimed) /\ uses <= MaxUses
    /\ PointsConserved /\ AddOnsAccounted /\ CreditHolds

LEMMA OneAmount ==
    ASSUME NEW o, NEW n \in Nat
    PROVE  IsFiniteSet({o} \X (1..n)) /\ Cardinality({o} \X (1..n)) = n
<1> DEFINE f == [i \in 1..n |-> <<o, i>>]
<1>1. IsFiniteSet(1..n) /\ Cardinality(1..n) = n
    BY FS_Interval
<1>2. f \in Bijection(1..n, {o} \X (1..n))
    <2>1. f \in [1..n -> {o} \X (1..n)]
        OBVIOUS
    <2>2. \A a, b \in 1..n : f[a] = f[b] => a = b
        OBVIOUS
    <2>3. \A t \in {o} \X (1..n) : \E a \in 1..n : f[a] = t
        OBVIOUS
    <2> QED
        BY <2>1, <2>2, <2>3 DEF Bijection, Injection, Surjection, IsInjective
<1> QED
    BY <1>1, <1>2, FS_Bijection DEF ExistsBijection

(* An order that joins a sum adds its amount, once.                        *)
LEMMA SumGrows ==
    ASSUME NEW f \in AmountsOfOrders, NEW S \in SUBSET Orders, NEW o \in Orders \ S
    PROVE  /\ IsFiniteSet(Amounts(f, S)) => IsFiniteSet(Amounts(f, S \cup {o}))
           /\ IsFiniteSet(Amounts(f, S)) => TotalOf(f, S \cup {o}) = TotalOf(f, S) + f[o]
<1> SUFFICES ASSUME IsFiniteSet(Amounts(f, S))
             PROVE  /\ IsFiniteSet(Amounts(f, S \cup {o}))
                    /\ TotalOf(f, S \cup {o}) = TotalOf(f, S) + f[o]
    OBVIOUS
<1> DEFINE own == {o} \X (1..f[o])
<1>1. f[o] \in Nat /\ f[o] <= MaxAmount /\ MaxAmount \in Nat
    BY ExtrasAssumption DEF AmountsOfOrders
<1>2. IsFiniteSet(own) /\ Cardinality(own) = f[o]
    BY <1>1, OneAmount
<1>3. Amounts(f, S \cup {o}) = Amounts(f, S) \cup own
    <2>1. ASSUME NEW u \in Amounts(f, S \cup {o}) PROVE u \in Amounts(f, S) \cup own
        BY <1>1 DEF Amounts
    <2>2. Amounts(f, S) \subseteq Amounts(f, S \cup {o})
        BY DEF Amounts
    <2>3. own \subseteq Amounts(f, S \cup {o})
        BY <1>1 DEF Amounts
    <2> QED
        BY <2>1, <2>2, <2>3
<1>4. Amounts(f, S) \cap own = {}
    BY DEF Amounts
<1>5. Cardinality(Amounts(f, S)) \in Nat /\ Cardinality({}) = 0
    BY FS_CardinalityType, FS_EmptySet
<1> HIDE DEF own
<1>6. /\ IsFiniteSet(Amounts(f, S) \cup own)
      /\ Cardinality(Amounts(f, S) \cup own)
            = Cardinality(Amounts(f, S)) + Cardinality(own) - Cardinality(Amounts(f, S) \cap own)
    BY <1>2, FS_Union
<1>7. Cardinality(Amounts(f, S) \cup own) = Cardinality(Amounts(f, S)) + f[o]
    <2>1. Cardinality(Amounts(f, S) \cap own) = 0
        BY <1>4, <1>5
    <2> QED
        BY <1>1, <1>2, <1>5, <1>6, <2>1
<1> QED
    BY <1>3, <1>6, <1>7 DEF TotalOf

LEMMA SumsAreFinite ==
    ASSUME NEW f \in AmountsOfOrders
    PROVE  \A S \in SUBSET Orders : IsFiniteSet(Amounts(f, S)) /\ TotalOf(f, S) \in Nat
<1>1. IsFiniteSet(Orders \X (1..MaxAmount))
    <2>1. IsFiniteSet(Orders) /\ IsFiniteSet(1..MaxAmount)
        BY ExtrasAssumption, FS_Interval
    <2> QED
        BY <2>1, FS_Product
<1>2. ASSUME NEW S \in SUBSET Orders PROVE Amounts(f, S) \in SUBSET (Orders \X (1..MaxAmount))
    BY DEF Amounts
<1> QED
    BY <1>1, <1>2, FS_Subset, FS_CardinalityType DEF TotalOf

LEMMA SumShrinks ==
    ASSUME NEW f \in AmountsOfOrders, NEW S \in SUBSET Orders, NEW T \in SUBSET S
    PROVE  TotalOf(f, T) <= TotalOf(f, S)
<1>1. Amounts(f, T) \in SUBSET Amounts(f, S) /\ IsFiniteSet(Amounts(f, S))
    BY SumsAreFinite DEF Amounts
<1> QED
    BY <1>1, FS_Subset DEF TotalOf

LEMMA SumOfEqual ==
    ASSUME NEW f, NEW g, NEW S, \A o \in S : f[o] = g[o]
    PROVE  TotalOf(f, S) = TotalOf(g, S)
<1>1. Amounts(f, S) = Amounts(g, S)
    BY DEF Amounts
<1> QED
    BY <1>1 DEF TotalOf

(* The amounts of baskets are amounts.                                     *)
LEMMA AmountsTyped ==
    ASSUME ExtrasTypeOK
    PROVE  /\ AddOnsOf \in AmountsOfOrders /\ PointsOf \in AmountsOfOrders
           /\ KoboOf \in AmountsOfOrders
           /\ \A o \in Orders : Repeated(o) \in Nat /\ basket[o].line \in Nat
           /\ \A o \in Orders : /\ AddOnsOf[o] = basket[o].addOns /\ PointsOf[o] = basket[o].points
                                /\ KoboOf[o] = basket[o].kobo
                                /\ basket[o].addOns \in Nat /\ basket[o].points \in Nat
                                /\ basket[o].kobo \in Nat
<1>1. \A o \in Orders : /\ basket[o].addOns \in 0..MaxAmount /\ basket[o].points \in 0..MaxAmount
                        /\ basket[o].kobo \in 0..MaxAmount /\ basket[o].line \in 0..MaxAmount
                        /\ basket[o].line <= basket[o].addOns
    BY ExtrasAssumption DEF ExtrasTypeOK, Nothing
<1>2. \A o \in Orders : Repeated(o) \in Nat /\ basket[o].line \in Nat
    BY <1>1, ExtrasAssumption DEF Repeated
<1> QED
    BY <1>1, <1>2, ExtrasAssumption DEF AddOnsOf, PointsOf, KoboOf, AmountsOfOrders

LEMMA ClaimedAreCounted == \A S \in SUBSET Orders : IsFiniteSet(S) /\ Cardinality(S) \in Nat
    BY ExtrasAssumption, FS_Subset, FS_CardinalityType

LEMMA ExtrasAreInit == Init => ExtrasInv
<1> SUFFICES ASSUME Init PROVE ExtrasInv
    OBVIOUS
<1>1. \A o \in Orders : pc[o] = "idle"
    BY ExtrasAssumption DEF Init, RequestsInit
<1>2. ExtrasTypeOK
    BY <1>1, ExtrasAssumption DEF Init, ExtrasInit, ExtrasTypeOK
<1>3. Committed = {} /\ Charged = {}
    BY DEF Init, ExtrasInit, Committed, Charged
<1>4. \A f : TotalOf(f, {}) = 0
    <2>1. \A f : Amounts(f, {}) = {}
        BY DEF Amounts
    <2> QED
        BY <2>1, FS_EmptySet DEF TotalOf
<1>5. uses = Cardinality(claimed) /\ uses <= MaxUses
    BY ExtrasAssumption, FS_EmptySet DEF Init, ExtrasInit
<1>6. \A o \in Orders : ExtrasOf(o) /\ TakesItsTurn(o)
    BY <1>1 DEF Init, ExtrasInit, ExtrasOf, TakesItsTurn, OrderSteps
<1>7. PointsConserved /\ AddOnsAccounted /\ CreditHolds
    BY <1>3, <1>4, ExtrasAssumption
    DEF Init, ExtrasInit, PointsConserved, AddOnsAccounted, CreditHolds
<1> QED
    BY <1>2, <1>5, <1>6, <1>7 DEF ExtrasInv
(* What the steps that only move a call have in common.                    *)
LEMMA ExtrasMove ==
    ASSUME ExtrasInv, NEW o \in Orders, UNCHANGED <<extrasVars, overlapped>>,
           pc[o] \in OrderSteps, pc'[o] \in OrderSteps \cup Ended,
           \A p \in Orders \ {o} : pc'[p] = pc[p], ExtrasOf(o)',
           ~overlapped =>
                /\ pc'[o] \in {"addOns", "findPromo", "claimPromo", "commit"} =>
                        pc[o] \in {"addOns", "findPromo", "claimPromo", "commit"}
                /\ pc'[o] \in {"findPromo", "claimPromo", "commit"} =>
                        basket[o].addOns = 0 \/ AddOnsFit(o)
                /\ pc'[o] = "charge" => CreditAllows(o)
    PROVE  ExtrasInv'
<1> USE DEF extrasVars, promoVars
<1>1. ExtrasTypeOK'
    BY DEF ExtrasInv, ExtrasTypeOK
<1>2. ASSUME NEW p \in Orders \ {o} PROVE ExtrasOf(p)'
    BY DEF ExtrasInv, ExtrasOf
<1>3. /\ Committed' = Committed /\ Charged' = Charged /\ KoboOf' = KoboOf
      /\ PointsOf' = PointsOf /\ AddOnsOf' = AddOnsOf
    BY DEF Committed, Charged, KoboOf, PointsOf, AddOnsOf
<1>4. PointsConserved' /\ AddOnsAccounted' /\ CreditHolds'
    BY <1>3 DEF ExtrasInv, PointsConserved, AddOnsAccounted, CreditHolds, Repeated
<1>5. ASSUME ~overlapped, NEW p \in Orders PROVE TakesItsTurn(p)'
    <2>1. \A q \in Orders : pc'[q] \in OrderSteps /\ pc'[p] \in OrderSteps => q = p
        BY <1>5 DEF ExtrasInv, TakesItsTurn
    <2>2. CASE p # o
        <3>1. pc'[p] \notin OrderSteps
            BY <1>5, <2>2 DEF ExtrasInv, TakesItsTurn
        <3> QED
            BY <2>1, <3>1 DEF TakesItsTurn, OrderSteps
    <2>3. CASE p = o
        <3>1. pc'[o] \in {"addOns", "findPromo", "claimPromo", "commit"} => seenSold'[o] = addOnSold'
            BY <1>5 DEF ExtrasInv, TakesItsTurn
        <3>2. pc'[o] \in {"findPromo", "claimPromo", "commit"} =>
                  basket'[o].addOns = 0 \/ AddOnsFit(o)'
            BY <1>5 DEF AddOnsFit
        <3>3. pc'[o] = "charge" => TotalOf(KoboOf', Charged') + basket'[o].kobo <= CreditLimit
            BY <1>3, <1>5 DEF CreditAllows
        <3> QED
            BY <2>1, <2>3, <3>1, <3>2, <3>3 DEF TakesItsTurn
    <2> QED
        BY <2>2, <2>3
<1> QED
    BY <1>1, <1>2, <1>4, <1>5 DEF ExtrasInv

(* No order is under way when a call begins that is not to overlap.        *)
LEMMA ExtrasAlone ==
    ASSUME NEW c, NEW step, Begin(c, step), ~overlapped'
    PROVE  ~overlapped /\ \A o \in Orders : pc[o] \notin OrderSteps
    BY ExtrasAssumption DEF Begin, Busy, Started, Ended, OrderSteps

LEMMA EventRead ==
    ASSUME ExtrasInv, NEW o \in Orders, ReadEvent(o)
    PROVE  ExtrasInv'
<1>1. PICK b \in Baskets : basket' = [basket EXCEPT ![o] = b]
    BY DEF ReadEvent
<1>2. /\ pc[o] = "idle" /\ pc'[o] = "addOns" /\ \A p \in Orders \ {o} : pc'[p] = pc[p]
      /\ seenSold' = [seenSold EXCEPT ![o] = addOnSold]
      /\ UNCHANGED <<orderStatus, promoVars, addOnSold, points, settled>>
      /\ overlapped => overlapped'
    BY ExtrasAssumption DEF ReadEvent, Begin, MovesTo
<1>3. ~overlapped' => ~overlapped /\ \A p \in Orders : pc[p] \notin OrderSteps
    BY ExtrasAlone DEF ReadEvent
<1> USE DEF promoVars
<1>4. ExtrasTypeOK'
    BY <1>1, <1>2 DEF ExtrasInv, ExtrasTypeOK, OrderSteps
<1>5. orderStatus[o] = "none" /\ o \notin claimed
    BY <1>2 DEF ExtrasInv, ExtrasOf
<1>6. \A p \in Orders \ {o} : basket'[p] = basket[p] /\ seenSold'[p] = seenSold[p]
    BY <1>1, <1>2 DEF ExtrasInv, ExtrasTypeOK
<1>7. ASSUME NEW p \in Orders PROVE ExtrasOf(p)'
    <2>1. CASE p = o
        BY <1>2, <1>5, <2>1 DEF ExtrasOf
    <2>2. CASE p # o
        BY <1>2, <1>6, <2>2 DEF ExtrasInv, ExtrasOf
    <2> QED
        BY <2>1, <2>2
<1>8. seenSold'[o] = addOnSold'
    BY <1>2 DEF ExtrasInv, ExtrasTypeOK
<1>9. ASSUME ~overlapped', NEW p \in Orders PROVE TakesItsTurn(p)'
    <2>1. \A q \in Orders \ {o} : pc'[q] \notin OrderSteps
        BY <1>2, <1>3, <1>9
    <2> QED
        BY <1>2, <1>8, <2>1 DEF TakesItsTurn, OrderSteps
<1>10. Committed' = Committed /\ Charged' = Charged
    <2>1. o \notin Committed /\ o \notin Charged
        BY <1>5 DEF Committed, Charged
    <2> QED
        BY <1>2, <1>5, <1>6 DEF Committed, Charged
<1>11. /\ TotalOf(AddOnsOf', Committed') = TotalOf(AddOnsOf, Committed)
       /\ TotalOf(PointsOf', Committed') = TotalOf(PointsOf, Committed)
       /\ TotalOf(KoboOf', Charged') = TotalOf(KoboOf, Charged)
    <2>1. \A p \in Committed \cup Charged : p \in Orders /\ basket'[p] = basket[p]
        BY <1>5, <1>6 DEF Committed, Charged
    <2>2. /\ \A p \in Committed : AddOnsOf'[p] = AddOnsOf[p] /\ PointsOf'[p] = PointsOf[p]
          /\ \A p \in Charged : KoboOf'[p] = KoboOf[p]
        BY <2>1 DEF AddOnsOf, PointsOf, KoboOf
    <2>3. TotalOf(AddOnsOf', Committed) = TotalOf(AddOnsOf, Committed)
        BY <2>2, SumOfEqual
    <2>4. TotalOf(PointsOf', Committed) = TotalOf(PointsOf, Committed)
        BY <2>2, SumOfEqual
    <2>5. TotalOf(KoboOf', Charged) = TotalOf(KoboOf, Charged)
        BY <2>2, SumOfEqual
    <2> QED
        BY <1>10, <2>3, <2>4, <2>5
<1>12. AddOnsAccounted'
    <2>1. \A p \in Committed : p \in Orders /\ Repeated(p)' = Repeated(p)
        BY <1>5, <1>6 DEF Committed, Repeated
    <2> QED
        BY <1>2, <1>10, <1>11, <2>1 DEF ExtrasInv, AddOnsAccounted
<1>13. PointsConserved' /\ CreditHolds'
    BY <1>2, <1>11 DEF ExtrasInv, PointsConserved, CreditHolds
<1> QED
    BY <1>2, <1>3, <1>4, <1>7, <1>9, <1>12, <1>13 DEF ExtrasInv

LEMMA PromoClaimed ==
    ASSUME ExtrasInv, NEW o \in Orders, ClaimPromo(o)
    PROVE  ExtrasInv'
<1>1. /\ pc[o] = "claimPromo" /\ \A p \in Orders \ {o} : pc'[p] = pc[p]
      /\ UNCHANGED <<basket, orderStatus, promoActive, addOnSold, seenSold, points, settled,
                     overlapped>>
    BY ExtrasAssumption DEF ClaimPromo, Goto, MovesTo
<1>2. o \notin claimed /\ orderStatus[o] = "none" /\ pc[o] \in OrderSteps
    BY <1>1 DEF ExtrasInv, ExtrasOf, OrderSteps
<1>3. CASE ~PromoClaimable
    <2>1. pc'[o] = "refused" /\ UNCHANGED extrasVars
        BY <1>1, <1>3, ExtrasAssumption DEF ClaimPromo, Goto, MovesTo, extrasVars, promoVars
    <2>2. ExtrasOf(o)'
        BY <1>2, <2>1 DEF ExtrasOf, extrasVars, promoVars
    <2> QED
        BY <1>1, <1>2, <2>1, <2>2, ExtrasMove DEF Ended
<1>4. CASE PromoClaimable
    <2>1. uses' = uses + 1 /\ claimed' = claimed \cup {o} /\ pc'[o] = "commit"
        BY <1>1, <1>4, ExtrasAssumption DEF ClaimPromo, Goto, MovesTo
    <2>2. ExtrasTypeOK'
        BY <1>1, <2>1 DEF ExtrasInv, ExtrasTypeOK, OrderSteps
    <2>3. uses' = Cardinality(claimed') /\ uses' <= MaxUses
        <3>1. claimed \in SUBSET Orders /\ uses \in Nat
            BY DEF ExtrasInv, ExtrasTypeOK
        <3>2. Cardinality(claimed \cup {o}) = Cardinality(claimed) + 1
            BY <1>2, <3>1, ClaimedAreCounted, FS_AddElement
        <3> QED
            BY <1>4, <2>1, <3>1, <3>2, ExtrasAssumption DEF ExtrasInv, PromoClaimable
    <2>4. ASSUME NEW p \in Orders PROVE ExtrasOf(p)'
        BY <1>1, <1>2, <2>1 DEF ExtrasInv, ExtrasOf
    <2>5. /\ Committed' = Committed /\ Charged' = Charged /\ KoboOf' = KoboOf
          /\ PointsOf' = PointsOf /\ AddOnsOf' = AddOnsOf
        BY <1>1 DEF Committed, Charged, KoboOf, PointsOf, AddOnsOf
    <2>6. PointsConserved' /\ AddOnsAccounted' /\ CreditHolds'
        BY <1>1, <2>5 DEF ExtrasInv, PointsConserved, AddOnsAccounted, CreditHolds, Repeated
    <2>7. ASSUME ~overlapped, NEW p \in Orders PROVE TakesItsTurn(p)'
        <3>1. \A q \in Orders : pc'[q] \in OrderSteps => q = o
            BY <1>1, <1>2, <2>7 DEF ExtrasInv, TakesItsTurn
        <3>2. seenSold[o] = addOnSold /\ (basket[o].addOns = 0 \/ AddOnsFit(o))
            BY <1>1, <2>7 DEF ExtrasInv, TakesItsTurn
        <3>3. AddOnsFit(o)' = AddOnsFit(o)
            BY <1>1 DEF AddOnsFit
        <3> QED
            BY <1>1, <2>1, <3>1, <3>2, <3>3 DEF TakesItsTurn, OrderSteps
    <2> QED
        BY <1>1, <2>2, <2>3, <2>4, <2>6, <2>7 DEF ExtrasInv
<1> QED
    BY <1>3, <1>4

LEMMA ExtrasCommitted ==
    ASSUME ExtrasInv, NEW o \in Orders, Commit(o)
    PROVE  ExtrasInv'
<1>1. /\ pc[o] = "commit" /\ \A p \in Orders \ {o} : pc'[p] = pc[p]
      /\ pc'[o] = (IF basket[o].corporate THEN "assert" ELSE "done")
      /\ points >= basket[o].points /\ points' = points - basket[o].points
      /\ addOnSold' = addOnSold + basket[o].addOns
      /\ orderStatus' = [orderStatus EXCEPT ![o] = "PENDING"]
      /\ UNCHANGED <<basket, promoActive, uses, claimed, seenSold, settled, overlapped>>
    <2>1. points >= basket[o].points
        <3>1. points \in Int /\ points >= 0 /\ basket[o].points \in Nat
            BY AmountsTyped DEF ExtrasInv, ExtrasTypeOK, PointsConserved
        <3>2. basket[o].points > 0 => points >= basket[o].points
            BY DEF Commit, PointsRefused, RedeemsPoints, EnoughPoints
        <3> QED
            BY <3>1, <3>2
    <2> QED
        BY <2>1, ExtrasAssumption DEF Commit, Goto, MovesTo, promoVars
<1>2. orderStatus[o] = "none" /\ pc[o] \in OrderSteps /\ (basket[o].promo => o \in claimed)
    BY <1>1 DEF ExtrasInv, ExtrasOf, OrderSteps
<1>3. orderStatus'[o] = "PENDING" /\ \A p \in Orders \ {o} : orderStatus'[p] = orderStatus[p]
    BY <1>1 DEF ExtrasInv, ExtrasTypeOK
<1>4. /\ AddOnsOf \in AmountsOfOrders /\ PointsOf \in AmountsOfOrders /\ KoboOf \in AmountsOfOrders
      /\ AddOnsOf[o] = basket[o].addOns /\ PointsOf[o] = basket[o].points
      /\ basket[o].addOns \in Nat /\ basket[o].points \in Nat
      /\ points \in Int /\ addOnSold \in Nat
    BY AmountsTyped DEF ExtrasInv, ExtrasTypeOK
<1>5. ExtrasTypeOK'
    <2>1. orderStatus' \in [Orders -> {"none", "PENDING", "PAID", "EXPIRED"}]
        BY <1>1 DEF ExtrasInv, ExtrasTypeOK
    <2> QED
        BY <1>1, <1>4, <2>1 DEF ExtrasInv, ExtrasTypeOK, OrderSteps, Ended
<1>6. ASSUME NEW p \in Orders PROVE ExtrasOf(p)'
    <2>1. CASE p = o
        BY <1>1, <1>2, <1>3, <2>1 DEF ExtrasInv, ExtrasOf
    <2>2. CASE p # o
        BY <1>1, <1>3, <2>2 DEF ExtrasInv, ExtrasOf
    <2> QED
        BY <2>1, <2>2
<1>7. Committed' = Committed \cup {o} /\ o \notin Committed /\ Charged' = Charged
    BY <1>1, <1>2, <1>3 DEF Committed, Charged
<1>8. KoboOf' = KoboOf /\ PointsOf' = PointsOf /\ AddOnsOf' = AddOnsOf
    BY <1>1 DEF KoboOf, PointsOf, AddOnsOf
<1>9. Committed \in SUBSET Orders
    BY DEF Committed
<1>10. /\ TotalOf(PointsOf, Committed \cup {o}) = TotalOf(PointsOf, Committed) + basket[o].points
       /\ TotalOf(AddOnsOf, Committed \cup {o}) = TotalOf(AddOnsOf, Committed) + basket[o].addOns
       /\ TotalOf(PointsOf, Committed) \in Nat /\ TotalOf(AddOnsOf, Committed) \in Nat
    BY <1>4, <1>7, <1>9, SumGrows, SumsAreFinite
<1>11. PointsConserved'
    BY <1>1, <1>4, <1>7, <1>8, <1>10 DEF ExtrasInv, PointsConserved
<1>12. AddOnsAccounted'
    <2>1. addOnSold' = TotalOf(AddOnsOf', Committed')
        BY <1>1, <1>4, <1>7, <1>8, <1>10 DEF ExtrasInv, AddOnsAccounted
    <2>2. /\ basket[o].line \in Nat /\ AddOnCapacity \in Nat
          /\ \A p \in Orders : Repeated(p) \in Nat /\ Repeated(p)' = Repeated(p)
        BY <1>1, AmountsTyped, ExtrasAssumption DEF ExtrasInv, Repeated
    <2>3. ASSUME ~overlapped, addOnSold' > AddOnCapacity
          PROVE  \E p \in Committed' : addOnSold' <= AddOnCapacity + Repeated(p)'
        <3>1. seenSold[o] = addOnSold /\ (basket[o].addOns = 0 \/ AddOnsFit(o))
            BY <1>1, <2>3 DEF ExtrasInv, TakesItsTurn
        <3>2. CASE basket[o].addOns = 0
            <4>1. addOnSold' = addOnSold
                BY <1>1, <1>4, <3>2
            <4>2. PICK p \in Committed : addOnSold <= AddOnCapacity + Repeated(p)
                BY <1>4, <2>2, <2>3, <4>1 DEF ExtrasInv, AddOnsAccounted
            <4> QED
                BY <1>7, <1>9, <2>2, <4>1, <4>2
        <3>3. CASE AddOnsFit(o)
            <4>1. addOnSold + basket[o].line <= AddOnCapacity
                BY <3>1, <3>3 DEF AddOnsFit
            <4>2. addOnSold' <= AddOnCapacity + Repeated(o)
                BY <1>1, <1>4, <2>2, <4>1 DEF Repeated
            <4> QED
                BY <1>7, <2>2, <4>2
        <3> QED
            BY <3>1, <3>2, <3>3
    <2>4. addOnSold' \in Nat
        BY <1>1, <1>4
    <2>5. \/ overlapped' \/ addOnSold' <= AddOnCapacity
          \/ \E p \in Committed' : addOnSold' <= AddOnCapacity + Repeated(p)'
        BY <1>1, <2>2, <2>3, <2>4
    <2> QED
        BY <2>1, <2>5 DEF AddOnsAccounted
<1>13. CreditHolds'
    BY <1>1, <1>7, <1>8 DEF ExtrasInv, CreditHolds
<1>14. ASSUME ~overlapped, NEW p \in Orders PROVE TakesItsTurn(p)'
    <2>1. \A q \in Orders : pc'[q] \in OrderSteps => q = o
        BY <1>1, <1>2, <1>14 DEF ExtrasInv, TakesItsTurn
    <2> QED
        BY <1>1, <2>1 DEF TakesItsTurn, OrderSteps
<1> QED
    BY <1>1, <1>5, <1>6, <1>11, <1>12, <1>13, <1>14 DEF ExtrasInv
(* A paid order is billed to its account only if it was agreed to be; one  *)
(* that expires was not billed.                                            *)
LEMMA OrderSettled ==
    ASSUME ExtrasInv, NEW o \in Orders, ChargeAccount(o) \/ PayOrder(o) \/ ExpireOrder(o)
    PROVE  ExtrasInv'
<1>1. /\ UNCHANGED <<basket, promoVars, addOnSold, seenSold, points, settled, overlapped>>
      /\ orderStatus[o] = "PENDING" /\ \A p \in Orders \ {o} : pc'[p] = pc[p]
      /\ orderStatus' \in {[orderStatus EXCEPT ![o] = "PAID"], [orderStatus EXCEPT ![o] = "EXPIRED"]}
      /\ pc'[o] \in Ended
      /\ \/ /\ pc[o] = "charge" /\ pc'[o] = "done"
            /\ orderStatus' = [orderStatus EXCEPT ![o] = "PAID"]
         \/ pc[o] = "done" /\ pc'[o] = pc[o]
         \/ /\ pc[o] \in Ended /\ pc'[o] = pc[o]
            /\ orderStatus' = [orderStatus EXCEPT ![o] = "EXPIRED"]
    BY ExtrasAssumption
    DEF ExtrasInv, ExtrasOf, ChargeAccount, PayOrder, ExpireOrder, Goto, MovesTo, Ended, requestVars
<1>2. orderStatus'[o] \in {"PAID", "EXPIRED"} /\ \A p \in Orders \ {o} : orderStatus'[p] = orderStatus[p]
    BY <1>1 DEF ExtrasInv, ExtrasTypeOK
<1> USE DEF promoVars
<1>3. ExtrasTypeOK'
    <2>1. orderStatus' \in [Orders -> {"none", "PENDING", "PAID", "EXPIRED"}]
        BY <1>1 DEF ExtrasInv, ExtrasTypeOK
    <2> QED
        BY <1>1, <2>1 DEF ExtrasInv, ExtrasTypeOK
<1>4. ASSUME NEW p \in Orders PROVE ExtrasOf(p)'
    <2>1. CASE p = o
        BY <1>1, <1>2, <2>1 DEF ExtrasInv, ExtrasOf, Ended
    <2>2. CASE p # o
        BY <1>1, <1>2, <2>2 DEF ExtrasInv, ExtrasOf
    <2> QED
        BY <2>1, <2>2
<1>5. KoboOf' = KoboOf /\ PointsOf' = PointsOf /\ AddOnsOf' = AddOnsOf
    BY <1>1 DEF KoboOf, PointsOf, AddOnsOf
<1>6. Committed' = Committed
    BY <1>1, <1>2 DEF Committed
<1>7. o \notin Charged /\ Charged \in SUBSET Orders
    BY <1>1 DEF Charged
<1>8. CASE pc[o] # "charge"
    <2>1. pc'[o] = pc[o] /\ (orderStatus'[o] = "PAID" => ~basket[o].corporate)
        <3>1. orderStatus'[o] = "PAID" => pc[o] = "done"
            BY <1>1, <1>2, <1>8 DEF ExtrasInv, ExtrasTypeOK
        <3> QED
            BY <1>1, <1>8, <3>1 DEF ExtrasInv, ExtrasOf
    <2>2. Charged' = Charged
        BY <1>1, <1>2, <1>7, <2>1 DEF Charged
    <2>3. PointsConserved' /\ AddOnsAccounted' /\ CreditHolds'
        BY <1>1, <1>5, <1>6, <2>2
        DEF ExtrasInv, PointsConserved, AddOnsAccounted, CreditHolds, Repeated
    <2>4. ASSUME ~overlapped, NEW p \in Orders PROVE TakesItsTurn(p)'
        <3>1. \A q \in Orders : pc'[q] = pc[q]
            BY <1>1, <2>1
        <3>2. AddOnsFit(p)' = AddOnsFit(p)
            BY <1>1 DEF AddOnsFit
        <3> QED
            BY <1>1, <1>5, <2>2, <2>4, <3>1, <3>2 DEF ExtrasInv, TakesItsTurn
    <2> QED
        BY <1>1, <1>3, <1>4, <2>3, <2>4 DEF ExtrasInv
<1>9. CASE pc[o] = "charge"
    <2>1. pc'[o] = "done" /\ orderStatus'[o] = "PAID"
        BY <1>1, <1>9 DEF Ended, ExtrasInv, ExtrasTypeOK
    <2>2. Charged' \subseteq Charged \cup {o}
        BY <1>1, <1>2 DEF Charged
    <2>3. /\ KoboOf \in AmountsOfOrders /\ KoboOf[o] = basket[o].kobo /\ basket[o].kobo \in Nat
        BY AmountsTyped DEF ExtrasInv
    <2>4. /\ TotalOf(KoboOf, Charged \cup {o}) = TotalOf(KoboOf, Charged) + basket[o].kobo
          /\ TotalOf(KoboOf, Charged') <= TotalOf(KoboOf, Charged \cup {o})
          /\ TotalOf(KoboOf, Charged) \in Nat /\ TotalOf(KoboOf, Charged') \in Nat
        <3>1. Charged \cup {o} \in SUBSET Orders /\ Charged' \in SUBSET (Charged \cup {o})
            BY <1>7, <2>2
        <3>2. Charged' \in SUBSET Orders
            BY <3>1
        <3>3. TotalOf(KoboOf, Charged') <= TotalOf(KoboOf, Charged \cup {o})
            BY <2>3, <3>1, SumShrinks
        <3>4. IsFiniteSet(Amounts(KoboOf, Charged))
            BY <1>7, <2>3, SumsAreFinite
        <3>5. TotalOf(KoboOf, Charged \cup {o}) = TotalOf(KoboOf, Charged) + basket[o].kobo
            BY <1>7, <2>3, <3>4, SumGrows
        <3> QED
            BY <1>7, <2>3, <3>2, <3>3, <3>5, SumsAreFinite
    <2>5. CreditHolds'
        <3> SUFFICES ASSUME ~overlapped PROVE TotalOf(KoboOf, Charged') <= CreditLimit
            BY <1>1, <1>5 DEF CreditHolds
        <3>1. TotalOf(KoboOf, Charged) + basket[o].kobo <= CreditLimit
            BY <1>9 DEF ExtrasInv, TakesItsTurn
        <3>2. TotalOf(KoboOf, Charged') <= TotalOf(KoboOf, Charged) + basket[o].kobo
            BY <2>4
        <3>3. TotalOf(KoboOf, Charged) + basket[o].kobo \in Nat
            BY <2>3, <2>4
        <3> QED
            BY <2>4, <3>1, <3>2, <3>3, ExtrasAssumption
    <2>6. PointsConserved' /\ AddOnsAccounted'
        BY <1>1, <1>5, <1>6 DEF ExtrasInv, PointsConserved, AddOnsAccounted, Repeated
    <2>7. ASSUME ~overlapped, NEW p \in Orders PROVE TakesItsTurn(p)'
        <3>1. \A q \in Orders : pc'[q] \notin OrderSteps
            BY <1>1, <1>9, <2>1, <2>7 DEF ExtrasInv, TakesItsTurn, OrderSteps
        <3> QED
            BY <3>1 DEF TakesItsTurn, OrderSteps
    <2> QED
        BY <1>1, <1>3, <1>4, <2>5, <2>6, <2>7 DEF ExtrasInv
<1> QED
    BY <1>8, <1>9

LEMMA OrderStepsKeep ==
    ASSUME ExtrasInv, NEW o \in Orders, OrderStep(o)
    PROVE  ExtrasInv'
<1> DEFINE Moves(to) == /\ UNCHANGED <<extrasVars, overlapped>> /\ pc'[o] = to
                        /\ \A p \in Orders \ {o} : pc'[p] = pc[p]
<1>0. \A to : Goto(o, to) /\ UNCHANGED extrasVars => Moves(to)
    BY ExtrasAssumption DEF Goto, MovesTo
<1> USE DEF OrderSteps, Ended
<1>1. ASSUME TakeAddOns(o) PROVE ExtrasInv'
    <2>1. /\ Moves(IF basket[o].promo THEN "findPromo" ELSE "commit") /\ pc[o] = "addOns"
          /\ basket[o].addOns = 0 \/ AddOnsFit(o)
        BY <1>0, <1>1 DEF TakeAddOns
    <2>2. ExtrasOf(o)'
        BY <2>1 DEF ExtrasInv, ExtrasOf, extrasVars, promoVars
    <2> QED
        BY <2>1, <2>2, ExtrasMove
<1>2. ASSUME AddOnsSoldOut(o) PROVE ExtrasInv'
    <2>1. Moves("refused") /\ pc[o] = "addOns"
        BY <1>0, <1>2 DEF AddOnsSoldOut
    <2>2. ExtrasOf(o)'
        BY <2>1 DEF ExtrasInv, ExtrasOf, extrasVars, promoVars
    <2> QED
        BY <2>1, <2>2, ExtrasMove
<1>3. ASSUME FindPromo(o) PROVE ExtrasInv'
    <2>1. Moves(IF promoActive /\ uses < MaxUses THEN "claimPromo" ELSE "refused") /\ pc[o] = "findPromo"
        BY <1>0, <1>3 DEF FindPromo
    <2>2. ExtrasOf(o)'
        BY <2>1 DEF ExtrasInv, ExtrasOf, extrasVars, promoVars
    <2>3. ~overlapped => basket[o].addOns = 0 \/ AddOnsFit(o)
        BY <2>1 DEF ExtrasInv, TakesItsTurn
    <2> QED
        BY <2>1, <2>2, <2>3, ExtrasMove
<1>4. ASSUME Rollback(o) PROVE ExtrasInv'
    <2>1. Moves("refused") /\ pc[o] = "commit"
        BY <1>0, <1>4 DEF Rollback
    <2>2. RedeemsPoints(o) \/ basket[o].seats
        BY <1>4 DEF Rollback, PointsRefused
    <2>3. ExtrasOf(o)'
        BY <2>1, <2>2 DEF ExtrasInv, ExtrasOf, RedeemsPoints, extrasVars, promoVars
    <2> QED
        BY <2>1, <2>3, ExtrasMove
<1>5. ASSUME AssertCanCharge(o) PROVE ExtrasInv'
    <2>1. Moves(IF basket[o].signedIn /\ CreditAllows(o) THEN "charge" ELSE "refused") /\ pc[o] = "assert"
        BY <1>0, <1>5 DEF AssertCanCharge
    <2>2. ExtrasOf(o)'
        BY <2>1 DEF ExtrasInv, ExtrasOf, extrasVars, promoVars
    <2> QED
        BY <2>1, <2>2, ExtrasMove
<1>6. ASSUME ExtrasCutShort(o) PROVE ExtrasInv'
    <2>1. Moves("dead") /\ pc[o] \in OrderSteps
        BY <1>6, ExtrasAssumption
        DEF ExtrasCutShort, CutShort, MovesTo, Busy, Started, ExtrasInv, ExtrasTypeOK
    <2>2. ExtrasOf(o)'
        BY <2>1 DEF ExtrasInv, ExtrasOf, extrasVars, promoVars
    <2> QED
        BY <2>1, <2>2, ExtrasMove
<1> QED
    BY <1>1, <1>2, <1>3, <1>4, <1>5, <1>6, EventRead, PromoClaimed, ExtrasCommitted, OrderSettled
    DEF OrderStep
LEMMA ExtrasStep ==
    ASSUME ExtrasInv, ExtrasNext
    PROVE  ExtrasInv'
<1>1. ASSUME RetirePromo PROVE ExtrasInv'
    <2>1. /\ UNCHANGED <<basket, orderStatus, uses, claimed, addOnSold, seenSold, points, settled>>
          /\ promoActive' = FALSE /\ (overlapped => overlapped') /\ \A o \in Orders : pc'[o] = pc[o]
        BY <1>1, ExtrasAssumption DEF RetirePromo, Begin, MovesTo
    <2>2. ~overlapped' => \A o \in Orders : pc[o] \notin OrderSteps
        BY <1>1, ExtrasAlone DEF RetirePromo
    <2>3. ExtrasTypeOK'
        BY <2>1 DEF ExtrasInv, ExtrasTypeOK
    <2>4. \A o \in Orders : ExtrasOf(o)'
        BY <2>1 DEF ExtrasInv, ExtrasOf
    <2>5. /\ Committed' = Committed /\ Charged' = Charged /\ KoboOf' = KoboOf
          /\ PointsOf' = PointsOf /\ AddOnsOf' = AddOnsOf
        BY <2>1 DEF Committed, Charged, KoboOf, PointsOf, AddOnsOf
    <2>6. PointsConserved' /\ AddOnsAccounted' /\ CreditHolds'
        BY <2>1, <2>5 DEF ExtrasInv, PointsConserved, AddOnsAccounted, CreditHolds, Repeated
    <2>7. ~overlapped' => \A o \in Orders : TakesItsTurn(o)'
        BY <2>1, <2>2 DEF TakesItsTurn, OrderSteps
    <2> QED
        BY <2>1, <2>3, <2>4, <2>6, <2>7 DEF ExtrasInv
<1>2. ASSUME SettleAccount PROVE ExtrasInv'
    <2>1. /\ UNCHANGED <<basket, orderStatus, promoVars, addOnSold, seenSold, points>>
          /\ settled' = settled \cup Charged /\ (overlapped => overlapped')
          /\ \A o \in Orders : pc'[o] = pc[o]
        BY <1>2, ExtrasAssumption DEF SettleAccount, Begin, MovesTo
    <2>2. ~overlapped' => \A o \in Orders : pc[o] \notin OrderSteps
        BY <1>2, ExtrasAlone DEF SettleAccount
    <2> USE DEF promoVars
    <2>3. ExtrasTypeOK'
        BY <2>1 DEF ExtrasInv, ExtrasTypeOK, Charged
    <2>4. \A o \in Orders : ExtrasOf(o)'
        BY <2>1 DEF ExtrasInv, ExtrasOf
    <2>5. /\ Committed' = Committed /\ Charged' \in SUBSET Charged /\ Charged \in SUBSET Orders
          /\ KoboOf' = KoboOf /\ PointsOf' = PointsOf /\ AddOnsOf' = AddOnsOf
        BY <2>1 DEF Committed, Charged, KoboOf, PointsOf, AddOnsOf
    <2>6. PointsConserved' /\ AddOnsAccounted'
        BY <2>1, <2>5 DEF ExtrasInv, PointsConserved, AddOnsAccounted, Repeated
    <2>7. CreditHolds'
        <3>1. KoboOf \in AmountsOfOrders /\ Charged' \in SUBSET Orders
            BY <2>5, AmountsTyped DEF ExtrasInv
        <3>2. TotalOf(KoboOf, Charged') <= TotalOf(KoboOf, Charged)
            BY <2>5, <3>1, SumShrinks
        <3>3. TotalOf(KoboOf, Charged') \in Nat /\ TotalOf(KoboOf, Charged) \in Nat
            BY <2>5, <3>1, SumsAreFinite
        <3> QED
            BY <2>1, <2>5, <3>2, <3>3, ExtrasAssumption DEF ExtrasInv, CreditHolds
    <2>8. ~overlapped' => \A o \in Orders : TakesItsTurn(o)'
        BY <2>1, <2>2 DEF TakesItsTurn, OrderSteps
    <2> QED
        BY <2>1, <2>3, <2>4, <2>6, <2>7, <2>8 DEF ExtrasInv
<1> QED
    BY <1>1, <1>2, OrderStepsKeep DEF ExtrasNext

LEMMA ExtrasInductive == ExtrasInv /\ [Next]_vars => ExtrasInv'
<1> SUFFICES ASSUME ExtrasInv, [Next]_vars PROVE ExtrasInv'
    OBVIOUS
<1>1. ASSUME UNCHANGED extrasVars, \A o \in Orders : pc'[o] = pc[o], overlapped => overlapped'
      PROVE  ExtrasInv'
    <2> USE <1>1 DEF extrasVars, promoVars
    <2>1. ExtrasTypeOK'
        BY DEF ExtrasInv, ExtrasTypeOK
    <2>2. \A o \in Orders : ExtrasOf(o)'
        BY DEF ExtrasInv, ExtrasOf
    <2>3. /\ Committed' = Committed /\ Charged' = Charged /\ KoboOf' = KoboOf
          /\ PointsOf' = PointsOf /\ AddOnsOf' = AddOnsOf
        BY DEF Committed, Charged, KoboOf, PointsOf, AddOnsOf
    <2>4. PointsConserved' /\ AddOnsAccounted' /\ CreditHolds'
        BY <2>3 DEF ExtrasInv, PointsConserved, AddOnsAccounted, CreditHolds, Repeated
    <2>5. ASSUME ~overlapped', NEW o \in Orders PROVE TakesItsTurn(o)'
        BY <2>3, <2>5 DEF ExtrasInv, TakesItsTurn, AddOnsFit
    <2> QED
        BY <2>1, <2>2, <2>4, <2>5 DEF ExtrasInv
<1>2. CASE UNCHANGED vars
    BY <1>1, <1>2 DEF vars, requestVars
<1>3. CASE Next
    <2>1. PICK i \in 1..9 : StepOf(i)
        BY <1>3, StepsOfParts
    <2>2. CASE i = 1
        BY <2>1, <2>2, ExtrasStep DEF StepOf
    <2>3. CASE i # 1
        <3>1. \A o \in Orders : pc'[o] = pc[o]
            BY <2>1, <2>3, PartsByNumber, ExtrasAssumption, OthersAreIdle DEF ExtrasPart
        <3>2. UNCHANGED extrasVars
            BY <2>1, <2>3 DEF StepOf
        <3>3. overlapped => overlapped'
            BY CountersStep DEF OverlapStays
        <3> QED
            BY <1>1, <3>1, <3>2, <3>3
    <2> QED
        BY <2>2, <2>3
<1> QED
    BY <1>2, <1>3

LEMMA ExtrasCount == ExtrasInv => ExtrasAccounted
<1> SUFFICES ASSUME ExtrasInv PROVE ExtrasAccounted
    OBVIOUS
<1>1. \A o \in Committed : basket[o].promo => o \in claimed
    BY DEF ExtrasInv, ExtrasOf, Committed
<1>2. ASSUME NEW o \in claimed \ Committed
      PROVE  \/ pc[o] \in {"commit", "dead"}
             \/ pc[o] = "refused" /\ (RedeemsPoints(o) \/ basket[o].seats)
    BY DEF ExtrasInv, ExtrasTypeOK, ExtrasOf, Committed, RedeemsPoints
<1> QED
    BY <1>1, <1>2 DEF ExtrasInv, ExtrasAccounted, UsesAccounted

(* What the extras of orders use up, uses of a promo code, points, add-ons *)
(* and credit, is counted and within bounds, for any number of orders at   *)
(* once: OrdersService.create claims, debits and increments in one UPDATE  *)
(* each, and what it compares earlier holds while calls take turns.        *)
THEOREM ExtrasAlwaysCounted == Spec => []ExtrasAccounted
    BY ExtrasAreInit, ExtrasInductive, ExtrasCount, PTL DEF Spec
-------------------------------------------------------------------------------
(* The order form: what it says and what it sends.                         *)
LEMMA ProductIsNat == \A m, n \in Nat : m * n \in Nat
    OBVIOUS

(* Two ways to compute one charge: without a rule, the API charges what    *)
(* the form shows, less the discount of a promo code.                      *)
LEMMA ChargeShown ==
    ASSUME offer \in Offers, NEW p, p.quantity \in Nat, p.promo \in BOOLEAN,
           Applicable([capacity |-> offer.tt.capacity, taken |-> offer.tt.sold + p.quantity],
                      offer.rules) = {}
    PROVE  /\ Charge(p) <= ShownTotal(p.quantity)
           /\ ~p.promo => Charge(p) = ShownTotal(p.quantity)
<1> DEFINE tt == [priceKobo |-> offer.tt.priceKobo, capacity |-> offer.tt.capacity,
                  taken |-> offer.tt.sold + p.quantity]
           promo == IF p.promo THEN offer.promo ELSE [type |-> "none", value |-> 0]
           ask == [tt |-> tt, rules |-> offer.rules, quantity |-> p.quantity, addOnsKobo |-> 0,
                   promo |-> promo, points |-> 0, agentBps |-> 0]
           sub == offer.tt.priceKobo * p.quantity
           disc == Discount(sub, promo)
           due == AtLeast(sub - disc - AtMost(0, sub - disc), 0)
<1>1. sub \in Nat /\ p.quantity * offer.tt.priceKobo = sub
    BY OffersAssumption
<1>2. Applicable(tt, offer.rules) = {}
    BY DEF Applicable, Utilisation
<1>3. PriceKobo(tt, offer.rules) = offer.tt.priceKobo
    BY <1>2 DEF PriceKobo
<1>4. Charge(p) = Bill(ask).total
    BY DEF Charge
<1>5. PriceKobo(ask.tt, ask.rules) * ask.quantity + ask.addOnsKobo = sub
    BY <1>1, <1>3
<1>6. KoboForPoints(0) = 0
    BY DEF KoboForPoints
<1> HIDE DEF sub
<1>7. Bill(ask).total = due + Round(due * 15, 1000)
    BY <1>5, <1>6 DEF Bill, PointsDiscount
<1>8. promo.type \in {"none", "PERCENTAGE", "FIXED"} /\ promo.value \in Nat
    BY OffersAssumption
<1>9. disc \in Nat /\ (~p.promo => disc = 0)
    <2>1. CASE promo.type = "PERCENTAGE"
        <3>1. sub * promo.value \in Nat
            BY <1>1, <1>8
        <3>2. p.promo
            BY <2>1
        <3> QED
            BY <2>1, <3>1, <3>2 DEF Discount, Whole
    <2>2. CASE promo.type = "FIXED"
        BY <1>1, <1>8, <2>2 DEF Discount, AtMost
    <2>3. CASE promo.type = "none"
        BY <2>3 DEF Discount
    <2> QED
        BY <1>8, <2>1, <2>2, <2>3
<1> HIDE DEF disc
<1>10. due \in Nat /\ due <= sub /\ (~p.promo => due = sub)
    BY <1>1, <1>9 DEF AtLeast, AtMost
<1>11. ShownTotal(p.quantity) = sub + Round(sub * 15, 1000)
    BY <1>1 DEF ShownTotal, ShownFee
<1> HIDE DEF due
<1>12. Round(due * 15, 1000) \in Nat /\ Round(due * 15, 1000) <= Round(sub * 15, 1000)
    BY <1>1, <1>10 DEF Round
<1>13. Round(sub * 15, 1000) \in Nat
    BY <1>1 DEF Round
<1> QED
    BY <1>1, <1>4, <1>7, <1>10, <1>11, <1>12, <1>13

(* More tickets cost more.                                                 *)
LEMMA TotalGrows ==
    ASSUME offer \in Offers, NEW m \in Nat, NEW n \in Nat, m <= n
    PROVE  ShownTotal(m) \in Nat /\ ShownTotal(m) <= ShownTotal(n)
<1> DEFINE price == offer.tt.priceKobo
<1>1. price \in Nat
    BY OffersAssumption
<1> HIDE DEF price
<1>2. m * price \in Nat /\ n * price \in Nat /\ m * price <= n * price
    <2>1. PICK k \in Nat : n = m + k
        <3>1. n - m \in Nat /\ n = m + (n - m)
            OBVIOUS
        <3> QED
            BY <3>1
    <2>2. n * price = m * price + k * price
        BY <1>1, <2>1
    <2>3. k * price \in Nat /\ m * price \in Nat
        BY <1>1
    <2> QED
        BY <2>2, <2>3
<1>3. \A a, b \in Nat : a <= b => /\ Round(a * 15, 1000) \in Nat
                                  /\ Round(a * 15, 1000) <= Round(b * 15, 1000)
    BY DEF Round
<1>4. Round(m * price * 15, 1000) \in Nat /\ Round(n * price * 15, 1000) \in Nat
        /\ Round(m * price * 15, 1000) <= Round(n * price * 15, 1000)
    BY <1>2, <1>3
<1> QED
    BY <1>2, <1>4 DEF ShownTotal, ShownFee, price
WebTyped ==
    /\ offer \in Offers \cup {NoOffer}
    /\ form \in [quantity : 0..MaxTickets, promo : BOOLEAN, wallet : BOOLEAN, email : Emails]
    /\ submitting \in BOOLEAN /\ latched \in BOOLEAN /\ misswiped \in BOOLEAN /\ raised \in BOOLEAN
    /\ \A c \in Presses : pc[c] \in {"idle", "order", "answer", "refusal"} \cup Ended

(* A ticked box that was not overtaken by more tickets can pay for them.   *)
FormFits ==
    /\ offer = NoOffer => ~form.wallet
    /\ form.wallet /\ ~raised => offer.balance >= ShownTotal(form.quantity)

(* An order has what the form showed, and the charge, once it is known, is *)
(* that of Bill.                                                           *)
OrderFits(c) ==
    LET p == placed[c]
    IN  /\ offer # NoOffer
        /\ p \in [quantity : 0..MaxTickets, promo : BOOLEAN, wallet : BOOLEAN, announced : BOOLEAN,
                  raised : BOOLEAN, shown : {ShownTotal(p.quantity)}, charged : {-1, Charge(p)}]
        /\ p.announced => p.wallet
        /\ p.wallet /\ ~p.announced => p.raised
        /\ p.wallet /\ p.charged >= 0 => p.charged <= offer.balance

(* An order that is on its way, or was accepted, has disabled the form.    *)
Sent(c) == pc[c] \in {"order", "answer", "refusal", "done"}
OneIsSent ==
    /\ \A c, d \in Presses : Sent(c) /\ Sent(d) => c = d
    /\ \A c \in Presses : Sent(c) => submitting
    /\ latched => submitting \/ misswiped

WebInv ==
    /\ WebTyped /\ FormFits /\ OneIsSent
    /\ DOMAIN placed = Presses
    /\ \A c \in Presses : IF pc[c] = "idle" THEN placed[c] = <<>> ELSE OrderFits(c)

(* Whether an order fits hangs on the offer and the order alone.           *)
LEMMA OrderStillFits ==
    ASSUME NEW c \in Presses, OrderFits(c), offer' = offer, placed'[c] = placed[c]
    PROVE  OrderFits(c)'
<1>1. \A n : ShownTotal(n)' = ShownTotal(n)
    BY DEF ShownTotal, ShownFee
<1>2. ShownTotal(placed[c].quantity)' = ShownTotal(placed[c].quantity)
    BY DEF ShownTotal, ShownFee
<1>3. Charge(placed[c])' = Charge(placed[c])
    BY DEF Charge
<1> QED
    BY <1>2, <1>3 DEF OrderFits

(* The visitor touches the form; no order moves.                           *)
LEMMA FormTouched ==
    ASSUME WebInv, UNCHANGED <<requestVars, offer, placed>>, WebTyped', FormFits', submitting' = submitting,
           latched' => (latched \/ misswiped'), misswiped => misswiped'
    PROVE  WebInv'
<1>1. OneIsSent'
    BY DEF WebInv, WebTyped, OneIsSent, Sent, requestVars
<1>2. ASSUME NEW c \in Presses
      PROVE  IF pc'[c] = "idle" THEN placed'[c] = <<>> ELSE OrderFits(c)'
    BY OrderStillFits DEF WebInv, requestVars
<1> QED
    BY <1>1, <1>2 DEF WebInv

LEMMA FormStep ==
    ASSUME WebInv,
           (\E delta \in {-1, 1} : Bump(delta)) \/ ToggleWallet \/ TypePromo \/ TypeEmail \/ Misswipe
    PROVE  WebInv'
<1>0. /\ UNCHANGED <<requestVars, offer, placed, submitting>> /\ offer \in Offers
      /\ latched' => latched \/ misswiped'
      /\ misswiped => misswiped'
    BY DEF Bump, ToggleWallet, TypePromo, TypeEmail, Misswipe, Open, WebInv, WebTyped
<1> USE BuyFormsAssumption
<1>1. ASSUME NEW delta \in {-1, 1}, Bump(delta) PROVE WebInv'
    <2> DEFINE n == AtLeast(0, AtMost(Most, form.quantity + delta))
    <2>1. /\ n # form.quantity /\ form' = [form EXCEPT !.quantity = n]
          /\ raised' = (raised \/ (form.wallet /\ delta > 0)) /\ UNCHANGED <<latched, misswiped>>
        BY <1>1 DEF Bump
    <2>2. form.quantity \in 0..MaxTickets /\ Most \in Int /\ Most <= MaxTickets
        BY <1>0, OffersAssumption DEF WebInv, WebTyped, Most, AtMost
    <2>3. n \in 0..MaxTickets /\ (delta = -1 => n < form.quantity)
        BY <2>1, <2>2 DEF AtLeast, AtMost
    <2> HIDE DEF n
    <2>4. raised' \in BOOLEAN
        BY <2>1, Zenon
    <2>5. WebTyped'
        BY <1>0, <2>1, <2>3, <2>4 DEF WebInv, WebTyped, requestVars
    <2>6. form'.quantity = n /\ form'.wallet = form.wallet
        BY <2>1 DEF WebInv, WebTyped
    <2>7. FormFits'
        <3> SUFFICES ASSUME form'.wallet, ~raised'
                     PROVE  offer.balance >= (ShownTotal(form.quantity))'
            <4>1. offer # NoOffer
                BY <1>0, BuyFormsAssumption
            <4> QED
                BY <1>0, <4>1 DEF FormFits
        <3>1. form.wallet /\ ~raised /\ delta = -1
            <4>1. (form.wallet /\ delta > 0) \in BOOLEAN /\ raised \in BOOLEAN
                BY Zenon DEF WebInv, WebTyped
            <4>2. ~raised /\ ~(form.wallet /\ delta > 0)
                BY <2>1, <4>1
            <4> QED
                BY <2>6, <4>2
        <3>2. offer.balance >= ShownTotal(form.quantity)
            BY <3>1 DEF WebInv, FormFits
        <3>3. ShownTotal(n) <= ShownTotal(form.quantity) /\ ShownTotal(n) \in Nat
            BY <1>0, <2>2, <2>3, <3>1, TotalGrows
        <3>4. ShownTotal(form.quantity) \in Nat /\ offer.balance \in Int
            BY <1>0, <2>2, TotalGrows, OffersAssumption
        <3>5. (ShownTotal(form.quantity))' = ShownTotal(n)
            BY <1>0, <2>6 DEF ShownTotal, ShownFee
        <3> QED
            BY <3>2, <3>3, <3>4, <3>5
    <2> QED
        BY <1>0, <2>1, <2>5, <2>7, FormTouched
<1>2. ASSUME ToggleWallet PROVE WebInv'
    <2>1. /\ form' = [form EXCEPT !.wallet = ~form.wallet] /\ raised' = FALSE
          /\ offer.balance >= ShownTotal(form.quantity) /\ UNCHANGED <<latched, misswiped>>
        BY <1>2 DEF ToggleWallet, BoxEnabled, Total
    <2>2. WebTyped'
        BY <1>0, <2>1 DEF WebInv, WebTyped, requestVars
    <2>3. form'.quantity = form.quantity
        BY <2>1 DEF WebInv, WebTyped
    <2>4. FormFits'
        BY <1>0, <2>1, <2>3 DEF FormFits, Open, WebInv, ShownTotal, ShownFee
    <2> QED
        BY <1>0, <2>1, <2>2, <2>4, FormTouched
<1>3. ASSUME TypePromo \/ TypeEmail PROVE WebInv'
    <2>1. /\ \/ form' = [form EXCEPT !.promo = ~form.promo]
             \/ \E e \in Emails : form' = [form EXCEPT !.email = e]
          /\ UNCHANGED <<latched, misswiped, raised>>
        BY <1>3 DEF TypePromo, TypeEmail
    <2>2. WebTyped' /\ form'.quantity = form.quantity /\ form'.wallet = form.wallet
        BY <1>0, <2>1 DEF WebInv, WebTyped, requestVars
    <2>3. FormFits'
        BY <1>0, <2>1, <2>2 DEF FormFits, WebInv, ShownTotal, ShownFee
    <2> QED
        BY <1>0, <2>1, <2>2, <2>3, FormTouched
<1>4. ASSUME Misswipe PROVE WebInv'
    <2>1. UNCHANGED <<form, raised>> /\ latched' = TRUE /\ misswiped' = TRUE
        BY <1>4 DEF Misswipe
    <2>2. WebTyped'
        BY <1>0, <2>1 DEF WebInv, WebTyped, requestVars
    <2>3. FormFits'
        BY <1>0, <2>1 DEF FormFits, WebInv, ShownTotal, ShownFee
    <2> QED
        BY <1>0, <2>1, <2>2, <2>3, FormTouched
<1> QED
    BY <1>1, <1>2, <1>3, <1>4

LEMMA PageOpened ==
    ASSUME WebInv, NEW v \in Visits, OpenPage(v)
    PROVE  WebInv'
<1>1. /\ offer = NoOffer /\ offer' \in Offers /\ \A c \in Presses : pc'[c] = pc[c]
      /\ UNCHANGED <<form, submitting, latched, misswiped, raised, placed>>
    BY BuyFormsAssumption, PressesAssumption DEF OpenPage, Begin, MovesTo
<1>2. WebTyped' /\ OneIsSent'
    BY <1>1 DEF WebInv, WebTyped, OneIsSent, Sent
<1>3. FormFits'
    BY <1>1, BuyFormsAssumption DEF WebInv, FormFits
<1>4. \A c \in Presses : pc[c] = "idle"
    BY <1>1 DEF WebInv, OrderFits
<1> QED
    BY <1>1, <1>2, <1>3, <1>4 DEF WebInv

LEMMA OrderIsSent ==
    ASSUME WebInv, NEW c \in Presses, PressButton(c) \/ Swipe(c)
    PROVE  WebInv'
<1> DEFINE p == [quantity |-> form.quantity, promo |-> form.promo, wallet |-> form.wallet,
                 shown |-> Total, announced |-> Announced, raised |-> raised, charged |-> -1]
<1>1. /\ pc[c] = "idle" /\ pc'[c] = "order" /\ \A d \in Presses \ {c} : pc'[d] = pc[d]
      /\ ~submitting /\ submitting' = TRUE /\ placed' = [placed EXCEPT ![c] = p]
      /\ offer # NoOffer /\ UNCHANGED <<offer, form, misswiped, raised>> /\ latched' \in {latched, TRUE}
    BY BuyFormsAssumption DEF PressButton, Swipe, Submit, Open, Disabled, Begin, MovesTo
<1>2. WebTyped'
    BY <1>1 DEF WebInv, WebTyped
<1>3. FormFits'
    BY <1>1 DEF WebInv, FormFits, ShownTotal, ShownFee
<1>4. OneIsSent'
    BY <1>1 DEF WebInv, OneIsSent, Sent
<1>5. placed'[c] = p /\ DOMAIN placed' = Presses /\ \A d \in Presses \ {c} : placed'[d] = placed[d]
    BY <1>1 DEF WebInv
<1>6. OrderFits(c)'
    <2>1. Announced \in BOOLEAN /\ (Announced => form.wallet)
        BY Zenon DEF Announced
    <2>2. form.wallet /\ ~Announced => raised
        BY DEF WebInv, FormFits, Announced, Total
    <2>3. Total = ShownTotal(form.quantity) /\ ShownTotal(form.quantity)' = ShownTotal(form.quantity)
        BY <1>1 DEF Total, ShownTotal, ShownFee
    <2>4. /\ p.quantity = form.quantity /\ p.wallet = form.wallet /\ p.announced = Announced
          /\ p.raised = raised /\ p.charged = -1 /\ p.shown = Total
        OBVIOUS
    <2>5. \A x : p \in [quantity : 0..MaxTickets, promo : BOOLEAN, wallet : BOOLEAN, announced : BOOLEAN,
                        raised : BOOLEAN, shown : {Total}, charged : {-1, x}]
        BY <2>1 DEF WebInv, WebTyped
    <2> HIDE DEF p
    <2>6. (ShownTotal(placed[c].quantity))' = Total
        BY <1>1, <1>5, <2>3, <2>4 DEF ShownTotal, ShownFee
    <2> DEFINE charge == (Charge(placed[c]))'
    <2>7. p \in [quantity : 0..MaxTickets, promo : BOOLEAN, wallet : BOOLEAN, announced : BOOLEAN,
                 raised : BOOLEAN, shown : {(ShownTotal(placed[c].quantity))'},
                 charged : {-1, charge}]
        BY <2>5, <2>6
    <2> QED
        BY <1>1, <1>5, <2>1, <2>2, <2>4, <2>7 DEF OrderFits
<1>7. ASSUME NEW d \in Presses \ {c}
      PROVE  IF pc'[d] = "idle" THEN placed'[d] = <<>> ELSE OrderFits(d)'
    BY <1>1, <1>5, OrderStillFits DEF WebInv
<1> QED
    BY <1>1, <1>2, <1>3, <1>4, <1>5, <1>6, <1>7 DEF WebInv
LEMMA OrderMoves ==
    ASSUME WebInv, NEW c \in Presses,
           AcceptOrder(c) \/ RefuseOrder(c) \/ LeavePage(c) \/ ShowError(c)
    PROVE  WebInv'
<1>1. /\ UNCHANGED <<offer, form, raised>> /\ pc[c] \in {"order", "answer", "refusal"}
      /\ pc'[c] \in {"answer", "refusal"} \cup Ended /\ \A d \in Presses \ {c} : pc'[d] = pc[d]
      /\ \/ UNCHANGED <<submitting, latched, misswiped>>
         \/ pc'[c] \in {"refused", "dead"} /\ submitting' = FALSE /\ latched' = FALSE /\ misswiped' = FALSE
    BY BuyFormsAssumption
    DEF AcceptOrder, RefuseOrder, LeavePage, ShowError, Reset, Goto, CutShort, MovesTo, Busy,
        Started, Ended, buyVars, formVars, WebInv, WebTyped
<1>2. WebTyped'
    BY <1>1 DEF WebInv, WebTyped
<1>3. FormFits'
    BY <1>1 DEF WebInv, FormFits, ShownTotal, ShownFee
<1>4. OneIsSent'
    BY <1>1 DEF WebInv, OneIsSent, Sent, Ended
<1>5. OrderFits(c)
    BY <1>1 DEF WebInv
<1>6. /\ DOMAIN placed' = Presses /\ \A d \in Presses \ {c} : placed'[d] = placed[d]
      /\ OrderFits(c)'
    <2>1. CASE ~AcceptOrder(c)
        <3>1. placed' = placed
            BY <2>1 DEF RefuseOrder, LeavePage, ShowError, buyVars, formVars
        <3> QED
            BY <1>1, <1>5, <3>1, OrderStillFits DEF WebInv
    <2>2. CASE AcceptOrder(c)
        <3> DEFINE p == placed[c]
                   charge == Charge(p)
        <3>1. /\ placed' = [placed EXCEPT ![c] = [p EXCEPT !.charged = charge]]
              /\ p.wallet => charge <= offer.balance
            BY <2>2 DEF AcceptOrder
        <3>2. p \in [quantity : 0..MaxTickets, promo : BOOLEAN, wallet : BOOLEAN, announced : BOOLEAN,
                     raised : BOOLEAN, shown : {ShownTotal(p.quantity)}, charged : {-1, charge}]
            BY <1>5 DEF OrderFits
        <3>3. placed'[c] = [p EXCEPT !.charged = charge]
            BY <3>1 DEF WebInv
        <3>4. (Charge(placed[c]))' = charge
            <4>1. placed'[c].quantity = p.quantity /\ placed'[c].promo = p.promo
                BY <3>2, <3>3
            <4> QED
                BY <1>1, <4>1 DEF Charge
        <3>5. (ShownTotal(placed[c].quantity))' = ShownTotal(p.quantity)
            <4>1. placed'[c].quantity = p.quantity
                BY <3>2, <3>3
            <4> QED
                BY <1>1, <4>1 DEF ShownTotal, ShownFee
        <3> HIDE DEF charge, p
        <3>6. /\ placed'[c].announced = p.announced /\ placed'[c].wallet = p.wallet
              /\ placed'[c].raised = p.raised /\ placed'[c].charged = charge
            BY <3>2, <3>3
        <3>7. placed'[c] \in [quantity : 0..MaxTickets, promo : BOOLEAN, wallet : BOOLEAN,
                              announced : BOOLEAN, raised : BOOLEAN,
                              shown : {(ShownTotal(placed[c].quantity))'},
                              charged : {-1, (Charge(placed[c]))'}]
            BY <3>2, <3>3, <3>4, <3>5
        <3>8. (p.announced => p.wallet) /\ (p.wallet /\ ~p.announced => p.raised) /\ offer # NoOffer
            BY <1>5 DEF OrderFits, p
        <3>9. OrderFits(c)'
            BY <1>1, <3>1, <3>6, <3>7, <3>8 DEF OrderFits
        <3> QED
            BY <3>1, <3>9 DEF WebInv
    <2> QED
        BY <2>1, <2>2
<1>7. ASSUME NEW d \in Presses \ {c}
      PROVE  IF pc'[d] = "idle" THEN placed'[d] = <<>> ELSE OrderFits(d)'
    BY <1>1, <1>6, OrderStillFits DEF WebInv
<1> QED
    BY <1>1, <1>2, <1>3, <1>4, <1>6, <1>7 DEF WebInv, Ended

LEMMA WebUntouched ==
    ASSUME WebInv, UNCHANGED formVars, \A c \in Presses : pc'[c] = pc[c]
    PROVE  WebInv'
<1> USE DEF formVars
<1>1. WebTyped' /\ FormFits' /\ OneIsSent'
    BY DEF WebInv, WebTyped, FormFits, OneIsSent, Sent, ShownTotal, ShownFee
<1>2. ASSUME NEW c \in Presses
      PROVE  IF pc'[c] = "idle" THEN placed'[c] = <<>> ELSE OrderFits(c)'
    BY OrderStillFits DEF WebInv
<1> QED
    BY <1>1, <1>2 DEF WebInv

-------------------------------------------------------------------------------
(* The event screen of the app.                                            *)
AppTyped ==
    /\ tier \in Tiers \cup {NoTier} /\ hasSeats \in BOOLEAN /\ buying \in BOOLEAN
    /\ seatList \in [Tiers -> {"unasked", "waiting", "here", "failed"}]
    /\ picked \subseteq UNION {SeatsOfTier(t) : t \in Tiers}
    /\ count \in 1..MaxTickets
    /\ \A c \in AppPresses : pc[c] \in {"idle", "order", "answer", "refusal"} \cup Ended

(* What the screen shows is of the tier that is selected.                  *)
ScreenFits ==
    IF tier = NoTier THEN picked = {}
    ELSE /\ picked \subseteq SeatsOfTier(tier)
         /\ seatList[tier] # "unasked"
         /\ seatList[tier] = "here" => (hasSeats <=> tier \in SeatedTiers)

AppOrderFits(c) ==
    LET o == appOrder[c]
    IN  /\ o.tier \in Tiers /\ o.seats \subseteq SeatsOfTier(o.tier)
        /\ o.seats = {} => o.count \in Nat \ {0}
        /\ o.tier \in SeatedTiers /\ o.seats = {} =>
              o.list \in {"waiting", "failed"} /\ pc[c] \notin {"answer", "done"}

AppInv ==
    /\ AppTyped /\ ScreenFits /\ DOMAIN appOrder = AppPresses
    /\ \A c \in AppPresses : IF pc[c] = "idle" THEN appOrder[c] = <<>> ELSE AppOrderFits(c)

LEMMA AppUntouched ==
    ASSUME AppInv, UNCHANGED appVars, \A c \in AppPresses : pc'[c] = pc[c]
    PROVE  AppInv'
    BY DEF AppInv, AppTyped, ScreenFits, AppOrderFits, appVars

LEMMA ScreenStep ==
    ASSUME AppInv,
           \/ \E v \in AppVisits : OpenScreen(v)
           \/ \E t \in Tiers : SelectTier(t) \/ \E how \in {"here", "failed"} : SeatListEnds(t, how)
           \/ \E s \in UNION {SeatsOfTier(t) : t \in Tiers} : ToggleSeat(s)
           \/ StepCount
    PROVE  AppInv'
<1>1. \A c \in AppPresses : pc'[c] = pc[c]
    BY BuyFormsAssumption, PressesAssumption
    DEF OpenScreen, SelectTier, SeatListEnds, ToggleSeat, StepCount, Begin, MovesTo, requestVars
<1>2. UNCHANGED <<appOrder, buying>>
    BY DEF OpenScreen, SelectTier, SeatListEnds, ToggleSeat, StepCount
<1>3. ASSUME AppTyped', ScreenFits' PROVE AppInv'
    <2>1. ASSUME NEW c \in AppPresses
          PROVE  IF pc'[c] = "idle" THEN appOrder'[c] = <<>> ELSE AppOrderFits(c)'
        BY <1>1, <1>2 DEF AppInv, AppOrderFits
    <2> QED
        BY <1>2, <1>3, <2>1 DEF AppInv
<1> USE BuyFormsAssumption
<1>4. ASSUME NEW v \in AppVisits, OpenScreen(v) PROVE AppInv'
    <2>1. PICK t \in Tiers : /\ tier = NoTier /\ tier' = t /\ seatList' = [seatList EXCEPT ![t] = "waiting"]
                             /\ UNCHANGED <<hasSeats, picked, count, buying, appOrder>>
        BY <1>4 DEF OpenScreen
    <2>2. AppTyped'
        BY <1>1, <2>1 DEF AppInv, AppTyped
    <2>3. tier' # NoTier /\ seatList'[tier'] = "waiting" /\ picked' = {}
        BY <2>1 DEF AppInv, AppTyped, ScreenFits
    <2>4. ScreenFits'
        BY <2>3 DEF ScreenFits
    <2> QED
        BY <1>3, <2>2, <2>4
<1>5. ASSUME NEW t \in Tiers, SelectTier(t) PROVE AppInv'
    <2>1. /\ tier # NoTier /\ tier' = t /\ picked' = {} /\ UNCHANGED count
          /\ seatList' = [seatList EXCEPT ![t] = IF seatList[t] = "unasked" THEN "waiting" ELSE seatList[t]]
          /\ hasSeats' = TakenForSeated(t, seatList[t])
        BY <1>5 DEF SelectTier, OnScreen, PicksAfterSelect
    <2>2. seatList[t] \in {"unasked", "waiting", "here", "failed"}
        BY DEF AppInv, AppTyped
    <2>3. /\ hasSeats' \in BOOLEAN
          /\ seatList[t] = "here" => hasSeats' = (t \in SeatedTiers)
        <3>1. (t \in SeatedTiers) \in BOOLEAN
            OBVIOUS
        <3>2. hasSeats \in BOOLEAN
            BY DEF AppInv, AppTyped
        <3> QED
            BY <2>1, <2>2, <3>1, <3>2 DEF TakenForSeated
    <2>4. AppTyped'
        BY <1>1, <1>2, <2>1, <2>2, <2>3 DEF AppInv, AppTyped
    <2>5. /\ tier' # NoTier /\ seatList'[tier'] # "unasked"
          /\ seatList'[tier'] = "here" => seatList[t] = "here"
        BY <2>1, <2>2 DEF AppInv, AppTyped
    <2>6. ScreenFits'
        BY <2>1, <2>3, <2>5 DEF ScreenFits
    <2> QED
        BY <1>3, <2>4, <2>6
<1>6. ASSUME NEW t \in Tiers, NEW how \in {"here", "failed"}, SeatListEnds(t, how) PROVE AppInv'
    <2>1. /\ seatList[t] = "waiting" /\ seatList' = [seatList EXCEPT ![t] = how]
          /\ hasSeats' = IF t = tier THEN TakenForSeated(t, how) ELSE hasSeats
          /\ UNCHANGED <<tier, picked, count>>
        BY <1>6 DEF SeatListEnds
    <2>2. hasSeats' \in BOOLEAN /\ (t = tier /\ how = "here" => hasSeats' = (t \in SeatedTiers))
        <3>1. (t \in SeatedTiers) \in BOOLEAN
            OBVIOUS
        <3>2. hasSeats \in BOOLEAN
            BY DEF AppInv, AppTyped
        <3> QED
            BY <2>1, <3>1, <3>2 DEF TakenForSeated
    <2>3. AppTyped'
        BY <1>1, <1>2, <2>1, <2>2 DEF AppInv, AppTyped
    <2>4. /\ seatList'[t] = how /\ \A u \in Tiers \ {t} : seatList'[u] = seatList[u]
        BY <2>1 DEF AppInv, AppTyped
    <2>5. ScreenFits'
        BY <2>1, <2>2, <2>4 DEF AppInv, AppTyped, ScreenFits
    <2> QED
        BY <1>3, <2>3, <2>5
<1>7. ASSUME NEW s, ToggleSeat(s) PROVE AppInv'
    <2>1. /\ tier # NoTier /\ s \in SeatsOfTier(tier) /\ picked' \subseteq picked \cup {s}
          /\ UNCHANGED <<tier, seatList, hasSeats, count>>
        BY <1>7 DEF ToggleSeat, OnScreen
    <2>2. AppTyped'
        BY <1>1, <1>2, <2>1 DEF AppInv, AppTyped
    <2>3. ScreenFits'
        BY <2>1 DEF AppInv, ScreenFits
    <2> QED
        BY <1>3, <2>2, <2>3
<1>8. ASSUME StepCount PROVE AppInv'
    <2>1. count' \in 1..MaxTickets /\ UNCHANGED <<tier, seatList, hasSeats, picked>>
        BY <1>8 DEF StepCount
    <2>2. AppTyped' /\ ScreenFits'
        BY <1>1, <1>2, <2>1 DEF AppInv, AppTyped, ScreenFits
    <2> QED
        BY <1>3, <2>2
<1> QED
    BY <1>4, <1>5, <1>6, <1>7, <1>8

LEMMA AppOrderStep ==
    ASSUME AppInv, NEW c \in AppPresses, Buy(c) \/ AnswerApp(c) \/ EndBuy(c)
    PROVE  AppInv'
<1>1. /\ UNCHANGED <<tier, seatList, hasSeats, picked, count>> /\ \A d \in AppPresses \ {c} : pc'[d] = pc[d]
    BY BuyFormsAssumption
    DEF Buy, AnswerApp, EndBuy, Begin, Goto, CutShort, MovesTo, buyVars, appVars
<1>2. ScreenFits'
    BY <1>1 DEF AppInv, ScreenFits
<1>3. ASSUME NEW d \in AppPresses \ {c}, appOrder'[d] = appOrder[d]
      PROVE  IF pc'[d] = "idle" THEN appOrder'[d] = <<>> ELSE AppOrderFits(d)'
    BY <1>1, <1>3 DEF AppInv, AppOrderFits
<1>4. CASE Buy(c)
    <2> DEFINE o == [tier |-> tier, seats |-> picked, list |-> seatList[tier],
                     count |-> IF picked = {} THEN count ELSE Cardinality(picked)]
    <2>1. /\ tier # NoTier /\ ~(hasSeats /\ picked = {}) /\ pc'[c] = "order" /\ buying' = TRUE
          /\ appOrder' = [appOrder EXCEPT ![c] = o]
        BY <1>4, BuyFormsAssumption DEF Buy, Begin, MovesTo
    <2>2. AppTyped'
        BY <1>1, <2>1 DEF AppInv, AppTyped
    <2>3. appOrder'[c] = o /\ DOMAIN appOrder' = AppPresses
        BY <2>1 DEF AppInv
    <2>4. o.tier = tier /\ o.seats = picked /\ o.list = seatList[tier] /\ (picked = {} => o.count = count)
        OBVIOUS
    <2> HIDE DEF o
    <2>5. /\ tier \in Tiers /\ picked \subseteq SeatsOfTier(tier) /\ count \in Nat \ {0}
          /\ tier \in SeatedTiers /\ picked = {} => seatList[tier] \in {"waiting", "failed"}
        BY <2>1 DEF AppInv, AppTyped, ScreenFits
    <2>6. AppOrderFits(c)'
        BY <2>1, <2>3, <2>4, <2>5 DEF AppOrderFits
    <2>7. \A d \in AppPresses \ {c} : appOrder'[d] = appOrder[d]
        BY <2>1 DEF AppInv
    <2> QED
        BY <1>2, <1>3, <2>1, <2>2, <2>3, <2>6, <2>7 DEF AppInv
<1>5. CASE AnswerApp(c)
    <2>1. /\ UNCHANGED appVars /\ pc[c] = "order" /\ pc'[c] \in {"answer", "refusal"}
          /\ pc'[c] = "answer" => (appOrder[c].tier \in SeatedTiers =>
                                      Cardinality(appOrder[c].seats) = appOrder[c].count)
        BY <1>5, BuyFormsAssumption DEF AnswerApp, Goto, MovesTo, buyVars
    <2>2. AppOrderFits(c)
        BY <2>1 DEF AppInv
    <2>3. AppOrderFits(c)'
        BY <2>1, <2>2, FS_EmptySet DEF AppOrderFits, appVars
    <2>4. AppTyped'
        BY <1>1, <2>1 DEF AppInv, AppTyped, appVars
    <2> QED
        BY <1>2, <1>3, <2>1, <2>3, <2>4 DEF AppInv, appVars
<1>6. CASE EndBuy(c)
    <2>1. /\ UNCHANGED appOrder /\ buying' = FALSE /\ pc[c] # "idle" /\ pc'[c] \in Ended
          /\ pc'[c] = "done" => pc[c] = "answer"
        BY <1>6, BuyFormsAssumption DEF EndBuy, Goto, CutShort, MovesTo, Busy, Started, Ended
    <2>2. AppOrderFits(c)
        BY <2>1 DEF AppInv
    <2>3. AppOrderFits(c)'
        BY <2>1, <2>2 DEF AppOrderFits, Ended
    <2>4. AppTyped'
        BY <1>1, <2>1 DEF AppInv, AppTyped
    <2> QED
        BY <1>2, <1>3, <2>1, <2>3, <2>4 DEF AppInv, Ended
<1> QED
    BY <1>4, <1>5, <1>6
LEMMA BuyInit == Init => WebInv /\ AppInv
<1> SUFFICES ASSUME Init PROVE WebInv /\ AppInv
    OBVIOUS
<1>1. \A c \in Presses \cup AppPresses : pc[c] = "idle"
    BY BuyFormsAssumption DEF Init, RequestsInit
<1>2. WebTyped
    <2>1. MaxTickets \in Nat \ {0}
        BY BuyFormsAssumption
    <2>2. form \in [quantity : 0..MaxTickets, promo : BOOLEAN, wallet : BOOLEAN, email : Emails]
        BY <2>1 DEF Init, BuyFormsInit, Emails
    <2>3. /\ offer = NoOffer /\ submitting = FALSE /\ latched = FALSE /\ misswiped = FALSE
          /\ raised = FALSE
        BY DEF Init, BuyFormsInit
    <2> QED
        BY <1>1, <2>2, <2>3 DEF WebTyped
<1>3. FormFits /\ OneIsSent
    <2>1. form.wallet = FALSE /\ latched = FALSE
        BY DEF Init, BuyFormsInit
    <2>2. \A c \in Presses : ~Sent(c)
        BY <1>1 DEF Sent
    <2> QED
        BY <2>1, <2>2 DEF FormFits, OneIsSent
<1>4. WebInv
    <2>1. DOMAIN placed = Presses /\ \A c \in Presses : placed[c] = <<>>
        BY DEF Init, BuyFormsInit
    <2> QED
        BY <1>1, <1>2, <1>3, <2>1 DEF WebInv
<1>5. AppTyped /\ ScreenFits
    <2>1. MaxTickets \in Nat \ {0}
        BY BuyFormsAssumption
    <2>2. /\ tier = NoTier /\ hasSeats = FALSE /\ picked = {} /\ count = 1 /\ buying = FALSE
          /\ seatList = [t \in Tiers |-> "unasked"]
        BY DEF Init, BuyFormsInit
    <2>3. count \in 1..MaxTickets
        BY <2>1, <2>2
    <2> QED
        BY <1>1, <2>2, <2>3 DEF AppTyped, ScreenFits
<1>6. AppInv
    <2>1. DOMAIN appOrder = AppPresses /\ \A c \in AppPresses : appOrder[c] = <<>>
        BY DEF Init, BuyFormsInit
    <2> QED
        BY <1>1, <1>5, <2>1 DEF AppInv
<1> QED
    BY <1>4, <1>6

LEMMA BuyStep ==
    ASSUME WebInv, AppInv, BuyFormsNext
    PROVE  WebInv' /\ AppInv'
<1>1. CASE \/ (\E delta \in {-1, 1} : Bump(delta)) \/ ToggleWallet \/ TypePromo \/ TypeEmail \/ Misswipe
           \/ \E v \in Visits : OpenPage(v)
           \/ \E c \in Presses : \/ PressButton(c) \/ Swipe(c) \/ AcceptOrder(c) \/ RefuseOrder(c)
                                 \/ LeavePage(c) \/ ShowError(c)
    <2>1. WebInv'
        BY <1>1, FormStep, PageOpened, OrderIsSent, OrderMoves
    <2>2. UNCHANGED appVars
        BY <1>1 DEF Bump, ToggleWallet, TypePromo, TypeEmail, Misswipe, OpenPage, PressButton, Swipe,
                    Submit, AcceptOrder, RefuseOrder, LeavePage, ShowError, Reset, buyVars
    <2>3. \A c \in AppPresses : pc'[c] = pc[c]
        BY <1>1, BuyFormsAssumption, PressesAssumption
        DEF Bump, ToggleWallet, TypePromo, TypeEmail, Misswipe, OpenPage, PressButton, Swipe,
            Submit, AcceptOrder, RefuseOrder, LeavePage, ShowError, Begin, Goto, CutShort, MovesTo,
            requestVars
    <2> QED
        BY <2>1, <2>2, <2>3, AppUntouched
<1>2. CASE \/ \E v \in AppVisits : OpenScreen(v)
           \/ \E t \in Tiers : SelectTier(t) \/ \E how \in {"here", "failed"} : SeatListEnds(t, how)
           \/ \E s \in UNION {SeatsOfTier(t) : t \in Tiers} : ToggleSeat(s)
           \/ StepCount
           \/ \E c \in AppPresses : Buy(c) \/ AnswerApp(c) \/ EndBuy(c)
    <2>1. AppInv'
        BY <1>2, ScreenStep, AppOrderStep
    <2>2. UNCHANGED formVars
        BY <1>2 DEF OpenScreen, SelectTier, SeatListEnds, ToggleSeat, StepCount, Buy, AnswerApp,
                    EndBuy, buyVars
    <2>3. \A c \in Presses : pc'[c] = pc[c]
        BY <1>2, BuyFormsAssumption, PressesAssumption
        DEF OpenScreen, SelectTier, SeatListEnds, ToggleSeat, StepCount, Buy, AnswerApp, EndBuy,
            Begin, Goto, CutShort, MovesTo, requestVars
    <2> QED
        BY <2>1, <2>2, <2>3, WebUntouched
<1> QED
    BY <1>1, <1>2 DEF BuyFormsNext

LEMMA BuyInductive == WebInv /\ AppInv /\ [Next]_vars => WebInv' /\ AppInv'
<1> SUFFICES ASSUME WebInv, AppInv, [Next]_vars PROVE WebInv' /\ AppInv'
    OBVIOUS
<1>1. CASE UNCHANGED vars
    BY <1>1, WebUntouched, AppUntouched DEF vars, clientVars, buyVars, requestVars
<1>2. CASE Next
    <2>1. PICK i \in 1..9 : StepOf(i)
        BY <1>2, StepsOfParts
    <2>2. CASE i = 7
        BY <2>1, <2>2, BuyStep DEF StepOf
    <2>3. CASE i # 7
        <3>1. \A c \in Presses \cup AppPresses : pc'[c] = pc[c]
            BY <2>1, <2>3, PartsByNumber, BuyFormsAssumption, OthersAreIdle DEF BuyPart
        <3>2. UNCHANGED <<formVars, appVars>>
            BY <2>1, <2>3 DEF StepOf, buyVars
        <3> QED
            BY <3>1, <3>2, WebUntouched, AppUntouched
    <2> QED
        BY <2>2, <2>3
<1> QED
    BY <1>1, <1>2

LEMMA BuyHolds == WebInv /\ AppInv => OrderAsAnnounced
<1> SUFFICES ASSUME WebInv, AppInv PROVE OrderAsAnnounced
    OBVIOUS
<1>1. \A c \in Presses : placed[c] # <<>> => OrderFits(c)
    BY DEF WebInv
<1>2. ChargedAsShown
    <2> SUFFICES ASSUME NEW c \in ChargedOrders,
                        Applicable([capacity |-> offer.tt.capacity,
                                    taken |-> offer.tt.sold + placed[c].quantity], offer.rules) = {}
                 PROVE  /\ placed[c].charged <= placed[c].shown
                        /\ ~placed[c].promo => placed[c].charged = placed[c].shown
        BY DEF ChargedAsShown
    <2>1. c \in Presses /\ placed[c] # <<>> /\ placed[c].charged >= 0
        BY DEF ChargedOrders
    <2>2. OrderFits(c) /\ offer \in Offers
        BY <1>1, <2>1 DEF WebInv, WebTyped, OrderFits
    <2> DEFINE p == placed[c]
    <2>3. /\ p.quantity \in Nat /\ p.promo \in BOOLEAN /\ p.shown = ShownTotal(p.quantity)
          /\ p.charged = Charge(p)
        BY <2>1, <2>2, BuyFormsAssumption DEF OrderFits
    <2> QED
        BY <2>2, <2>3, ChargeShown
<1>3. WalletAsAnnounced
    BY <1>1 DEF WalletAsAnnounced, OrderFits
<1>4. OneOrderAtATime
    <2>1. \A c \in Busy \cap Presses : Sent(c) /\ pc[c] # "done"
        BY DEF Busy, Started, Ended, Sent, WebInv, WebTyped
    <2>2. \A c, d \in Busy \cap Presses : c = d
        BY <2>1 DEF WebInv, OneIsSent
    <2>3. Busy \cap Presses = {} \/ \E c : Busy \cap Presses = {c}
        BY <2>2
    <2>4. Cardinality(Busy \cap Presses) <= 1
        <3>1. CASE Busy \cap Presses = {}
            BY <3>1, FS_EmptySet
        <3>2. CASE \E c : Busy \cap Presses = {c}
            <4>1. PICK c : Busy \cap Presses = {c}
                BY <3>2
            <4>2. Cardinality({c}) = 1
                BY FS_Singleton
            <4> QED
                BY <4>1, <4>2
        <3> QED
            BY <2>3, <3>1, <3>2
    <2>5. (\E c \in Presses : pc[c] = "done") => Busy \cap Presses = {}
        BY <2>1 DEF WebInv, OneIsSent, Sent
    <2> QED
        BY <2>4, <2>5 DEF OneOrderAtATime, WebInv, OneIsSent
<1>5. AppOrdersFit
    BY DEF AppOrdersFit, AppInv, AppOrderFits
<1> QED
    BY <1>2, <1>3, <1>4, <1>5 DEF OrderAsAnnounced

(* BuyForm and the event screen of the app: an order is charged to the     *)
(* kobo what the button said, the wallet is asked for when it says so, one *)
(* order is sent at a time, and seats are of the tier they are ordered     *)
(* for: for any offer, any price and any number of orders that are         *)
(* refused, cut short or tried again.                                      *)
THEOREM OrdersAlwaysAnnounced == Spec => []OrderAsAnnounced
    BY BuyInit, BuyInductive, BuyHolds, PTL DEF Spec
-------------------------------------------------------------------------------
(* A visit: the places it knows, the way back, and the calls under way.    *)
SpotsKnown ==
    /\ session \in {"none", "stale", "user", "admin"}
    /\ stage \in {"closed", "opening", "loading", "shown", "sending"}
    /\ \A t \in Tours : pc[t] \in {"idle", "visit"} /\ (stage = "closed" => pc[t] = "idle")
    /\ stage # "closed" => KnownSpot(at)
    /\ onward = Nowhere \/ KnownSpot(onward)
    /\ headed = Nowhere \/ KnownSpot(headed)
    /\ detour \in BOOLEAN

(* Only the sign-in form knows a place to come back to, and was told of it,*)
(* unless the visitor went on from there to another form.                  *)
KnowsItsWay(spot, next, wanted, strays) ==
    \/ wanted = Nowhere \/ PlaceIsLost(wanted) \/ strays
    \/ spot.page = "/signin" /\ next = wanted

AskedByPage ==
    /\ stage \in {"closed", "opening", "shown"} => calling = {}
    /\ stage = "loading" => calling \subseteq here.loads \cup here.queried \cup {AuthApi.me}
    /\ stage = "sending" => calling \subseteq {s.call : s \in here.sends}

PassesNow(c) ==
    session = "stale" \/ Passes(GuardOf[c], IF c.as = "nobody" THEN "none" ELSE session)

(* What a page has to offer an admin it offers to nobody else.             *)
AdminsOnly ==
    stage \in {"shown", "sending"} /\ here.gate.who = "admin" /\ here.sends # {} =>
        session \in {"admin", "stale"}

SiteInv ==
    /\ SpotsKnown /\ KnowsItsWay(at, onward, headed, detour)
    /\ AskedByPage /\ (\A c \in calling : PassesNow(c))
    /\ NothingWithoutSession /\ AdminsOnly

LEMMA PageOf ==
    ASSUME NEW spot, KnownSpot(spot)
    PROVE  /\ PageAt[spot.page] \in AllPages /\ PageAt[spot.page].path = spot.page
           /\ LeadsSomewhere(PageAt[spot.page]) /\ BringsBack(PageAt[spot.page])
           /\ AsksWhatItMay(PageAt[spot.page])
<1>1. \E p \in AllPages : p.path = spot.page
    BY DEF KnownSpot, Paths
<1>2. PageAt[spot.page] = CHOOSE p \in AllPages : p.path = spot.page
    BY DEF KnownSpot, PageAt
<1>3. PageAt[spot.page] \in AllPages /\ PageAt[spot.page].path = spot.page
    BY <1>1, <1>2
<1> QED
    BY <1>3, SitemapAssumption

LEMMA Landmarks ==
    /\ KnownSpot(Spot("/", {})) /\ KnownSpot(Spot("/account", {}))
    /\ HomePage \in AllPages /\ AuthApi.me \in HomePage.loads /\ HomePage.gate.who = "all"
    /\ AuthApi.me.as = "user" /\ AuthApi.me # DeleteAccount
<1>1. HomePage \in AllPages /\ AccountPage \in AllPages
    BY DEF AllPages, ShopPages, UserPages
<1>2. HomePage.path = "/" /\ AccountPage.path = "/account"
    BY DEF HomePage, AccountPage, Page
<1>3. "/" \in Paths /\ "/account" \in Paths
    BY <1>1, <1>2 DEF Paths
<1>4. \A path \in {"/", "/account"} : KnownSpot(Spot(path, {}))
    BY <1>3 DEF KnownSpot, Spot
<1>5. AuthApi.me \in HomePage.loads /\ HomePage.gate.who = "all"
    BY DEF HomePage, Page, MobileGreetingStrip, ForAll, Gate
<1>6. AuthApi.me.as = "user" /\ AuthApi.me.verb = "GET" /\ DeleteAccount.verb = "DELETE"
    BY DEF AuthApi, Ask, Tell, Call, DeleteAccount
<1>7. AuthApi.me # DeleteAccount
    BY <1>6
<1> QED
    BY <1>1, <1>4, <1>5, <1>6, <1>7

(* What LeadsSomewhere says of the page's gate, and what may be followed.  *)
LEMMA GateLeads ==
    ASSUME NEW p, LeadsSomewhere(p)
    PROVE  p.gate.to.next = Nowhere \/ KnownSpot(p.gate.to.next)
<1> DEFINE to == p.gate.to
<1>1. to \in FollowedFrom(p) \cup p.moves \cup {to} \cup UNION {s.leads : s \in p.sends}
    OBVIOUS
<1>2. ASSUME NEW link \in FollowedFrom(p) \cup p.moves \cup {to} \cup UNION {s.leads : s \in p.sends}
      PROVE  link.next = Nowhere \/ KnownSpot(link.next)
    BY Zenon DEF LeadsSomewhere
<1> HIDE DEF to
<1>3. to.next = Nowhere \/ KnownSpot(to.next)
    BY <1>1, <1>2
<1> QED
    BY <1>3 DEF to

LEMMA MayBeFollowed ==
    ASSUME NEW p
    PROVE  /\ \A token \in {"none", "stale", "user", "admin"} : LinksOn(p, token) \subseteq FollowedFrom(p)
           /\ p.asks \subseteq FollowedFrom(p) /\ p.signOut \subseteq FollowedFrom(p)
           /\ p.gate.who = "visitor" => p.gate.to \in FollowedFrom(p)
           /\ \A s \in p.sends : ~SignsIn(s.call) => s.leads \subseteq FollowedFrom(p)
<1> DEFINE shown == UNION {LinksOn(p, token) : token \in {"none", "stale", "user", "admin"}}
           turned == IF p.gate.who = "visitor" THEN {p.gate.to} ELSE {}
           led == UNION {s.leads : s \in {r \in p.sends : ~SignsIn(r.call)}}
<1>1. FollowedFrom(p) = shown \cup p.asks \cup p.signOut \cup led \cup turned
    BY DEF FollowedFrom
<1>2. ASSUME NEW token \in {"none", "stale", "user", "admin"}, NEW link \in LinksOn(p, token)
      PROVE  link \in shown
    OBVIOUS
<1>3. p.gate.who = "visitor" => p.gate.to \in turned
    OBVIOUS
<1>4. ASSUME NEW s \in p.sends, ~SignsIn(s.call) PROVE s.leads \subseteq led
    <2>1. s \in {r \in p.sends : ~SignsIn(r.call)}
        BY <1>4
    <2> QED
        BY <2>1
<1> HIDE DEF shown, turned, led
<1> QED
    BY <1>1, <1>2, <1>3, <1>4

(* A page that opens: its spot is known, and it knows its way.             *)
LEMMA PageOpens ==
    ASSUME NEW spot, NEW next, NEW wanted, NEW strays \in BOOLEAN, Opens(spot, next, wanted, strays),
           KnownSpot(spot), next = Nowhere \/ KnownSpot(next),
           wanted = Nowhere \/ KnownSpot(wanted),
           spot = wanted \/ KnowsItsWay(spot, next, wanted, strays),
           session' \in {"none", "stale", "user", "admin"},
           \A t \in Tours : pc'[t] \in {"idle", "visit"}
    PROVE  SiteInv'
<1>1. /\ at' = spot /\ onward' = next /\ stage' = "opening" /\ calling' = {}
      /\ headed' = IF spot = wanted THEN Nowhere ELSE wanted
      /\ detour' = (strays /\ wanted \notin {Nowhere, spot})
    BY DEF Opens
<1>2. SpotsKnown'
    BY <1>1 DEF SpotsKnown
<1>3. KnowsItsWay(at, onward, headed, detour)'
    BY <1>1 DEF KnowsItsWay
<1>4. AskedByPage' /\ NothingWithoutSession' /\ AdminsOnly'
    BY <1>1 DEF AskedByPage, NothingWithoutSession, AdminsOnly
<1> QED
    BY <1>1, <1>2, <1>3, <1>4 DEF SiteInv

LEMMA PageKept ==
    ASSUME SiteInv, stage # "closed",
           NEW step \in {"loading", "shown", "sending"}, NEW calls, Keeps(step, calls),
           session' \in {"none", "stale", "user", "admin"},
           \A t \in Tours : pc'[t] \in {"idle", "visit"},
           step = "shown" => calls = {},
           step = "loading" => calls \subseteq here.loads \cup here.queried \cup {AuthApi.me},
           step = "sending" => calls \subseteq {s.call : s \in here.sends},
           \A c \in calls : PassesNow(c)',
           here.gate.who \in {"user", "admin"} => session' # "none",
           step # "loading" /\ here.gate.who = "admin" /\ here.sends # {} =>
               session' \in {"admin", "stale"}
    PROVE  SiteInv'
<1>1. stage' = step /\ calling' = calls /\ at' = at /\ onward' = onward /\ headed' = headed
        /\ detour' = detour
    BY DEF Keeps
<1>2. here' = here
    BY <1>1 DEF here
<1>3. SpotsKnown' /\ KnowsItsWay(at, onward, headed, detour)'
    BY <1>1 DEF SiteInv, SpotsKnown, KnowsItsWay
<1>4. AskedByPage'
    BY <1>1, <1>2 DEF AskedByPage
<1>5. NothingWithoutSession' /\ AdminsOnly'
    BY <1>1, <1>2 DEF NothingWithoutSession, AdminsOnly
<1> QED
    BY <1>1, <1>3, <1>4, <1>5 DEF SiteInv

LEMMA TargetKnown ==
    ASSUME SpotsKnown, NEW link, link.spot = Onward \/ KnownSpot(link.spot)
    PROVE  KnownSpot(Target(link.spot))
    BY Landmarks DEF Target, SpotsKnown

LEMMA LinkFollowed ==
    ASSUME SiteInv, stage # "closed", NEW link \in FollowedFrom(here), Follows(link),
           session' \in {"none", "stale", "user", "admin"}, UNCHANGED pc
    PROVE  SiteInv'
<1>1. SpotsKnown /\ KnownSpot(at)
    BY DEF SiteInv, SpotsKnown
<1>2. here.path = at.page /\ LeadsSomewhere(here) /\ BringsBack(here)
    BY <1>1, PageOf DEF here
<1>3. /\ link.spot = Onward \/ KnownSpot(link.spot)
      /\ link.next = Nowhere \/ KnownSpot(link.next)
    BY <1>2 DEF LeadsSomewhere
<1> DEFINE spot == Target(link.spot)
<1>4. KnownSpot(spot)
    BY <1>1, <1>3, TargetKnown
<1>5. /\ \A t \in Tours : pc'[t] \in {"idle", "visit"}
      /\ headed = Nowhere \/ KnownSpot(headed)
    BY <1>1 DEF SpotsKnown
<1>6. CASE link.next = Nowhere
    <2> DEFINE strays == {at.page, link.spot.page} \subseteq SignInWays
               wanted == IF strays THEN headed ELSE Nowhere
    <2>1. Opens(spot, link.next, wanted, strays)
        BY <1>6 DEF Follows, Goes
    <2>2. KnowsItsWay(spot, link.next, wanted, strays)
        BY DEF KnowsItsWay
    <2>3. strays \in BOOLEAN /\ (wanted = Nowhere \/ KnownSpot(wanted))
        BY <1>5
    <2> HIDE DEF spot, wanted, strays
    <2> QED
        BY <1>3, <1>4, <1>5, <2>1, <2>2, <2>3, PageOpens
<1>7. CASE link.next # Nowhere
    <2>1. KnowsItsWay(spot, link.next, at, FALSE)
        <3>1. CASE at.page \in {"/scan"} \cup AppPaths
            BY <3>1 DEF KnowsItsWay, PlaceIsLost
        <3>2. CASE at.page \notin {"/scan"} \cup AppPaths
            <4>1. /\ link.spot.page = "/signin" /\ link.next = Spot(here.path, {})
                  /\ Understood(here.path) = {}
                BY <1>2, <1>7, <3>2 DEF BringsBack
            <4>2. at = Spot(at.page, at.params) /\ at.params \subseteq Understood(at.page)
                BY <1>1 DEF KnownSpot
            <4>3. link.next = at
                BY <1>2, <4>1, <4>2
            <4>4. Onward.page = "next"
                BY DEF Onward, Spot
            <4>5. spot = link.spot
                BY <4>1, <4>4 DEF Target
            <4> QED
                BY <4>1, <4>3, <4>5 DEF KnowsItsWay
        <3> QED
            BY <3>1, <3>2
    <2>2. Opens(spot, link.next, at, FALSE)
        BY <1>7 DEF Follows, Goes
    <2> HIDE DEF spot
    <2> QED
        BY <1>1, <1>3, <1>4, <1>5, <2>1, <2>2, PageOpens
<1> QED
    BY <1>6, <1>7

(* A page moves on by itself, or after an answer that signs in.            *)
LEMMA GoneOn ==
    ASSUME SiteInv, stage # "closed", NEW link \in here.moves \cup UNION {s.leads : s \in here.sends},
           GoesOn(link), at.page = "/signin" => link.spot = Onward,
           session' \in {"none", "stale", "user", "admin"}, UNCHANGED pc
    PROVE  SiteInv'
<1>1. SpotsKnown /\ KnownSpot(at) /\ KnowsItsWay(at, onward, headed, detour)
    BY DEF SiteInv, SpotsKnown
<1>2. LeadsSomewhere(here)
    BY <1>1, PageOf DEF here
<1>3. /\ link.spot = Onward \/ KnownSpot(link.spot)
      /\ link.next = Nowhere \/ KnownSpot(link.next)
    BY <1>2 DEF LeadsSomewhere
<1> DEFINE spot == Target(link.spot)
<1>4. KnownSpot(spot)
    BY <1>1, <1>3, TargetKnown
<1>5. spot = headed \/ KnowsItsWay(spot, link.next, headed, detour)
    BY <1>1 DEF KnowsItsWay, Target
<1>6. /\ headed = Nowhere \/ KnownSpot(headed)
      /\ detour \in BOOLEAN /\ \A t \in Tours : pc'[t] \in {"idle", "visit"}
    BY <1>1 DEF SpotsKnown
<1>7. Opens(spot, link.next, headed, detour)
    BY DEF GoesOn, Goes
<1> HIDE DEF spot
<1> QED
    BY <1>3, <1>4, <1>5, <1>6, <1>7, PageOpens

LEMMA SentHome ==
    ASSUME SpotsKnown, GoesHome,
           session' \in {"none", "stale", "user", "admin"}, UNCHANGED pc
    PROVE  SiteInv'
<1> DEFINE home == Link("/", {}, Nowhere)
<1>1. home.spot = Spot("/", {}) /\ home.next = Nowhere
    BY DEF Link
<1>2. KnownSpot(Target(home.spot))
    BY <1>1, Landmarks, TargetKnown
<1>3. Opens(Target(home.spot), Nowhere, Nowhere, FALSE)
    BY <1>1 DEF GoesHome, Goes
<1>4. KnowsItsWay(Target(home.spot), Nowhere, Nowhere, FALSE)
    BY DEF KnowsItsWay
<1>5. \A t \in Tours : pc'[t] \in {"idle", "visit"}
    BY DEF SpotsKnown
<1> HIDE DEF home
<1> QED
    BY <1>2, <1>3, <1>4, <1>5, PageOpens

(* Who is turned away is told of by the page, its query where it goes      *)
(* along.                                                                  *)
LEMMA SentToSignIn ==
    ASSUME SiteInv, stage # "closed",
           here.gate.who \in {"user", "admin"} \/ here.onFail = "turned",
           Opens(here.gate.to.spot, OnwardFrom(here.gate), at, FALSE),
           UNCHANGED <<pc, session>>
    PROVE  SiteInv'
<1>1. SpotsKnown /\ KnownSpot(at)
    BY DEF SiteInv, SpotsKnown
<1>2. here.path = at.page /\ LeadsSomewhere(here) /\ BringsBack(here)
    BY <1>1, PageOf DEF here
<1> DEFINE gate == here.gate
           spot == gate.to.spot
           next == gate.to.next
<1>3. KnownSpot(spot) /\ (gate.keeps => next.page = at.page) /\ (next = Nowhere \/ KnownSpot(next))
    <2>1. KnownSpot(spot) /\ (gate.keeps => next.page = at.page)
        BY <1>2 DEF LeadsSomewhere
    <2>2. next = Nowhere \/ KnownSpot(next)
        BY <1>2, GateLeads
    <2> QED
        BY <2>1, <2>2
<1>4. next = Spot(next.page, next.params) /\ at = Spot(at.page, at.params)
        /\ at.params \subseteq Understood(at.page)
    BY <1>1, <1>3 DEF KnownSpot, Nowhere, Spot
<1>5. gate.keeps => OnwardFrom(gate) = at
    <2> SUFFICES ASSUME gate.keeps PROVE OnwardFrom(gate) = at
        OBVIOUS
    <2>1. OnwardFrom(gate) = [next EXCEPT !.params = at.params]
        BY DEF OnwardFrom
    <2>2. \A a, b, d : [Spot(a, b) EXCEPT !.params = d] = Spot(a, d)
        BY DEF Spot
    <2> QED
        BY <1>3, <1>4, <2>1, <2>2
<1>6. ~gate.keeps => OnwardFrom(gate) = next
    BY DEF OnwardFrom
<1>7. OnwardFrom(gate) = Nowhere \/ KnownSpot(OnwardFrom(gate))
    BY <1>1, <1>3, <1>5, <1>6
<1>8. KnowsItsWay(spot, OnwardFrom(gate), at, FALSE)
    <2>1. CASE at.page \in {"/scan"} \cup AppPaths
        BY <2>1 DEF KnowsItsWay, PlaceIsLost
    <2>2. CASE at.page \notin {"/scan"} \cup AppPaths
        <3>1. /\ spot.page = "/signin" /\ next.page = at.page
              /\ \/ gate.keeps
                 \/ /\ next.params = {}
                    /\ Understood(at.page) \subseteq IF at.page = "/account" THEN {"tab"} ELSE {}
            BY <1>2, <2>2 DEF BringsBack
        <3>2. CASE gate.keeps
            BY <1>5, <3>1, <3>2 DEF KnowsItsWay
        <3>3. CASE ~gate.keeps /\ at.params = {}
            BY <1>4, <1>6, <3>1, <3>3 DEF KnowsItsWay
        <3>4. CASE ~gate.keeps /\ at.params # {}
            <4>1. at.page = "/account" /\ at.params = {"tab"}
                BY <1>4, <3>1, <3>4
            <4> QED
                BY <1>4, <4>1 DEF KnowsItsWay, PlaceIsLost
        <3> QED
            BY <3>2, <3>3, <3>4
    <2> QED
        BY <2>1, <2>2
<1>9. /\ \A t \in Tours : pc'[t] \in {"idle", "visit"}
      /\ session' \in {"none", "stale", "user", "admin"}
    BY <1>1 DEF SpotsKnown
<1> HIDE DEF spot, next, gate
<1>10. Opens(spot, OnwardFrom(gate), at, FALSE)
    BY DEF spot, gate
<1> QED
    BY <1>1, <1>3, <1>7, <1>8, <1>9, <1>10, PageOpens
LEMMA SiteIsInit == Init => SiteInv
<1> SUFFICES ASSUME Init PROVE SiteInv
    OBVIOUS
<1>1. /\ at = Nowhere /\ onward = Nowhere /\ headed = Nowhere /\ detour = FALSE
      /\ session = "none" /\ stage = "closed" /\ calling = {}
    BY DEF Init, SiteInit
<1>2. \A t \in Tours : pc[t] = "idle"
    BY SiteAssumption DEF Init, RequestsInit
<1>3. SpotsKnown /\ KnowsItsWay(at, onward, headed, detour)
    BY <1>1, <1>2 DEF SpotsKnown, KnowsItsWay
<1> QED
    BY <1>1, <1>3 DEF SiteInv, AskedByPage, NothingWithoutSession, AdminsOnly

LEMMA SiteOpened ==
    ASSUME SiteInv, NEW tour \in Tours, OpenSite(tour)
    PROVE  SiteInv'
<1>1. \A t \in Tours : pc'[t] \in {"idle", "visit"}
    BY SiteAssumption DEF OpenSite, Begin, MovesTo, SiteInv, SpotsKnown
<1>2. PICK path \in Paths :
          \E params \in {{}, PageAt[path].reads \ {"next"}} : Opens(Spot(path, params), Nowhere, Nowhere, FALSE)
    BY DEF OpenSite
<1>6. PICK params \in {{}, PageAt[path].reads \ {"next"}} : Opens(Spot(path, params), Nowhere, Nowhere, FALSE)
    BY <1>2
<1>3. KnownSpot(Spot(path, params))
    BY <1>6 DEF KnownSpot, Spot, Understood
<1>4. session' \in {"none", "stale", "user", "admin"}
    BY DEF OpenSite
<1>5. KnowsItsWay(Spot(path, params), Nowhere, Nowhere, FALSE)
    BY DEF KnowsItsWay
<1> QED
    BY <1>1, <1>3, <1>4, <1>5, <1>6, PageOpens

LEMMA CallsOfPage ==
    ASSUME SiteInv, stage # "closed"
    PROVE  /\ here \in AllPages /\ AsksWhatItMay(here)
           /\ here.loads \cup here.queried \cup {s.call : s \in here.sends} \subseteq PageCalls
           /\ \A t \in Tours : pc[t] \in {"idle", "visit"}
           /\ session \in {"none", "stale", "user", "admin"}
<1>1. here \in AllPages /\ AsksWhatItMay(here)
    BY PageOf DEF SiteInv, SpotsKnown, here
<1>2. here.loads \cup here.queried \cup {s.call : s \in here.sends} \subseteq PageCalls
    BY <1>1 DEF PageCalls
<1> QED
    BY <1>1, <1>2 DEF SiteInv, SpotsKnown

LEMMA PassOnPage ==
    ASSUME SiteInv, stage # "closed", session' = session,
           NEW c \in here.loads \cup here.queried \cup {s.call : s \in here.sends},
           here.gate.who = "admin" => session \in {"admin", "stale"},
           c.as = "user" => session # "none"
    PROVE  PassesNow(c)'
<1> DEFINE g == GuardOf[c]
<1>1. /\ c.as # "user" => Passes(g, "none")
      /\ c.as # "nobody" /\ here.gate.who # "admin" => Passes(g, "user")
      /\ c.as # "nobody" => Passes(g, "admin")
    BY CallsOfPage DEF AsksWhatItMay
<1>2. session \in {"none", "stale", "user", "admin"}
    BY CallsOfPage
<1>3. session = "stale" \/ Passes(g, IF c.as = "nobody" THEN "none" ELSE session)
    BY <1>1, <1>2
<1> QED
    BY <1>3 DEF PassesNow

LEMMA SiteLoads == ASSUME SiteInv, Load, UNCHANGED pc PROVE SiteInv'
<1> DEFINE step == IF LoadsNow = {} /\ (here.moves = {} \/ here.wants # {}) THEN "shown" ELSE "loading"
<1>1. stage = "opening" /\ ~IsTurnedAway /\ Keeps(step, LoadsNow) /\ session' = session
    BY DEF Load
<1>2. /\ AsksWhatItMay(here) /\ \A t \in Tours : pc[t] \in {"idle", "visit"}
      /\ session \in {"none", "stale", "user", "admin"}
    BY <1>1, CallsOfPage
<1>3. here.gate.who \in {"user", "admin"} => session # "none"
    BY <1>1 DEF IsTurnedAway
<1>4. LoadsNow \subseteq here.loads \cup here.queried \cup {AuthApi.me}
    BY DEF LoadsNow
<1>5. ASSUME NEW c \in LoadsNow PROVE PassesNow(c)'
    <2>1. CASE here.gate.who = "admin" /\ session # "admin"
        <3>1. c = AuthApi.me
            BY <2>1 DEF LoadsNow
        <3>2. session = "stale" \/ session = "user"
            BY <1>2, <1>3, <2>1
        <3>3. AsksWhatItMay(HomePage)
            BY Landmarks, SitemapAssumption
        <3>4. Passes(GuardOf[c], "user") /\ c.as # "nobody"
            BY <3>1, <3>3, Landmarks DEF AsksWhatItMay
        <3> QED
            BY <1>1, <3>2, <3>4 DEF PassesNow
    <2>2. CASE ~(here.gate.who = "admin" /\ session # "admin")
        <3>1. c \in here.loads \cup here.queried /\ (c.as = "user" => session # "none")
            BY <2>2 DEF LoadsNow
        <3> QED
            BY <1>1, <2>2, <3>1, PassOnPage
    <2> QED
        BY <2>1, <2>2
<1>6. here.gate.who = "admin" => step = "loading"
    <2> SUFFICES ASSUME here.gate.who = "admin" PROVE LoadsNow # {}
        OBVIOUS
    <2>1. here.queried = {} /\ AuthApi.me \in here.loads /\ here.wants = {}
        BY <1>2 DEF AsksWhatItMay
    <2>2. CASE session # "admin"
        BY <2>1, <2>2 DEF LoadsNow
    <2>3. CASE session = "admin"
        BY <2>1, <2>3 DEF LoadsNow
    <2> QED
        BY <2>2, <2>3
<1>7. step \in {"loading", "shown"} /\ (step = "shown" => LoadsNow = {})
    OBVIOUS
<1> HIDE DEF step
<1>8. /\ step \in {"loading", "shown", "sending"} /\ step # "sending"
      /\ stage # "closed" /\ session' \in {"none", "stale", "user", "admin"}
      /\ \A t \in Tours : pc'[t] \in {"idle", "visit"}
    BY <1>1, <1>2, <1>7
<1> QED
    BY <1>1, <1>3, <1>4, <1>5, <1>6, <1>7, <1>8, PageKept

LEMMA SessionsAfter ==
    ASSUME NEW calls, session \in {"none", "stale", "user", "admin"}, session' \in SessionAfter(calls)
    PROVE  /\ session' \in {"none", "stale", "user", "admin"}
           /\ DeleteAccount \notin calls /\ session # "none" => session' # "none"
           /\ DeleteAccount \notin calls /\ (\A c \in calls : ~SignsIn(c)) => session' = session
    BY DEF SessionAfter

LEMMA SiteLoaded == ASSUME SiteInv, Loaded, UNCHANGED pc PROVE SiteInv'
<1>1. stage = "loading" /\ session' \in SessionAfter(calling)
    BY DEF Loaded
<1>2. /\ AsksWhatItMay(here) /\ \A t \in Tours : pc[t] \in {"idle", "visit"}
      /\ session \in {"none", "stale", "user", "admin"}
    BY <1>1, CallsOfPage
<1>3. calling \subseteq here.loads \cup here.queried \cup {AuthApi.me}
    BY <1>1 DEF SiteInv, AskedByPage
<1>4. DeleteAccount \notin calling
    BY <1>2, <1>3, Landmarks DEF AsksWhatItMay
<1>5. session' \in {"none", "stale", "user", "admin"}
    BY <1>1, <1>2, SessionsAfter
<1>6. CASE here.gate.who = "admin" /\ session # "admin"
    <2>1. GoesHome
        BY <1>6 DEF Loaded
    <2> QED
        BY <1>5, <2>1, SentHome DEF SiteInv
<1>7. CASE ~(here.gate.who = "admin" /\ session # "admin") /\ here.moves = {}
    <2>1. Keeps("shown", {})
        BY <1>7 DEF Loaded
    <2>2. here.gate.who \in {"user", "admin"} => session' # "none"
        BY <1>1, <1>2, <1>4, SessionsAfter DEF SiteInv, NothingWithoutSession
    <2>3. here.gate.who = "admin" => session' = session /\ session = "admin"
        <3> SUFFICES ASSUME here.gate.who = "admin" PROVE session' = session /\ session = "admin"
            OBVIOUS
        <3>1. \A c \in calling : ~SignsIn(c)
            BY <1>2, <1>3 DEF AsksWhatItMay
        <3> QED
            BY <1>1, <1>2, <1>4, <1>7, <3>1, SessionsAfter
    <2> QED
        BY <1>1, <1>2, <1>5, <2>1, <2>2, <2>3, PageKept
<1>8. CASE ~(here.gate.who = "admin" /\ session # "admin") /\ here.moves # {}
    <2>1. PICK link \in here.moves : GoesOn(link)
        BY <1>8 DEF Loaded
    <2>2. at.page # "/signin"
        <3>1. KnownSpot(at)
            BY <1>1 DEF SiteInv, SpotsKnown
        <3>2. BringsBack(here) /\ here.path = at.page
            BY <3>1, PageOf DEF here
        <3> QED
            BY <1>8, <3>2 DEF BringsBack
    <2> QED
        BY <1>1, <1>5, <2>1, <2>2, GoneOn
<1> QED
    BY <1>6, <1>7, <1>8

LEMMA SiteLoadFails == ASSUME SiteInv, LoadFails, UNCHANGED pc PROVE SiteInv'
<1>1. stage = "loading" /\ session' = session
    BY DEF LoadFails
<1>2. /\ AsksWhatItMay(here) /\ \A t \in Tours : pc[t] \in {"idle", "visit"}
      /\ session \in {"none", "stale", "user", "admin"}
    BY <1>1, CallsOfPage
<1>3. here.gate.who \in {"user", "admin"} => session # "none"
    BY <1>1 DEF SiteInv, NothingWithoutSession
<1>4. CASE here.onFail = "turned" /\ Opens(here.gate.to.spot, OnwardFrom(here.gate), at, FALSE)
    BY <1>1, <1>4, SentToSignIn
<1>5. CASE here.onFail \in {"message", "turned"} /\ Keeps("shown", {})
    <2>1. here.gate.who = "admin" => here.sends = {}
        BY <1>2, <1>5 DEF AsksWhatItMay
    <2> QED
        BY <1>1, <1>2, <1>3, <1>5, <2>1, PageKept
<1>6. CASE Keeps("loading", {})
    BY <1>1, <1>2, <1>3, <1>6, PageKept
<1>7. CASE GoesHome
    BY <1>1, <1>2, <1>7, SentHome DEF SiteInv
<1> QED
    BY <1>4, <1>5, <1>6, <1>7 DEF LoadFails
LEMMA SiteSends == ASSUME SiteInv, Send, UNCHANGED pc PROVE SiteInv'
<1>1. stage = "shown" /\ session' = session
    BY DEF Send
<1>2. /\ \A t \in Tours : pc[t] \in {"idle", "visit"}
      /\ session \in {"none", "stale", "user", "admin"}
    BY <1>1, CallsOfPage
<1>3. PICK s \in here.sends :
          IF s.call.as = "user" /\ session = "none" THEN \E link \in here.asks : Follows(link)
          ELSE Keeps("sending", {s.call})
    BY DEF Send
<1>4. CASE s.call.as = "user" /\ session = "none"
    <2>1. PICK link \in here.asks : Follows(link)
        BY <1>3, <1>4
    <2>2. link \in FollowedFrom(here)
        BY MayBeFollowed
    <2> QED
        BY <1>1, <1>2, <2>1, <2>2, LinkFollowed
<1>5. CASE ~(s.call.as = "user" /\ session = "none")
    <2>1. Keeps("sending", {s.call})
        BY <1>3, <1>5
    <2>2. here.gate.who = "admin" => session \in {"admin", "stale"}
        BY <1>1, <1>3 DEF SiteInv, AdminsOnly
    <2>3. s.call \in here.loads \cup here.queried \cup {r.call : r \in here.sends}
        BY <1>3
    <2>4. PassesNow(s.call)'
        BY <1>1, <1>5, <2>2, <2>3, PassOnPage
    <2>5. here.gate.who \in {"user", "admin"} => session # "none"
        BY <1>1 DEF SiteInv, NothingWithoutSession
    <2>6. {s.call} \subseteq {r.call : r \in here.sends} /\ \A c \in {s.call} : PassesNow(c)'
        BY <1>3, <2>4
    <2> QED
        BY <1>1, <1>2, <2>1, <2>2, <2>5, <2>6, PageKept
<1> QED
    BY <1>4, <1>5

LEMMA SiteAnswered == ASSUME SiteInv, Answered, UNCHANGED pc PROVE SiteInv'
<1>1. stage = "sending"
    BY DEF Answered
<1>2. /\ \A t \in Tours : pc[t] \in {"idle", "visit"}
      /\ session \in {"none", "stale", "user", "admin"}
    BY <1>1, CallsOfPage
<1>3. CASE /\ \E s \in here.sends :
                /\ s.call \in calling
                /\ \E link \in s.leads :
                      IF SignsIn(s.call) THEN GoesOn(link) ELSE Follows(link)
           /\ session' \in SessionAfter(calling)
    <2>1. PICK s \in here.sends :
              \E link \in s.leads : IF SignsIn(s.call) THEN GoesOn(link) ELSE Follows(link)
        BY <1>3
    <2>2. PICK link \in s.leads : IF SignsIn(s.call) THEN GoesOn(link) ELSE Follows(link)
        BY <2>1
    <2>3. session' \in {"none", "stale", "user", "admin"}
        BY <1>2, <1>3, SessionsAfter
    <2>4. CASE SignsIn(s.call)
        <3>1. link \in here.moves \cup UNION {r.leads : r \in here.sends}
            BY <2>2
        <3>2. KnownSpot(at)
            BY <1>1 DEF SiteInv, SpotsKnown
        <3>3. BringsBack(here) /\ here.path = at.page
            BY <3>2, PageOf DEF here
        <3>4. at.page = "/signin" => link.spot = Onward
            BY <2>2, <2>4, <3>3 DEF BringsBack
        <3> QED
            BY <1>1, <2>2, <2>3, <2>4, <3>1, <3>4, GoneOn
    <2>5. CASE ~SignsIn(s.call)
        <3>1. link \in FollowedFrom(here)
            BY <2>2, <2>5, MayBeFollowed
        <3> QED
            BY <1>1, <2>2, <2>3, <2>5, <3>1, LinkFollowed
    <2> QED
        BY <2>4, <2>5
<1>4. CASE Keeps("shown", {}) /\ UNCHANGED session
    BY <1>1, <1>2, <1>4, PageKept DEF SiteInv, NothingWithoutSession, AdminsOnly
<1> QED
    BY <1>3, <1>4 DEF Answered

LEMMA SiteStep ==
    ASSUME SiteInv, NEW t \in Tours, Visit(t)
    PROVE  SiteInv'
<1>1. UNCHANGED pc
    BY DEF Visit, requestVars
<1>2. stage # "closed"
    BY DEF Visit, SiteInv, SpotsKnown
<1>3. CASE TurnAway
    <2>1. stage = "opening" /\ IsTurnedAway /\ session' = session
        BY <1>3 DEF TurnAway
    <2>2. CASE here.gate.who = "visitor"
        <3>1. Follows(here.gate.to)
            BY <1>3, <2>2 DEF TurnAway
        <3>2. here.gate.to \in FollowedFrom(here)
            BY <2>2, MayBeFollowed
        <3> QED
            BY <1>1, <1>2, <2>1, <3>1, <3>2, CallsOfPage, LinkFollowed
    <2>3. CASE here.gate.who # "visitor"
        BY <1>1, <1>2, <1>3, <2>1, <2>3, SentToSignIn DEF TurnAway, IsTurnedAway
    <2> QED
        BY <2>2, <2>3
<1>4. CASE Load \/ Loaded \/ LoadFails \/ Send \/ Answered
    BY <1>1, <1>4, SiteLoads, SiteLoaded, SiteLoadFails, SiteSends, SiteAnswered
<1>5. CASE Follow
    <2>1. PICK link \in LinksOn(here, session) : Follows(link)
        BY <1>5 DEF Follow
    <2>2. session \in {"none", "stale", "user", "admin"} /\ session' = session
        BY <1>2, <1>5, CallsOfPage DEF Follow
    <2>3. link \in FollowedFrom(here)
        BY <2>1, <2>2, MayBeFollowed
    <2> QED
        BY <1>1, <1>2, <2>1, <2>2, <2>3, LinkFollowed
<1>6. CASE SendFails
    <2>1. /\ \A u \in Tours : pc[u] \in {"idle", "visit"}
          /\ session \in {"none", "stale", "user", "admin"}
        BY <1>2, CallsOfPage
    <2>2. stage = "sending" /\ Keeps("shown", {}) /\ session' = session
        BY <1>6 DEF SendFails
    <2> QED
        BY <1>1, <1>2, <2>1, <2>2, PageKept DEF SiteInv, NothingWithoutSession, AdminsOnly
<1>7. CASE SignOut
    <2>1. PICK link \in here.signOut : Follows(link)
        BY <1>7 DEF SignOut
    <2>2. link \in FollowedFrom(here)
        BY <2>1, MayBeFollowed
    <2>3. session' \in {"none", "stale", "user", "admin"}
        BY <1>7 DEF SignOut
    <2> QED
        BY <1>1, <1>2, <2>1, <2>2, <2>3, LinkFollowed
<1>8. CASE SessionEnds
    <2>1. session' = "stale" /\ UNCHANGED <<at, onward, headed, detour, stage, calling>>
        BY <1>8 DEF SessionEnds
    <2>2. here' = here
        BY <2>1 DEF here
    <2>3. SpotsKnown' /\ KnowsItsWay(at, onward, headed, detour)'
        BY <1>1, <2>1 DEF SiteInv, SpotsKnown, KnowsItsWay
    <2>4. AskedByPage' /\ NothingWithoutSession' /\ AdminsOnly'
        BY <2>1, <2>2 DEF SiteInv, AskedByPage, NothingWithoutSession, AdminsOnly
    <2> QED
        BY <2>1, <2>3, <2>4 DEF SiteInv, PassesNow
<1> QED
    BY <1>3, <1>4, <1>5, <1>6, <1>7, <1>8 DEF Visit

LEMMA SiteInductive == SiteInv /\ [Next]_vars => SiteInv'
<1> SUFFICES ASSUME SiteInv, [Next]_vars PROVE SiteInv'
    OBVIOUS
<1>1. ASSUME UNCHANGED siteVars, \A t \in Tours : pc'[t] = pc[t] PROVE SiteInv'
    BY <1>1 DEF SiteInv, SpotsKnown, KnowsItsWay, AskedByPage, PassesNow, NothingWithoutSession,
                AdminsOnly, here, siteVars
<1>2. CASE UNCHANGED vars
    BY <1>1, <1>2 DEF vars, clientVars, requestVars
<1>3. CASE Next
    <2>1. PICK i \in 1..9 : StepOf(i)
        BY <1>3, StepsOfParts
    <2>2. CASE i = 9
        BY <2>1, <2>2, SiteOpened, SiteStep DEF StepOf, SiteNext
    <2>3. CASE i # 9
        <3>1. \A t \in Tours : pc'[t] = pc[t]
            BY <2>1, <2>3, PartsByNumber, SiteAssumption, OthersAreIdle
        <3> QED
            BY <1>1, <2>1, <2>3, <3>1 DEF StepOf
    <2> QED
        BY <2>2, <2>3
<1> QED
    BY <1>2, <1>3

LEMMA SiteSafe == Spec => []SiteInv
    BY SiteIsInit, SiteInductive, PTL DEF Spec

LEMMA SiteFits == SiteInv => SiteHolds /\ SiteTypeOK
<1> SUFFICES ASSUME SiteInv PROVE SiteHolds /\ SiteTypeOK
    OBVIOUS
<1>1. SiteTypeOK
    BY DEF SiteInv, SpotsKnown, SiteTypeOK
<1>2. PageExists /\ ParamsAreRead
    BY DEF SiteInv, SpotsKnown, PageExists, ParamsAreRead, KnownSpot
<1>3. ComesBack
    BY DEF SiteInv, KnowsItsWay, ComesBack, Returns, SignInWays
<1>4. CallsAreMet
    <2> SUFFICES ASSUME NEW c \in calling PROVE RoutesMeet[c]
        BY DEF CallsAreMet, SiteInv, PassesNow
    <2>1. stage \in {"loading", "sending"}
        BY DEF SiteInv, SpotsKnown, AskedByPage
    <2>2. AsksWhatItMay(here) /\ AsksWhatItMay(HomePage)
        BY <2>1, CallsOfPage, Landmarks, SitemapAssumption
    <2>3. c \in here.loads \cup here.queried \cup {s.call : s \in here.sends} \cup HomePage.loads
        BY <2>1, Landmarks DEF SiteInv, AskedByPage
    <2> QED
        BY <2>2, <2>3 DEF AsksWhatItMay
<1> QED
    BY <1>1, <1>2, <1>3, <1>4 DEF SiteHolds, SiteInv

(* A visit to the site or the app, given that every page is as the table   *)
(* of the pages must be, which is a matter of evaluating it: whatever the  *)
(* order of links, answers, failures and the end of the session, the       *)
(* visitor is on a page that there is, which understands its address; a    *)
(* page asks only what the guards let through, and shows nothing of a user *)
(* to a visitor; and who left it to sign in comes back.                    *)
THEOREM VisitsAlwaysHold == Spec => []SiteHolds
    BY SiteSafe, SiteFits, PTL
-------------------------------------------------------------------------------
(* Types of the whole: what no invariant above says is typed here.         *)
CountersTyped == failures \in 0..MaxFailures /\ overlapped \in BOOLEAN

BookingTyped ==
    /\ pnr \in [Bookers -> Deliveries \cup {NoPnr}]
    /\ \A b \in Bookers : pc[b] \in BookingSteps \cup Ended \cup {"idle"}

LEMMA TypedInit == Init => CountersTyped /\ BookingTyped
<1> SUFFICES ASSUME Init PROVE CountersTyped /\ BookingTyped
    OBVIOUS
<1>1. failures = 0 /\ overlapped = FALSE /\ \A b \in Bookers : pc[b] = "idle"
    BY BookingsAssumption DEF Init, RequestsInit
<1>2. CountersTyped
    <2>1. failures \in 0..MaxFailures
        BY <1>1, RequestsAssumption
    <2>2. overlapped \in BOOLEAN
        BY <1>1
    <2> QED
        BY <2>1, <2>2 DEF CountersTyped
<1>3. pnr \in [Bookers -> Deliveries \cup {NoPnr}]
    BY DEF Init, BookingsInit
<1> QED
    BY <1>1, <1>2, <1>3 DEF BookingTyped

LEMMA CountersTypedStep == CountersTyped /\ [Next]_vars => CountersTyped'
<1> SUFFICES ASSUME CountersTyped, [Next]_vars PROVE CountersTyped'
    OBVIOUS
<1>1. FailuresGrow /\ OverlapStays
    BY CountersStep
<1> QED
    BY <1>1, RequestsAssumption DEF FailuresGrow, OverlapStays, CountersTyped

LEMMA BookingTypedStep == BookingTyped /\ [Next]_vars => BookingTyped'
<1> SUFFICES ASSUME BookingTyped, [Next]_vars PROVE BookingTyped'
    OBVIOUS
<1>1. CASE UNCHANGED vars
    BY <1>1 DEF BookingTyped, vars, bookingVars, requestVars
<1>2. CASE BookingsNext
    <2>1. pnr' \in [Bookers -> Deliveries \cup {NoPnr}]
        BY <1>2 DEF BookingsNext, ReadFlight, ClaimFlightSeat, InsertFlightBooking, CreateHotelBooking,
                    InitializePayment, PayBooking, BookingCutShort, FinaliseBooking, BookingTyped,
                    bookingVars
    <2>2. UNCHANGED pc \/ \E c \in Calls, step \in BookingSteps \cup Ended : MovesTo(c, step)
        <3> USE DEF Begin, Goto, CutShort, Ended, BookingSteps
        <3>1. ASSUME NEW p \in Passengers, ReadFlight(p) \/ ClaimFlightSeat(p) \/ InsertFlightBooking(p)
              PROVE  \E step \in BookingSteps \cup Ended : MovesTo(p, step)
            BY <3>1 DEF ReadFlight, ClaimFlightSeat, InsertFlightBooking
        <3>2. ASSUME NEW g \in Guests, CreateHotelBooking(g)
              PROVE  \E step \in BookingSteps \cup Ended : MovesTo(g, step)
            BY <3>2 DEF CreateHotelBooking
        <3>3. ASSUME NEW b \in Bookers, InitializePayment(b) \/ BookingCutShort(b)
              PROVE  \E step \in BookingSteps \cup Ended : MovesTo(b, step)
            BY <3>3 DEF InitializePayment, BookingCutShort
        <3>4. ASSUME NEW b \in Bookers, PayBooking(b) PROVE UNCHANGED pc
            BY <3>4 DEF PayBooking, requestVars
        <3>5. ASSUME NEW d \in Deliveries, NEW b \in Bookers, FinaliseBooking(d, b)
              PROVE  \E step \in BookingSteps \cup Ended : MovesTo(d, step)
            BY <3>5 DEF FinaliseBooking
        <3>6. Bookers \subseteq Calls /\ Deliveries \subseteq Calls
            BY BookingsAssumption
        <3>7. Passengers \subseteq Calls /\ Guests \subseteq Calls
            BY <3>6 DEF Bookers
        <3> HIDE DEF Begin, Goto, CutShort, Ended, BookingSteps
        <3> QED
            BY <1>2, <3>1, <3>2, <3>3, <3>4, <3>5, <3>6, <3>7 DEF BookingsNext
    <2>3. \A b \in Bookers : pc'[b] \in BookingSteps \cup Ended \cup {"idle"}
        BY <2>2, BookingsAssumption DEF MovesTo, BookingTyped
    <2> QED
        BY <2>1, <2>3 DEF BookingTyped
<1>3. CASE UNCHANGED bookingVars /\ \A c \in Bookers : pc[c] = "idle" /\ pc'[c] = "idle"
    BY <1>3 DEF BookingTyped, bookingVars
<1> QED
    BY <1>1, <1>2, <1>3, OthersLeaveBookings

LEMMA BookingsTyped == BookingInv /\ BookingTyped => BookingsTypeOK
<1> SUFFICES ASSUME BookingInv, BookingTyped PROVE BookingsTypeOK
    OBVIOUS
<1>1. seated \in SUBSET Passengers /\ flightSold = Cardinality(seated)
    BY DEF BookingInv
<1>2. flightSold \in Nat
    BY <1>1, SeatsAreCounted
<1> QED
    BY <1>1, <1>2 DEF BookingInv, BookingTyped, BookingsTypeOK

LEMMA FormsTyped == WebInv /\ AppInv => BuyFormsTypeOK
    BY DEF WebInv, WebTyped, AppInv, AppTyped, BuyFormsTypeOK

(* The state of Commerce is well formed, and the extras of its orders are  *)
(* accounted for, whatever its parts do.                                   *)
THEOREM AlwaysSoldAsCounted == Spec => []SoldAsCounted
<1>1. ExtrasInv => ExtrasTypeOK
    BY DEF ExtrasInv
<1>2. SeatInv => SeatMapsTypeOK
    BY DEF SeatInv
<1>3. MailInv => MailingsTypeOK
    BY DEF MailInv
<1>4. SearchInv => SearchesTypeOK
    BY DEF SearchInv
<1>5. ASSUME ExtrasTypeOK, SeatMapsTypeOK, BookingsTypeOK, MailingsTypeOK, BuyFormsTypeOK,
             SearchesTypeOK, SiteTypeOK, CountersTyped
      PROVE  TypeOK
    BY <1>5 DEF TypeOK, CountersTyped
<1>6. TypeOK /\ ExtrasAccounted => SoldAsCounted
    BY DEF SoldAsCounted
<1>7. Spec => [](ExtrasInv /\ SeatInv /\ MailInv /\ SearchInv /\ SiteInv)
    BY ExtrasAreInit, ExtrasInductive, SeatInit, SeatInductive, MailInit, MailInductive,
       SearchInit, SearchInductive, SiteIsInit, SiteInductive, PTL DEF Spec
<1>8. Spec => [](BookingInv /\ BookingTyped /\ CountersTyped /\ WebInv /\ AppInv)
    BY BookingInit, BookingInductive, TypedInit, BookingTypedStep, CountersTypedStep, BuyInit,
       BuyInductive, PTL DEF Spec
<1>9. ExtrasInv /\ SeatInv /\ MailInv /\ SearchInv /\ SiteInv /\ BookingInv /\ BookingTyped
        /\ CountersTyped /\ WebInv /\ AppInv => SoldAsCounted
    BY <1>1, <1>2, <1>3, <1>4, <1>5, <1>6, BookingsTyped, FormsTyped, SiteFits, ExtrasCount
<1> QED
    BY <1>7, <1>8, <1>9, PTL
-------------------------------------------------------------------------------
(* Prices.                                                                 *)
LEMMA NatMin == ASSUME NEW T \in SUBSET Nat, T # {} PROVE \E m \in T : \A k \in T : m <= k
<1>1. PICK m \in T : \A k \in T : ~(<<k, m>> \in OpToRel(<, Nat))
    BY WFMin, NatLessThanWellFounded
<1>2. \A k \in T : ~(k < m)
    BY <1>1 DEF OpToRel
<1> QED
    BY <1>2

LEMMA RuleTyped ==
    ASSUME NEW rules \in Seq(PriceRule), NEW i \in DOMAIN rules
    PROVE  i \in Nat /\ rules[i].threshold \in Int /\ rules[i].bps \in Int
<1>1. DOMAIN rules = 1..Len(rules) /\ Len(rules) \in Nat
    OBVIOUS
<1>2. rules[i] \in PriceRule
    BY <1>1
<1>3. \A r \in PriceRule : r.threshold \in Int /\ r.bps \in Int
    BY DEF PriceRule
<1> QED
    BY <1>1, <1>2, <1>3

(* PriceRule i of S is applied before every other one of S.                     *)
IsTop(rules, S, i) ==
    \A j \in S \ {i} :
        \/ rules[i].threshold > rules[j].threshold
        \/ rules[i].threshold = rules[j].threshold /\ i < j

LEMMA TopExists ==
    ASSUME NEW rules \in Seq(PriceRule), NEW S \in SUBSET DOMAIN rules, S # {}, NEW u \in Int,
           \A i \in S : u >= rules[i].threshold
    PROVE  TopRule(rules, S) \in S /\ IsTop(rules, S, TopRule(rules, S))
<1>1. \A i \in S : i \in Nat /\ rules[i].threshold \in Int
    BY RuleTyped
<1> DEFINE gaps == {u - rules[i].threshold : i \in S}
<1>2. gaps \in SUBSET Nat /\ gaps # {}
    BY <1>1
<1>3. PICK m \in gaps : \A k \in gaps : m <= k
    BY <1>2, NatMin
<1> DEFINE least == {i \in S : u - rules[i].threshold = m}
<1>4. least \in SUBSET Nat /\ least # {}
    BY <1>1, <1>3
<1>5. PICK i \in least : \A j \in least : i <= j
    BY <1>4, NatMin
<1>6. i \in S /\ IsTop(rules, S, i)
    <2> SUFFICES ASSUME NEW j \in S \ {i}
                 PROVE  \/ rules[i].threshold > rules[j].threshold
                        \/ rules[i].threshold = rules[j].threshold /\ i < j
        BY DEF IsTop
    <2>1. u - rules[i].threshold = m /\ m <= u - rules[j].threshold
        BY <1>3
    <2>2. u - rules[j].threshold = m => i <= j
        BY <1>5
    <2>3. i # j /\ i \in Nat /\ j \in Nat /\ rules[i].threshold \in Int /\ rules[j].threshold \in Int
        BY <1>1
    <2> HIDE DEF least, gaps
    <2> QED
        BY <2>1, <2>2, <2>3
<1> HIDE DEF least, gaps
<1>7. TopRule(rules, S) = CHOOSE k \in S : IsTop(rules, S, k)
    BY DEF TopRule, IsTop
<1> QED
    BY <1>6, <1>7

LEMMA TopApplies ==
    ASSUME NEW tt, tt.capacity \in Nat, tt.taken \in Nat, NEW rules \in Seq(PriceRule),
           Applicable(tt, rules) # {}
    PROVE  /\ TopRule(rules, Applicable(tt, rules)) \in Applicable(tt, rules)
           /\ IsTop(rules, Applicable(tt, rules), TopRule(rules, Applicable(tt, rules)))
<1> DEFINE S == Applicable(tt, rules)
<1>1. Utilisation(tt) \in Int
    BY DEF Utilisation
<1>2. S \in SUBSET DOMAIN rules /\ \A i \in S : Utilisation(tt) >= rules[i].threshold
    BY DEF Applicable
<1> HIDE DEF S
<1>3. S # {} => TopRule(rules, S) \in S /\ IsTop(rules, S, TopRule(rules, S))
    BY <1>1, <1>2, TopExists
<1> QED
    BY <1>3 DEF S

LEMMA PriceIsNat ==
    ASSUME NEW tt, tt.capacity \in Nat, tt.taken \in Nat, tt.priceKobo \in Nat, NEW rules \in Seq(PriceRule)
    PROVE  PriceKobo(tt, rules) \in Nat
<1>1. CASE Applicable(tt, rules) = {}
    BY <1>1 DEF PriceKobo
<1>2. CASE Applicable(tt, rules) # {}
    <2> DEFINE bps == rules[TopRule(rules, Applicable(tt, rules))].bps
               scaled == tt.priceKobo * (Whole + bps)
    <2>1. bps \in Int
        <3>1. TopRule(rules, Applicable(tt, rules)) \in DOMAIN rules
            BY <1>2, TopApplies DEF Applicable
        <3> QED
            BY <3>1, RuleTyped
    <2>2. scaled \in Int
        BY <2>1 DEF Whole
    <2>3. PriceKobo(tt, rules) = AtLeast(Round(scaled, 10000), 0)
        BY <1>2 DEF PriceKobo, Whole
    <2> HIDE DEF scaled
    <2> QED
        BY <2>2, <2>3 DEF AtLeast, Round
<1> QED
    BY <1>1, <1>2

(* Other rules are the active ones of these and more of them, in the same  *)
(* order unless no two thresholds are the same.                            *)
Retells(rules, other, p) ==
    /\ other \in Seq(PriceRule) /\ p \in [DOMAIN other -> DOMAIN rules]
    /\ \A i \in DOMAIN other : other[i] = rules[p[i]]
    /\ \A k \in DOMAIN rules : rules[k].active => \E i \in DOMAIN other : p[i] = k
    /\ \/ \A i, j \in DOMAIN rules : rules[i].threshold = rules[j].threshold => i = j
       \/ \A i, j \in DOMAIN other : i < j => p[i] < p[j]

(* Rules that are listed anew give the same price, if their order tells    *)
(* nothing or stays, and no active one is lost.                            *)
LEMMA PriceKept ==
    ASSUME NEW tt, tt.capacity \in Nat, tt.taken \in Nat, NEW rules \in Seq(PriceRule),
           NEW other, NEW p, Retells(rules, other, p)
    PROVE  PriceKobo(tt, other) = PriceKobo(tt, rules)
<1> SUFFICES ASSUME other \in Seq(PriceRule), p \in [DOMAIN other -> DOMAIN rules],
                    \A i \in DOMAIN other : other[i] = rules[p[i]],
                    \A k \in DOMAIN rules : rules[k].active => \E i \in DOMAIN other : p[i] = k,
                    \/ \A i, j \in DOMAIN rules : rules[i].threshold = rules[j].threshold => i = j
                    \/ \A i, j \in DOMAIN other : i < j => p[i] < p[j]
             PROVE  PriceKobo(tt, other) = PriceKobo(tt, rules)
    BY DEF Retells
<1> DEFINE S == Applicable(tt, rules)
           O == Applicable(tt, other)
<1>1. /\ \A i \in O : i \in DOMAIN other /\ p[i] \in S
      /\ \A i \in DOMAIN other : p[i] \in S => i \in O
      /\ \A k \in S : k \in DOMAIN rules /\ rules[k].active
    BY DEF Applicable
<1>2. O = {} <=> S = {}
    BY <1>1
<1>3. ASSUME S # {} PROVE other[TopRule(other, O)] = rules[TopRule(rules, S)]
    <2> DEFINE t == TopRule(rules, S)
               o == TopRule(other, O)
    <2>1. t \in S /\ IsTop(rules, S, t) /\ o \in O /\ IsTop(other, O, o)
        BY <1>2, <1>3, TopApplies
    <2> HIDE DEF t, o, S, O
    <2>2. PICK i \in DOMAIN other : p[i] = t
        BY <1>1, <2>1
    <2>3. i \in O /\ o \in DOMAIN other /\ p[o] \in S /\ p[o] \in DOMAIN rules /\ t \in DOMAIN rules
        BY <1>1, <2>1, <2>2
    <2>4. p[o] = t
        <3> SUFFICES ASSUME p[o] # t PROVE FALSE
            OBVIOUS
        <3> DEFINE tho == rules[p[o]].threshold
                   tht == rules[t].threshold
        <3>1. \/ tho > tht
              \/ tho = tht /\ o < i
            <4>1. i \in O \ {o}
                BY <2>2, <2>3
            <4>2. \/ other[o].threshold > other[i].threshold
                  \/ other[o].threshold = other[i].threshold /\ o < i
                BY <2>1, <4>1 DEF IsTop
            <4>3. other[o] = rules[p[o]] /\ other[i] = rules[t]
                BY <2>2, <2>3
            <4> QED
                BY <4>2, <4>3
        <3>2. \/ tht > tho
              \/ tht = tho /\ t < p[o]
            BY <2>1, <2>3 DEF IsTop
        <3>3. tho \in Int /\ tht \in Int /\ t \in Nat /\ p[o] \in Nat
            BY <2>3, RuleTyped
        <3> HIDE DEF tho, tht
        <3>4. tho = tht /\ o < i /\ t < p[o]
            BY <3>1, <3>2, <3>3
        <3>5. p[o] < t \/ p[o] = t
            BY <2>2, <2>3, <3>4 DEF tho, tht
        <3> QED
            BY <3>3, <3>4, <3>5
    <2>5. other[o] = rules[t]
        BY <2>3, <2>4
    <2> QED
        BY <2>5 DEF t, o
<1> QED
    BY <1>2, <1>3 DEF PriceKobo

(* What a request was told is the bill of something that may be asked for. *)
BillInv == DOMAIN bill = Quotes /\ \A q \in Billed : \E ask \in Asks : bill[q] = Bill(ask)

LEMMA BillIsInit == Init => BillInv
    BY DEF Init, PricingInit, BillInv, Billed

LEMMA BillInductive == BillInv /\ [Next]_vars => BillInv'
<1> SUFFICES ASSUME BillInv, [Next]_vars PROVE BillInv'
    OBVIOUS
<1>1. CASE UNCHANGED bill
    BY <1>1 DEF BillInv, Billed
<1>2. CASE UNCHANGED vars
    BY <1>1, <1>2 DEF vars, quoteVars
<1>3. CASE Next
    <2>1. PICK i \in 1..9 : StepOf(i)
        BY <1>3, StepsOfParts
    <2>2. CASE i = 2
        <3>1. PICK q \in Quotes, ask \in Asks : bill' = [bill EXCEPT ![q] = Bill(ask)]
            BY <2>1, <2>2 DEF StepOf, Quote
        <3> QED
            BY <3>1 DEF BillInv, Billed
    <2>3. CASE i # 2
        BY <1>1, <2>1, <2>3 DEF StepOf, quoteVars
    <2> QED
        BY <2>2, <2>3
<1> QED
    BY <1>2, <1>3

LEMMA AsksTyped ==
    ASSUME NEW ask \in Asks
    PROVE  /\ ask.tt.priceKobo \in Nat /\ ask.tt.capacity \in Nat /\ ask.tt.taken \in Nat
           /\ ask.rules \in Seq(PriceRule)
           /\ ask.quantity \in Nat /\ ask.addOnsKobo \in Nat /\ ask.points \in Nat
           /\ ask.agentBps \in 0..Whole
           /\ PromoFits(ask.promo)
<1>1. AskFits(ask)
    BY AsksAssumption
<1> QED
    BY <1>1 DEF AskFits, TicketFits

ShareFits(a, v) == (a * v) \div Whole \in 0..a

LEMMA ShareOf == \A a \in Nat : \A v \in 0..Whole : ShareFits(a, v)
<1> SUFFICES ASSUME NEW a \in Nat, NEW v \in 0..Whole PROVE ShareFits(a, v)
    OBVIOUS
<1> DEFINE x == a * v
           y == a * (Whole - v)
<1>1. v \in Nat /\ Whole - v \in Nat
    BY DEF Whole
<1>2. x \in Nat /\ y \in Nat
    BY <1>1, ProductIsNat
<1>3. a * 10000 = x + y
    BY <1>1 DEF Whole
<1> HIDE DEF x, y
<1>4. x \div 10000 \in 0..a
    BY <1>2, <1>3
<1> QED
    BY <1>4 DEF x, ShareFits, Whole

LEMMA BillAddsUp ==
    ASSUME NEW ask \in Asks
    PROVE  LET b == Bill(ask)
           IN  /\ b.discount >= 0 /\ b.byPoints >= 0
               /\ b.total = b.subtotal - b.discount - b.byPoints + b.fee
               /\ b.total >= b.fee /\ b.fee >= 0
               /\ b.commission \in 0 .. b.total
<1> DEFINE sub == PriceKobo(ask.tt, ask.rules) * ask.quantity + ask.addOnsKobo
           off == Discount(sub, ask.promo)
           byPoints == PointsDiscount(sub, off, ask.points)
           due == AtLeast(sub - off - byPoints, 0)
           fee == Round(due * 15, 1000)
           share == ((due + fee) * ask.agentBps) \div Whole
<1>1. sub \in Nat
    <2>1. PriceKobo(ask.tt, ask.rules) \in Nat
        BY AsksTyped, PriceIsNat
    <2>2. PriceKobo(ask.tt, ask.rules) * ask.quantity \in Nat
        BY <2>1, AsksTyped, ProductIsNat
    <2> QED
        BY <2>2, AsksTyped
<1>2. Bill(ask) = [ask |-> ask, subtotal |-> sub, discount |-> off, byPoints |-> byPoints, fee |-> fee,
                   total |-> due + fee, commission |-> share]
    BY DEF Bill
<1>3. off \in 0..sub
    <2> HIDE DEF sub
    <2>1. CASE ask.promo.type = "none"
        BY <1>1, <2>1 DEF Discount
    <2>2. CASE ask.promo.type = "PERCENTAGE" /\ ask.promo.value \in 1..Whole
        <3>1. off = (sub * ask.promo.value) \div Whole
            BY <2>2 DEF Discount
        <3> QED
            <4> DEFINE v == ask.promo.value
            <4>1. v \in 0..Whole /\ off = (sub * v) \div Whole
                BY <2>2, <3>1
            <4> HIDE DEF v, off
            <4>2. ShareFits(sub, v)
                BY <1>1, <4>1, ShareOf
            <4> QED
                BY <4>1, <4>2 DEF ShareFits
    <2>3. CASE ask.promo.type = "FIXED" /\ ask.promo.value \in Nat \ {0}
        BY <1>1, <2>3 DEF Discount, AtMost
    <2>4. PromoFits(ask.promo)
        BY AsksTyped
    <2> HIDE DEF off
    <2> QED
        BY <2>1, <2>2, <2>3, <2>4 DEF PromoFits
<1> HIDE DEF sub, off
<1>4. byPoints \in 0..(sub - off)
    <2>1. ask.points \in Nat
        BY AsksTyped
    <2> QED
        BY <1>1, <1>3, <2>1 DEF PointsDiscount, KoboForPoints, AtMost
<1> HIDE DEF byPoints
<1>5. due \in Nat /\ due = sub - off - byPoints
    BY <1>1, <1>3, <1>4 DEF AtLeast
<1> HIDE DEF due
<1>6. fee \in Nat
    BY <1>5 DEF Round
<1> HIDE DEF fee
<1>7. share \in 0..(due + fee)
    <2> DEFINE bps == ask.agentBps
               total == due + fee
    <2>1. bps \in 0..Whole /\ total \in Nat
        BY <1>5, <1>6, AsksTyped
    <2>2. share = (total * bps) \div Whole
        OBVIOUS
    <2> HIDE DEF bps, total, share
    <2>3. ShareFits(total, bps)
        BY <2>1, ShareOf
    <2>4. share \in 0..total
        BY <2>2, <2>3 DEF ShareFits
    <2> QED
        BY <2>4 DEF total
<1> HIDE DEF share
<1>8. /\ Bill(ask).discount = off /\ Bill(ask).byPoints = byPoints /\ Bill(ask).subtotal = sub
      /\ Bill(ask).fee = fee /\ Bill(ask).total = due + fee /\ Bill(ask).commission = share
    BY <1>2
<1>9. /\ off >= 0 /\ byPoints >= 0 /\ due + fee = sub - off - byPoints + fee
      /\ due + fee >= fee /\ fee >= 0
    BY <1>1, <1>3, <1>4, <1>5, <1>6
<1> QED
    BY <1>7, <1>8, <1>9

Distinct(rules) ==
    \A i, j \in DOMAIN rules : rules[i].threshold = rules[j].threshold => i = j

(* Rules of distinct thresholds give one price, in whatever order they     *)
(* come.                                                                   *)
LEMMA RulesReordered ==
    ASSUME NEW tt, TicketFits(tt), NEW rules \in Seq(PriceRule),
           Distinct(rules), NEW p \in Reorderings(Len(rules))
    PROVE  PriceKobo(tt, [i \in 1..Len(rules) |-> rules[p[i]]]) = PriceKobo(tt, rules)
<1> DEFINE n == Len(rules)
<1>1. n \in Nat /\ DOMAIN rules = 1..n /\ \A i \in 1..n : rules[i] \in PriceRule
    OBVIOUS
<1>2. tt.capacity \in Nat /\ tt.taken \in Nat
    BY DEF TicketFits
<1> DEFINE other == [i \in 1..n |-> rules[p[i]]]
<1>3. p \in [1..n -> 1..n] /\ \A k \in 1..n : \E i \in 1..n : p[i] = k
    BY DEF Reorderings
<1>4. other \in Seq(PriceRule) /\ DOMAIN other = 1..n /\ \A i \in 1..n : other[i] = rules[p[i]]
    <2> HIDE DEF n
    <2>1. \A i \in 1..n : rules[p[i]] \in PriceRule
        BY <1>1, <1>3
    <2>2. other \in [1..n -> PriceRule]
        BY <2>1
    <2> QED
        BY <1>1, <2>2
<1> HIDE DEF other, n
<1>5. p \in [DOMAIN other -> DOMAIN rules]
    BY <1>1, <1>3, <1>4
<1>6. other \in Seq(PriceRule) /\ \A i \in DOMAIN other : other[i] = rules[p[i]]
    BY <1>4
<1>7. \A k \in DOMAIN rules : rules[k].active => \E i \in DOMAIN other : p[i] = k
    BY <1>1, <1>3, <1>4
<1>8. \/ \A i, j \in DOMAIN rules : rules[i].threshold = rules[j].threshold => i = j
      \/ \A i, j \in DOMAIN other : i < j => p[i] < p[j]
    BY DEF Distinct
<1>9. Retells(rules, other, p)
    BY <1>5, <1>6, <1>7, <1>8 DEF Retells
<1>10. PriceKobo(tt, other) = PriceKobo(tt, rules)
    BY <1>2, <1>9, PriceKept
<1> QED
    BY <1>10 DEF other, n

(* A rule that is switched off may as well not be there.                   *)
LEMMA RuleLeftOut ==
    ASSUME NEW tt, TicketFits(tt), NEW rules \in Seq(PriceRule),
           NEW k \in 1..Len(rules), ~rules[k].active
    PROVE  PriceKobo(tt, Without(rules, k)) = PriceKobo(tt, rules)
<1> DEFINE n == Len(rules)
<1>1. n \in Nat /\ DOMAIN rules = 1..n /\ \A i \in 1..n : rules[i] \in PriceRule
    OBVIOUS
<1>2. tt.capacity \in Nat /\ tt.taken \in Nat
    BY DEF TicketFits
<1>3. k \in 1..n /\ ~rules[k].active
    OBVIOUS
<1> DEFINE other == Without(rules, k)
           p == [i \in 1..n - 1 |-> IF i < k THEN i ELSE i + 1]
<1>4. n - 1 \in Nat /\ k \in Nat
    BY <1>1
<1>5. p \in [1..n - 1 -> 1..n] /\ \A i \in 1..n - 1 : p[i] = IF i < k THEN i ELSE i + 1
    <2> HIDE DEF n
    <2>1. \A i \in 1..n - 1 : (IF i < k THEN i ELSE i + 1) \in 1..n
        BY <1>1, <1>4
    <2> QED
        BY <2>1
<1>6. DOMAIN other = 1..n - 1 /\ \A i \in 1..n - 1 : other[i] = rules[p[i]]
    BY <1>5 DEF Without
<1>7. other \in Seq(PriceRule)
    <2> DEFINE body(i) == IF i < k THEN rules[i] ELSE rules[i + 1]
    <2>1. \A i \in 1..n - 1 : body(i) \in PriceRule
        <3> SUFFICES ASSUME NEW i \in 1..n - 1 PROVE body(i) \in PriceRule
            OBVIOUS
        <3> HIDE DEF n
        <3>1. i \in 1..n /\ i + 1 \in 1..n
            BY <1>1, <1>4
        <3> QED
            BY <1>1, <3>1
    <2>2. other = [i \in 1..n - 1 |-> body(i)]
        BY DEF Without
    <2> HIDE DEF body, n, other
    <2>3. other \in [1..n - 1 -> PriceRule]
        BY <2>1, <2>2
    <2> QED
        BY <1>4, <2>3
<1> HIDE DEF other, p, n
<1>8. p \in [DOMAIN other -> DOMAIN rules]
    BY <1>1, <1>5, <1>6
<1>9. \A i \in DOMAIN other : other[i] = rules[p[i]]
    BY <1>6
<1>10. ASSUME NEW c \in DOMAIN rules, rules[c].active PROVE \E i \in DOMAIN other : p[i] = c
    <2>1. c # k /\ c \in 1..n
        BY <1>1, <1>3, <1>10
    <2>2. CASE c < k
        <3>1. c \in 1..n - 1
            BY <1>1, <1>4, <2>1, <2>2
        <3> QED
            BY <1>5, <1>6, <2>2, <3>1
    <2>3. CASE c > k
        <3>1. c - 1 \in 1..n - 1 /\ ~(c - 1 < k) /\ (c - 1) + 1 = c
            BY <1>1, <1>4, <2>1, <2>3
        <3> QED
            BY <1>5, <1>6, <3>1
    <2> QED
        BY <1>4, <2>1, <2>2, <2>3
<1>11. \A i, j \in DOMAIN other : i < j => p[i] < p[j]
    BY <1>1, <1>4, <1>5, <1>6
<1>12. Retells(rules, other, p)
    BY <1>7, <1>8, <1>9, <1>10, <1>11 DEF Retells
<1>13. PriceKobo(tt, other) = PriceKobo(tt, rules)
    BY <1>2, <1>12, PriceKept
<1> QED
    BY <1>13 DEF other

(* What a bill is, and rules whose order does not matter.                  *)
AddsUp(b) ==
    /\ b.discount >= 0 /\ b.byPoints >= 0
    /\ b.total = b.subtotal - b.discount - b.byPoints + b.fee
    /\ b.total >= b.fee /\ b.fee >= 0
    /\ b.commission \in 0 .. b.total

InAnyOrder(tt, rules) ==
    /\ Distinct(rules) => \A p \in Reorderings(Len(rules)) :
           PriceKobo(tt, [i \in 1..Len(rules) |-> rules[p[i]]]) = PriceKobo(tt, rules)
    /\ \A k \in 1..Len(rules) : ~rules[k].active =>
           PriceKobo(tt, Without(rules, k)) = PriceKobo(tt, rules)

(* Prices: every bill adds up, and does not hang on the order of the rules *)
(* (computePriceKobo, computeDiscount, create).                            *)
LEMMA BillsHold == BillInv => PricesHold
<1> SUFFICES ASSUME BillInv, NEW q \in Billed
             PROVE  AddsUp(bill[q]) /\ InAnyOrder(bill[q].ask.tt, bill[q].ask.rules)
    BY DEF PricesHold, PriceIgnoresRuleOrder, TotalsAddUp, AddsUp, InAnyOrder, Distinct
<1>1. PICK ask \in Asks : bill[q] = Bill(ask)
    BY DEF BillInv
<1>2. AddsUp(Bill(ask))
    BY BillAddsUp DEF AddsUp
<1>3. bill[q].ask = ask
    BY <1>1 DEF Bill
<1>4. TicketFits(ask.tt) /\ ask.rules \in Seq(PriceRule)
    BY AsksTyped DEF TicketFits
<1>5. InAnyOrder(ask.tt, ask.rules)
    BY <1>4, RulesReordered, RuleLeftOut DEF InAnyOrder
<1> QED
    BY <1>1, <1>2, <1>3, <1>5

THEOREM PricesAlwaysHold == Spec => []PricesHold
<1> QED
    BY BillIsInit, BillInductive, BillsHold, PTL DEF Spec
-------------------------------------------------------------------------------
(* Sums: a sum of amounts of finitely many things is the number of units.  *)
Summable(f) == IsFiniteSet(DOMAIN f) /\ \A x \in DOMAIN f : f[x] \in Nat

LEMMA UnitsOf ==
    ASSUME NEW f
    PROVE  \A x, k : <<x, k>> \in Units(f) <=> x \in DOMAIN f /\ k \in 1..f[x]
    BY DEF Units

LEMMA UnitsArePairs ==
    ASSUME NEW f, NEW u \in Units(f)
    PROVE  /\ u = <<u[1], u[2]>> /\ u[1] \in DOMAIN f /\ u[2] \in 1..f[u[1]]
<1>1. PICK x \in DOMAIN f : u \in {x} \X (1..f[x])
    BY DEF Units
<1> QED
    BY <1>1

LEMMA UnitsAreFinite ==
    ASSUME NEW f, Summable(f)
    PROVE  IsFiniteSet(Units(f)) /\ SumOf(f) \in Nat
<1> DEFINE D == DOMAIN f
           part == [x \in D |-> {x} \X (1..f[x])]
           parts == {{x} \X (1..f[x]) : x \in D}
<1>1. part \in Surjection(D, parts)
    BY DEF Surjection
<1>2. IsFiniteSet(parts)
    BY <1>1, FS_Surjection DEF Summable
<1>3. \A T \in parts : IsFiniteSet(T)
    <2> SUFFICES ASSUME NEW x \in D PROVE IsFiniteSet({x} \X (1..f[x]))
        OBVIOUS
    <2>1. IsFiniteSet({x})
        BY FS_Singleton
    <2>2. f[x] \in Int
        BY DEF Summable
    <2>3. IsFiniteSet(1..f[x])
        BY <2>2, FS_Interval
    <2> QED
        BY <2>1, <2>3, FS_Product
<1>4. IsFiniteSet(UNION parts)
    BY <1>2, <1>3, FS_UNION
<1>5. Units(f) = UNION parts
    BY DEF Units
<1> QED
    BY <1>4, <1>5, FS_CardinalityType DEF SumOf

(* The sizes of the classes of U add up to the size of U.                  *)
LEMMA ClassesAddUp ==
    ASSUME NEW U, IsFiniteSet(U), NEW E, NEW c \in [U -> E]
    PROVE  LET sizes == [e \in E |-> Cardinality({u \in U : c[u] = e})]
           IN  Cardinality(Units(sizes)) = Cardinality(U)
<1> DEFINE cls(e) == {u \in U : c[u] = e}
           sizes == [e \in E |-> Cardinality(cls(e))]
           Numbers(e, g) == g \in Bijection(1..Cardinality(cls(e)), cls(e))
           number == [e \in E |-> CHOOSE g : Numbers(e, g)]
           h == [w \in Units(sizes) |-> number[w[1]][w[2]]]
<1>0. DOMAIN sizes = E /\ \A e \in E : sizes[e] = Cardinality(cls(e))
    OBVIOUS
<1>1. ASSUME NEW e \in E PROVE Numbers(e, number[e])
    <2>1. IsFiniteSet(cls(e))
        BY FS_Subset
    <2>2. \E g : Numbers(e, g)
        BY <2>1, FS_CardinalityType DEF ExistsBijection
    <2> HIDE DEF Numbers
    <2> QED
        BY <2>2
<1>2. ASSUME NEW w \in Units(sizes)
      PROVE  /\ w = <<w[1], w[2]>> /\ w[1] \in E /\ w[2] \in 1..sizes[w[1]]
             /\ h[w] \in U /\ c[h[w]] = w[1] /\ h[w] = number[w[1]][w[2]]
    <2> DEFINE e == w[1]
               k == w[2]
    <2>1. w = <<e, k>> /\ e \in E /\ k \in 1..sizes[e]
        BY UnitsArePairs
    <2>2. sizes[e] = Cardinality(cls(e))
        BY <2>1
    <2>3. number[e] \in Bijection(1..Cardinality(cls(e)), cls(e))
        BY <1>1, <2>1
    <2>4. number[e][k] \in cls(e)
        BY <2>1, <2>2, <2>3 DEF Bijection, Injection, Surjection
    <2> QED
        BY <2>1, <2>4
<1>3. h \in [Units(sizes) -> U]
    BY <1>2
<1> HIDE DEF h, number, sizes
<1>4. ASSUME NEW w \in Units(sizes), NEW z \in Units(sizes), h[w] = h[z] PROVE w = z
    <2> DEFINE e == w[1]
    <2>1. z[1] = e /\ e \in E
        <3>1. c[h[w]] = w[1] /\ c[h[z]] = z[1] /\ w[1] \in E
            BY <1>2
        <3> QED
            BY <1>4, <3>1
    <2>2. number[e] \in Bijection(1..Cardinality(cls(e)), cls(e))
        BY <1>1, <2>1
    <2>3. w[2] \in 1..Cardinality(cls(e)) /\ z[2] \in 1..Cardinality(cls(e))
        BY <1>0, <1>2, <2>1
    <2>4. number[e][w[2]] = number[e][z[2]]
        <3>1. h[w] = number[w[1]][w[2]] /\ h[z] = number[z[1]][z[2]]
            BY <1>2
        <3> QED
            BY <1>4, <2>1, <3>1
    <2>5. w[2] = z[2]
        <3> DEFINE g == number[e]
                   n == Cardinality(cls(e))
        <3>1. g \in Injection(1..n, cls(e))
            BY <2>2 DEF Bijection
        <3> HIDE DEF g, n
        <3>2. \A i, j \in 1..n : g[i] = g[j] => i = j
            BY <3>1 DEF Injection, IsInjective
        <3> QED
            BY <2>3, <2>4, <3>2 DEF g, n
    <2> QED
        BY <1>2, <2>1, <2>5
<1>5. ASSUME NEW u \in U PROVE \E w \in Units(sizes) : h[w] = u
    <2> DEFINE e == c[u]
    <2>1. e \in E /\ u \in cls(e)
        OBVIOUS
    <2>2. number[e] \in Bijection(1..Cardinality(cls(e)), cls(e))
        BY <1>1, <2>1
    <2>3. PICK k \in 1..Cardinality(cls(e)) : number[e][k] = u
        BY <2>1, <2>2 DEF Bijection, Surjection
    <2>4. <<e, k>> \in Units(sizes)
        BY <1>0, <2>1, <2>3, UnitsOf
    <2> QED
        <3> DEFINE w == <<e, k>>
        <3>1. w[1] = e /\ w[2] = k
            OBVIOUS
        <3>2. h[w] = number[w[1]][w[2]]
            BY <1>2, <2>4
        <3> QED
            BY <2>3, <2>4, <3>1, <3>2
<1>6. h \in Injection(Units(sizes), U) /\ h \in Surjection(Units(sizes), U)
    <2>1. h \in Injection(Units(sizes), U)
        BY <1>3, <1>4 DEF Injection, IsInjective
    <2>2. h \in Surjection(Units(sizes), U)
        BY <1>3, <1>5 DEF Surjection
    <2> QED
        BY <2>1, <2>2
<1>7. Cardinality(Units(sizes)) = Cardinality(U)
    BY <1>6, FS_Injection
<1> QED
    BY <1>7 DEF sizes

(* Sums of the amounts of each class add up to the sum of them all.        *)
LEMMA SumByClass ==
    ASSUME NEW f, Summable(f), NEW E, NEW c \in [DOMAIN f -> E]
    PROVE  SumOf([e \in E |-> SumOf([i \in {j \in DOMAIN f : c[j] = e} |-> f[i]])]) = SumOf(f)
<1> DEFINE U == Units(f)
           d == [u \in U |-> c[u[1]]]
           part(e) == [i \in {j \in DOMAIN f : c[j] = e} |-> f[i]]
           sizes == [e \in E |-> Cardinality({u \in U : d[u] = e})]
<1>1. IsFiniteSet(U)
    BY UnitsAreFinite
<1>2. \A u \in U : u = <<u[1], u[2]>> /\ u[1] \in DOMAIN f /\ u[2] \in 1..f[u[1]]
    BY UnitsArePairs
<1>3. d \in [U -> E]
    BY <1>2
<1>4. ASSUME NEW e \in E PROVE Units(part(e)) = {u \in U : d[u] = e}
    <2>1. DOMAIN part(e) = {j \in DOMAIN f : c[j] = e} /\ \A i \in DOMAIN part(e) : part(e)[i] = f[i]
        OBVIOUS
    <2> HIDE DEF part
    <2>2. ASSUME NEW u \in Units(part(e)) PROVE u \in U /\ d[u] = e
        <3>1. u = <<u[1], u[2]>> /\ u[1] \in DOMAIN part(e) /\ u[2] \in 1..part(e)[u[1]]
            BY UnitsArePairs
        <3>2. u[1] \in DOMAIN f /\ c[u[1]] = e /\ u[2] \in 1..f[u[1]]
            BY <2>1, <3>1
        <3>3. u \in U
            BY <3>1, <3>2, UnitsOf
        <3> QED
            BY <3>2, <3>3
    <2>3. ASSUME NEW u \in U, d[u] = e PROVE u \in Units(part(e))
        <3>1. u = <<u[1], u[2]>> /\ u[1] \in DOMAIN f /\ u[2] \in 1..f[u[1]] /\ c[u[1]] = e
            BY <1>2, <2>3
        <3>2. u[1] \in DOMAIN part(e) /\ u[2] \in 1..part(e)[u[1]]
            BY <2>1, <3>1
        <3> QED
            BY <3>1, <3>2, UnitsOf
    <2> QED
        BY <2>2, <2>3
<1>5. [e \in E |-> SumOf(part(e))] = sizes
    BY <1>4 DEF SumOf
<1> HIDE DEF d, U
<1>6. Cardinality(Units(sizes)) = Cardinality(U)
    BY <1>1, <1>3, ClassesAddUp
<1> QED
    BY <1>5, <1>6 DEF SumOf, U

(* A sum of less is less, and equal only if nothing is left out.           *)
LEMMA SumOfLess ==
    ASSUME NEW f, Summable(f), NEW g, DOMAIN g \subseteq DOMAIN f,
           \A x \in DOMAIN g : g[x] \in Nat /\ g[x] <= f[x]
    PROVE  /\ Summable(g) /\ SumOf(g) \in Nat /\ SumOf(f) \in Nat /\ SumOf(g) <= SumOf(f)
           /\ SumOf(g) = SumOf(f) <=>
                \A x \in DOMAIN f : f[x] = 0 \/ (x \in DOMAIN g /\ g[x] = f[x])
<1>1. IsFiniteSet(DOMAIN f) /\ \A x \in DOMAIN f : f[x] \in Nat
    BY DEF Summable
<1>2. Summable(g)
    BY <1>1, FS_Subset DEF Summable
<1>3. IsFiniteSet(Units(f)) /\ SumOf(f) \in Nat /\ SumOf(g) \in Nat
    BY <1>2, UnitsAreFinite
<1>4. Units(g) \subseteq Units(f)
    <2> SUFFICES ASSUME NEW u \in Units(g) PROVE u \in Units(f)
        OBVIOUS
    <2>1. u = <<u[1], u[2]>> /\ u[1] \in DOMAIN g /\ u[2] \in 1..g[u[1]]
        BY UnitsArePairs
    <2>2. u[1] \in DOMAIN f /\ u[2] \in 1..f[u[1]]
        BY <1>1, <2>1
    <2> QED
        BY <2>1, <2>2, UnitsOf
<1>5. /\ Cardinality(Units(g)) <= Cardinality(Units(f))
      /\ Cardinality(Units(g)) = Cardinality(Units(f)) => Units(g) = Units(f)
    BY <1>3, <1>4, FS_Subset
<1>6. ASSUME Units(g) = Units(f), NEW x \in DOMAIN f, f[x] # 0
      PROVE  x \in DOMAIN g /\ g[x] = f[x]
    <2>1. f[x] \in Nat /\ f[x] \in 1..f[x]
        BY <1>1, <1>6
    <2>2. <<x, f[x]>> \in Units(g)
        BY <1>6, <2>1, UnitsOf
    <2>3. x \in DOMAIN g /\ f[x] \in 1..g[x]
        BY <2>2, UnitsOf
    <2> QED
        BY <2>1, <2>3
<1>7. ASSUME \A x \in DOMAIN f : f[x] = 0 \/ (x \in DOMAIN g /\ g[x] = f[x])
      PROVE  Units(f) \subseteq Units(g)
    <2> SUFFICES ASSUME NEW u \in Units(f) PROVE u \in Units(g)
        OBVIOUS
    <2>1. u = <<u[1], u[2]>> /\ u[1] \in DOMAIN f /\ u[2] \in 1..f[u[1]]
        BY UnitsArePairs
    <2>2. f[u[1]] # 0
        BY <2>1
    <2>3. u[1] \in DOMAIN g /\ u[2] \in 1..g[u[1]]
        BY <1>7, <2>1, <2>2
    <2> QED
        BY <2>1, <2>3, UnitsOf
<1>8. SumOf(g) = Cardinality(Units(g)) /\ SumOf(f) = Cardinality(Units(f))
    BY DEF SumOf
<1>9. SumOf(g) = SumOf(f) <=> Units(g) = Units(f)
    BY <1>5, <1>8
<1>10. Units(g) = Units(f) <=> \A x \in DOMAIN f : f[x] = 0 \/ (x \in DOMAIN g /\ g[x] = f[x])
    BY <1>4, <1>6, <1>7
<1> QED
    BY <1>2, <1>3, <1>5, <1>8, <1>9, <1>10

(* Sums over two parts add up.                                             *)
LEMMA SumOfParts ==
    ASSUME NEW f, Summable(f), NEW S, NEW T, S \cap T = {}, DOMAIN f = S \cup T
    PROVE  SumOf(f) = SumOf([x \in S |-> f[x]]) + SumOf([x \in T |-> f[x]])
<1> DEFINE g == [x \in S |-> f[x]]
           h == [x \in T |-> f[x]]
<1>1. DOMAIN g = S /\ DOMAIN h = T /\ (\A x \in S : g[x] = f[x]) /\ \A x \in T : h[x] = f[x]
    OBVIOUS
<1> HIDE DEF g, h
<1>2. Units(f) = Units(g) \cup Units(h)
    <2>1. ASSUME NEW u \in Units(f) PROVE u \in Units(g) \cup Units(h)
        <3>1. u = <<u[1], u[2]>> /\ u[1] \in DOMAIN f /\ u[2] \in 1..f[u[1]]
            BY UnitsArePairs
        <3>2. CASE u[1] \in S
            <4>1. u[1] \in DOMAIN g /\ u[2] \in 1..g[u[1]]
                BY <1>1, <3>1, <3>2
            <4> QED
                BY <3>1, <4>1, UnitsOf
        <3>3. CASE u[1] \in T
            <4>1. u[1] \in DOMAIN h /\ u[2] \in 1..h[u[1]]
                BY <1>1, <3>1, <3>3
            <4> QED
                BY <3>1, <4>1, UnitsOf
        <3> QED
            BY <3>1, <3>2, <3>3
    <2>2. ASSUME NEW u \in Units(g) PROVE u \in Units(f)
        <3>1. u = <<u[1], u[2]>> /\ u[1] \in S /\ u[2] \in 1..f[u[1]]
            BY <1>1, UnitsArePairs
        <3> QED
            BY <3>1, UnitsOf
    <2>3. ASSUME NEW u \in Units(h) PROVE u \in Units(f)
        <3>1. u = <<u[1], u[2]>> /\ u[1] \in T /\ u[2] \in 1..f[u[1]]
            BY <1>1, UnitsArePairs
        <3> QED
            BY <3>1, UnitsOf
    <2> QED
        BY <2>1, <2>2, <2>3
<1>3. Units(g) \cap Units(h) = {}
    <2> SUFFICES ASSUME NEW u \in Units(g), u \in Units(h) PROVE FALSE
        OBVIOUS
    <2>1. u[1] \in S /\ u[1] \in T
        BY <1>1, UnitsArePairs
    <2> QED
        BY <2>1
<1>4. IsFiniteSet(Units(g)) /\ IsFiniteSet(Units(h))
    BY <1>2, UnitsAreFinite, FS_Subset
<1>5. Cardinality(Units(g) \cup Units(h))
          = Cardinality(Units(g)) + Cardinality(Units(h)) - Cardinality(Units(g) \cap Units(h))
    BY <1>4, FS_Union
<1>6. Cardinality(Units(g) \cap Units(h)) = 0 /\ Cardinality(Units(g)) \in Nat /\ Cardinality(Units(h)) \in Nat
    BY <1>3, <1>4, FS_EmptySet, FS_CardinalityType
<1>7. SumOf(f) = SumOf(g) + SumOf(h)
    BY <1>2, <1>5, <1>6 DEF SumOf
<1> QED
    BY <1>7 DEF g, h

(* Reports: the figures that are read of one table of orders agree.        *)
TableFits(B) == IsFiniteSet(DOMAIN B) /\ \A i \in DOMAIN B : B[i] \in OrderRows
SameOrders(A, B) == DOMAIN A = DOMAIN B /\ \A i \in DOMAIN B : A[i].total = B[i].total

LEMMA TotalsSummable ==
    ASSUME NEW B, TableFits(B), NEW S \in SUBSET DOMAIN B
    PROVE  /\ DOMAIN TotalsOf(B, S) = S /\ Summable(TotalsOf(B, S)) /\ IsFiniteSet(S)
           /\ \A i \in S : TotalsOf(B, S)[i] = B[i].total
           /\ SumOf(TotalsOf(B, S)) \in Nat
<1>1. IsFiniteSet(S)
    BY FS_Subset DEF TableFits
<1>2. DOMAIN TotalsOf(B, S) = S /\ \A i \in S : TotalsOf(B, S)[i] = B[i].total
    BY DEF TotalsOf
<1>3. \A i \in S : B[i].total \in Nat
    BY DEF TableFits, OrderRows
<1>4. Summable(TotalsOf(B, S))
    BY <1>1, <1>2, <1>3 DEF Summable
<1> QED
    BY <1>1, <1>2, <1>4, UnitsAreFinite

(* Sums by event or by code add up to the sum of the orders that have one. *)
LEMMA KeysAddUp ==
    ASSUME NEW B, TableFits(B), NEW S \in SUBSET DOMAIN B, NEW K, NEW key, DOMAIN key = S
    PROVE  SumOf([k \in K |-> SumOf(TotalsOf(B, {j \in S : key[j] = k}))])
               = SumOf(TotalsOf(B, {j \in S : key[j] \in K}))
<1> DEFINE R == {j \in S : key[j] \in K}
           f == TotalsOf(B, R)
           c == [i \in R |-> key[i]]
           part(k) == [i \in {j \in DOMAIN f : c[j] = k} |-> f[i]]
<1>1. R \in SUBSET DOMAIN B
    OBVIOUS
<1>2. DOMAIN f = R /\ Summable(f) /\ \A i \in R : f[i] = B[i].total
    <2> HIDE DEF R
    <2> QED
        BY <1>1, TotalsSummable
<1>3. c \in [DOMAIN f -> K]
    BY <1>2
<1>4. ASSUME NEW k \in K PROVE TotalsOf(B, {j \in S : key[j] = k}) = part(k)
    <2>1. {j \in S : key[j] = k} = {j \in DOMAIN f : c[j] = k}
        <3> HIDE DEF f
        <3> QED
            BY <1>2
    <2>2. \A i \in {j \in DOMAIN f : c[j] = k} : f[i] = B[i].total
        <3> HIDE DEF f, R
        <3> QED
            BY <1>2
    <2> HIDE DEF f, c
    <2> QED
        BY <2>1, <2>2 DEF TotalsOf
<1>5. [k \in K |-> SumOf(TotalsOf(B, {j \in S : key[j] = k}))] = [k \in K |-> SumOf(part(k))]
    BY <1>4
<1> HIDE DEF f, c, R
<1>6. SumOf([k \in K |-> SumOf(part(k))]) = SumOf(f)
    BY <1>2, <1>3, SumByClass
<1> QED
    BY <1>5, <1>6 DEF f, R

LEMMA EventsAddUp ==
    ASSUME NEW B, TableFits(B), NEW S \in SUBSET DOMAIN B
    PROVE  SumOf(EventRevenue(B, S)) = SumOf(TotalsOf(B, S \cap Mine(B)))
<1> DEFINE key == [j \in S |-> B[j].event]
<1>1. SumOf([e \in Events |-> SumOf(TotalsOf(B, {j \in S : key[j] = e}))])
          = SumOf(TotalsOf(B, {j \in S : key[j] \in Events}))
    <2>1. DOMAIN key = S
        OBVIOUS
    <2> HIDE DEF key
    <2> QED
        BY <2>1, KeysAddUp
<1>2. {j \in S : key[j] \in Events} = S \cap Mine(B)
    BY DEF Mine
<1>3. EventRevenue(B, S) = [e \in Events |-> SumOf(TotalsOf(B, {j \in S : key[j] = e}))]
    <2>1. \A e \in Events : {j \in S : B[j].event = e} = {j \in S : key[j] = e}
        OBVIOUS
    <2> HIDE DEF key
    <2> QED
        BY <2>1 DEF EventRevenue
<1> QED
    BY <1>1, <1>2, <1>3

LEMMA SumOfFewer ==
    ASSUME NEW B, TableFits(B), NEW S \in SUBSET DOMAIN B, NEW T \in SUBSET S
    PROVE  /\ SumOf(TotalsOf(B, T)) <= SumOf(TotalsOf(B, S))
           /\ SumOf(TotalsOf(B, T)) \in Nat /\ SumOf(TotalsOf(B, S)) \in Nat
<1> DEFINE f == TotalsOf(B, S)
           g == TotalsOf(B, T)
<1>1. DOMAIN f = S /\ Summable(f) /\ \A i \in S : f[i] = B[i].total
    BY TotalsSummable
<1>2. DOMAIN g = T /\ Summable(g) /\ \A i \in T : g[i] = B[i].total
    BY TotalsSummable
<1> HIDE DEF f, g
<1>3. DOMAIN g \subseteq DOMAIN f /\ \A x \in DOMAIN g : g[x] \in Nat /\ g[x] <= f[x]
    BY <1>1, <1>2 DEF Summable
<1>4. SumOf(g) \in Nat /\ SumOf(f) \in Nat /\ SumOf(g) <= SumOf(f)
    BY <1>1, <1>3, SumOfLess
<1> QED
    BY <1>4 DEF f, g

(* What one table has and another has not is among the orders that moved.  *)
LEMMA SumMoved ==
    ASSUME NEW A, NEW B, TableFits(A), TableFits(B), SameOrders(A, B),
           NEW S \in SUBSET DOMAIN B, NEW T \in SUBSET DOMAIN B, NEW M \in SUBSET DOMAIN B,
           S \subseteq T \cup M
    PROVE  /\ SumOf(TotalsOf(A, S)) <= SumOf(TotalsOf(B, T)) + SumOf(TotalsOf(B, M))
           /\ TotalsOf(A, S) = TotalsOf(B, S)
<1>1. TotalsOf(A, S) = TotalsOf(B, S)
    BY DEF TotalsOf, SameOrders
<1> DEFINE N == S \ T
           f == TotalsOf(B, T \cup N)
<1>2. DOMAIN f = T \cup N /\ Summable(f) /\ \A i \in T \cup N : f[i] = B[i].total
    BY TotalsSummable
<1>3. SumOf(f) = SumOf([x \in T |-> f[x]]) + SumOf([x \in N |-> f[x]])
    <2>1. T \cap N = {}
        OBVIOUS
    <2> HIDE DEF f, N
    <2> QED
        BY <1>2, <2>1, SumOfParts
<1>4. [x \in T |-> f[x]] = TotalsOf(B, T) /\ [x \in N |-> f[x]] = TotalsOf(B, N)
    <2> HIDE DEF f, N
    <2> QED
        BY <1>2 DEF TotalsOf
<1>5. SumOf(TotalsOf(B, N)) <= SumOf(TotalsOf(B, M))
    <2>1. N \in SUBSET M
        OBVIOUS
    <2> HIDE DEF N
    <2> QED
        BY <2>1, SumOfFewer
<1>6. SumOf(TotalsOf(B, S)) <= SumOf(TotalsOf(B, T \cup N))
    <2>1. S \in SUBSET (T \cup N) /\ T \cup N \in SUBSET DOMAIN B
        OBVIOUS
    <2> HIDE DEF N
    <2> QED
        BY <2>1, SumOfFewer
<1>7. /\ SumOf(TotalsOf(B, T)) \in Nat /\ SumOf(TotalsOf(B, N)) \in Nat
      /\ SumOf(TotalsOf(B, M)) \in Nat /\ SumOf(TotalsOf(B, S)) \in Nat
    BY TotalsSummable
<1>8. SumOf(TotalsOf(B, T \cup N)) = SumOf(TotalsOf(B, T)) + SumOf(TotalsOf(B, N))
    <2> HIDE DEF N
    <2> QED
        BY <1>3, <1>4
<1> HIDE DEF N, f
<1>9. SumOf(TotalsOf(B, S)) <= SumOf(TotalsOf(B, T)) + SumOf(TotalsOf(B, M))
    BY <1>5, <1>6, <1>7, <1>8
<1> QED
    BY <1>1, <1>9

LEMMA CountMoved ==
    ASSUME NEW D, IsFiniteSet(D), NEW S \in SUBSET D, NEW T \in SUBSET D, NEW M \in SUBSET D,
           S \subseteq T \cup M
    PROVE  /\ Cardinality(S) <= Cardinality(T) + Cardinality(M)
           /\ Cardinality(S) \in Nat /\ Cardinality(T) \in Nat /\ Cardinality(M) \in Nat
<1>1. IsFiniteSet(S) /\ IsFiniteSet(T) /\ IsFiniteSet(M) /\ IsFiniteSet(T \cup M)
    BY FS_Subset
<1>2. Cardinality(S) <= Cardinality(T \cup M)
    BY <1>1, FS_Subset
<1>3. Cardinality(T \cup M) = Cardinality(T) + Cardinality(M) - Cardinality(T \cap M)
    BY <1>1, FS_Union
<1>4. /\ Cardinality(S) \in Nat /\ Cardinality(T) \in Nat /\ Cardinality(M) \in Nat
      /\ Cardinality(T \cap M) \in Nat /\ Cardinality(T \cup M) \in Nat
    BY <1>1, FS_Subset, FS_CardinalityType
<1> QED
    BY <1>2, <1>3, <1>4

LEMMA DaysAreWhole ==
    /\ \A h \in Int : h % DayLength \in 0 .. DayLength - 1 /\ DayOf(h) \in Int
    /\ \A g, h \in Int : g <= h => DayOf(g) <= DayOf(h)
<1>1. DayLength \in Nat /\ DayLength > 0
    BY ReportsAssumption
<1>2. ASSUME NEW h \in Int PROVE h % DayLength \in 0 .. DayLength - 1
    BY <1>1
<1>3. ASSUME NEW h \in Int PROVE DayOf(h) \in Int
    BY <1>1 DEF DayOf
<1>4. ASSUME NEW g \in Int, NEW h \in Int, g <= h PROVE DayOf(g) <= DayOf(h)
    BY <1>1, <1>4 DEF DayOf
<1> QED
    BY <1>2, <1>3, <1>4

LEMMA HoursAddUp ==
    ASSUME NEW B, TableFits(B), NEW w
    PROVE  SumOf(ByHour(B, w)) = Cardinality(PaidWithin(B, w))
<1> DEFINE U == PaidWithin(B, w)
           E == 0 .. DayLength - 1
           c == [i \in U |-> B[i].paidAt % DayLength]
<1>1. U \subseteq DOMAIN B
    BY DEF PaidWithin, With
<1>2. IsFiniteSet(U)
    BY <1>1, FS_Subset DEF TableFits
<1>3. c \in [U -> E]
    <2> SUFFICES ASSUME NEW i \in U PROVE B[i].paidAt % DayLength \in E
        OBVIOUS
    <2>1. B[i].paidAt \in Nat
        BY <1>1 DEF TableFits, OrderRows
    <2>2. B[i].paidAt \in Int
        BY <2>1
    <2> QED
        BY <2>2, DaysAreWhole
<1>4. ByHour(B, w) = [h \in E |-> Cardinality({u \in U : c[u] = h})]
    BY DEF ByHour
<1> HIDE DEF U, E, c
<1>5. Cardinality(Units([h \in E |-> Cardinality({u \in U : c[u] = h})])) = Cardinality(U)
    BY <1>2, <1>3, ClassesAddUp
<1> QED
    BY <1>4, <1>5 DEF SumOf, U

LEMMA ManyTimes ==
    ASSUME NEW r \in Nat \ {0}, NEW t \in Nat
    PROVE  /\ r * t \in Nat /\ t <= r * t /\ (r * t = 0 <=> t = 0)
           /\ t = r * t <=> t = 0 \/ r = 1
<1> DEFINE k == r - 1
           rest == k * t
<1>1. k \in Nat
    OBVIOUS
<1>2. rest \in Nat
    BY <1>1, ProductIsNat
<1>3. r * t = t + rest
    OBVIOUS
<1>4. rest = 0 <=> k = 0 \/ t = 0
    <2> HIDE DEF k
    <2> QED
        BY <1>1
<1> HIDE DEF rest
<1> QED
    BY <1>2, <1>3, <1>4

(* Every table that answered a query has the orders of the table there is. *)
ReadFits(A, B) == A = <<>> \/ (B # <<>> /\ TableFits(A) /\ SameOrders(A, B))
ReportsTyped ==
    /\ hour \in Nat /\ until \in [Analysts -> Nat] /\ span \in [Analysts -> Nat]
    /\ DOMAIN read = Readers
    /\ \A c \in Readers : DOMAIN read[c] = ReportQueries \cup PlainQueries
ReportInv ==
    /\ ReportsTyped /\ TableFits(book)
    /\ \A c \in Readers, q \in ReportQueries \cup PlainQueries : ReadFits(read[c][q], book)

LEMMA WindowTyped ==
    ASSUME ReportsTyped, NEW c \in Analysts
    PROVE  WindowOf(c).from \in Int /\ WindowOf(c).to \in Int
<1>1. until[c] \in Nat /\ span[c] \in Nat /\ DayLength \in Nat
    BY ReportsAssumption DEF ReportsTyped
<1>2. Clamped(span[c]) \in Nat
    BY <1>1 DEF Clamped
<1>3. Clamped(span[c]) * DayLength \in Nat
    BY <1>1, <1>2, ProductIsNat
<1> QED
    BY <1>1, <1>3 DEF WindowOf

LEMMA ChartShows ==
    ASSUME NEW B, TableFits(B), NEW w, w.from \in Int, w.to \in Int
    PROVE  LET shown == {i \in With(B, "PAID") \cap Mine(B) : DayOf(B[i].paidAt) \in DaysOf(w)}
           IN  /\ Gross(B, w) <= SumOf(Daily(B, w))
               /\ Gross(B, w) \in Nat /\ SumOf(Daily(B, w)) \in Nat
               /\ Gross(B, w) = SumOf(Daily(B, w)) <=>
                     \A i \in shown : B[i].total = 0 \/ (B[i].tickets <= 1 /\ Inside(B[i], w))
<1> DEFINE P == With(B, "PAID") \cap Mine(B)
           W == PaidWithin(B, w)
           D == DaysOf(w)
           shown == {i \in P : DayOf(B[i].paidAt) \in D}
           f == [i \in shown |-> JoinRows(B[i]) * B[i].total]
           g == TotalsOf(B, W)
           c == [i \in shown |-> DayOf(B[i].paidAt)]
           part(d) == [i \in {j \in DOMAIN f : c[j] = d} |-> f[i]]
<1>1. P \subseteq DOMAIN B /\ shown \subseteq P /\ W = {i \in P : Inside(B[i], w)}
    BY DEF With, PaidWithin
<1>2. \A i \in P : /\ i \in DOMAIN B /\ B[i].total \in Nat /\ JoinRows(B[i]) \in Nat \ {0}
                   /\ (JoinRows(B[i]) = 1 <=> B[i].tickets <= 1)
                   /\ B[i].paidAt \in Int
    <2> SUFFICES ASSUME NEW i \in P
                 PROVE  /\ i \in DOMAIN B /\ B[i].total \in Nat /\ JoinRows(B[i]) \in Nat \ {0}
                        /\ (JoinRows(B[i]) = 1 <=> B[i].tickets <= 1)
                        /\ B[i].paidAt \in Int
        OBVIOUS
    <2>1. i \in DOMAIN B /\ B[i].total \in Nat /\ B[i].tickets \in Nat /\ B[i].paidAt \in Nat
        <3>1. i \in DOMAIN B
            BY <1>1
        <3> HIDE DEF P
        <3> QED
            BY <3>1 DEF TableFits, OrderRows
    <2>2. JoinRows(B[i]) \in Nat \ {0} /\ (JoinRows(B[i]) = 1 <=> B[i].tickets <= 1)
        BY <2>1 DEF JoinRows
    <2>3. B[i].paidAt \in Int
        BY <2>1
    <2> QED
        BY <2>1, <2>2, <2>3
<1>3. ASSUME NEW i \in W PROVE i \in shown
    <2>1. i \in P /\ w.from <= B[i].paidAt /\ B[i].paidAt <= w.to /\ B[i].paidAt \in Int
        BY <1>1, <1>2 DEF Inside
    <2>2. /\ DayOf(w.from) <= DayOf(B[i].paidAt) /\ DayOf(B[i].paidAt) <= DayOf(w.to)
          /\ DayOf(w.from) \in Int /\ DayOf(B[i].paidAt) \in Int /\ DayOf(w.to) \in Int
        BY <2>1, DaysAreWhole
    <2>3. DayOf(B[i].paidAt) \in D
        BY <2>2 DEF DaysOf
    <2> QED
        BY <2>1, <2>3
<1>4. Daily(B, w) = [d \in D |-> SumOf(part(d))]
    <2>1. ASSUME NEW d \in D
          PROVE  SumOf([i \in OfDay(B, d) |-> JoinRows(B[i]) * B[i].total]) = SumOf(part(d))
        <3>1. OfDay(B, d) = {j \in DOMAIN f : c[j] = d}
            BY DEF OfDay
        <3>2. [i \in OfDay(B, d) |-> JoinRows(B[i]) * B[i].total] = part(d)
            BY <3>1
        <3> QED
            BY <3>2
    <2>2. Daily(B, w) = [d \in D |-> SumOf([i \in OfDay(B, d) |-> JoinRows(B[i]) * B[i].total])]
        BY DEF Daily
    <2> QED
        BY <2>1, <2>2
<1>5. DOMAIN f = shown /\ c \in [shown -> D] /\ \A i \in shown : f[i] = JoinRows(B[i]) * B[i].total
    OBVIOUS
<1>6. DOMAIN g = W /\ Summable(g) /\ \A i \in W : g[i] = B[i].total
    <2>1. W \subseteq DOMAIN B
        BY <1>1
    <2> HIDE DEF W
    <2> QED
        BY <2>1, TotalsSummable
<1>7. shown \subseteq P
    BY <1>1
<1> HIDE DEF P, W, D, shown, f, g, c
<1>8. ASSUME NEW i \in shown
      PROVE  /\ f[i] \in Nat /\ B[i].total \in Nat /\ B[i].total <= f[i] /\ (f[i] = 0 <=> B[i].total = 0)
             /\ B[i].total = f[i] <=> B[i].total = 0 \/ B[i].tickets <= 1
    <2> DEFINE r == JoinRows(B[i])
               t == B[i].total
    <2>1. r \in Nat \ {0} /\ t \in Nat /\ (r = 1 <=> B[i].tickets <= 1) /\ f[i] = r * t
        BY <1>2, <1>5, <1>7
    <2> HIDE DEF r
    <2>2. r * t \in Nat /\ t <= r * t /\ (r * t = 0 <=> t = 0) /\ (t = r * t <=> t = 0 \/ r = 1)
        BY <2>1, ManyTimes
    <2> QED
        BY <2>1, <2>2
<1>9. Summable(f)
    <2>1. IsFiniteSet(shown)
        BY <1>1, <1>7, FS_Subset DEF TableFits
    <2> QED
        BY <1>5, <1>8, <2>1 DEF Summable
<1>10. SumOf([d \in D |-> SumOf(part(d))]) = SumOf(f)
    BY <1>5, <1>9, SumByClass
<1>11. DOMAIN g \subseteq DOMAIN f /\ \A i \in DOMAIN g : g[i] \in Nat /\ g[i] <= f[i]
    BY <1>3, <1>5, <1>6, <1>8
<1>12. /\ SumOf(g) \in Nat /\ SumOf(f) \in Nat /\ SumOf(g) <= SumOf(f)
       /\ SumOf(g) = SumOf(f) <=> \A i \in DOMAIN f : f[i] = 0 \/ (i \in DOMAIN g /\ g[i] = f[i])
    BY <1>9, <1>11, SumOfLess
<1>13. ASSUME NEW i \in shown
       PROVE  f[i] = 0 \/ (i \in DOMAIN g /\ g[i] = f[i]) <=>
                 B[i].total = 0 \/ (B[i].tickets <= 1 /\ Inside(B[i], w))
    <2>1. i \in DOMAIN g <=> Inside(B[i], w)
        BY <1>1, <1>6, <1>7
    <2>2. i \in DOMAIN g => g[i] = B[i].total
        BY <1>6
    <2> QED
        BY <1>8, <2>1, <2>2
<1>14. SumOf(g) = SumOf(f) <=>
           \A i \in shown : B[i].total = 0 \/ (B[i].tickets <= 1 /\ Inside(B[i], w))
    BY <1>5, <1>12, <1>13
<1>15. SumOf(Daily(B, w)) = SumOf(f)
    BY <1>4, <1>10
<1>16. Gross(B, w) = SumOf(g)
    BY DEF Gross, g, W
<1> QED
    BY <1>12, <1>14, <1>15, <1>16 DEF shown, P, D

LEMMA EmptyTable == TableFits(<<>>)
<1>1. DOMAIN <<>> = {}
    OBVIOUS
<1> QED
    BY <1>1, FS_EmptySet DEF TableFits

LEMMA ReportIsInit == Init => ReportInv
<1> SUFFICES ASSUME Init PROVE ReportInv
    OBVIOUS
<1>1. ReportsInit /\ Now \in Nat
    BY ReportsAssumption DEF Init
<1>2. ReportsTyped
    BY <1>1 DEF ReportsInit, ReportsTyped, Nobody
<1>3. \A c \in Readers, q \in ReportQueries \cup PlainQueries : read[c][q] = <<>>
    BY <1>1 DEF ReportsInit, Nobody
<1>4. book = <<>>
    BY <1>1 DEF ReportsInit
<1> QED
    BY <1>2, <1>3, <1>4, EmptyTable DEF ReportInv, ReadFits

(* A step that keeps the orders' numbers and totals, and answers queries   *)
(* from the table there is.                                                *)
LEMMA ReadsStayFit ==
    ASSUME ReportInv, ReportsTyped', TableFits(book'),
           book = <<>> \/ (book' # <<>> /\ SameOrders(book, book')),
           \A c \in Readers, q \in ReportQueries \cup PlainQueries :
               read'[c][q] \in {read[c][q], book'}
    PROVE  ReportInv'
<1> SUFFICES ASSUME NEW c \in Readers, NEW q \in ReportQueries \cup PlainQueries
             PROVE  ReadFits(read'[c][q], book')
    BY DEF ReportInv
<1>1. CASE read'[c][q] = book'
    BY <1>1 DEF ReadFits, SameOrders
<1>2. CASE read'[c][q] = read[c][q]
    <2>1. ReadFits(read[c][q], book)
        BY DEF ReportInv
    <2> QED
        BY <1>2, <2>1 DEF ReadFits, SameOrders
<1> QED
    BY <1>1, <1>2

LEMMA FoundOrders ==
    ASSUME ReportInv, FindsOrders
    PROVE  TableFits(book') /\ (book = <<>> \/ (book' # <<>> /\ SameOrders(book, book')))
<1>1. CASE book = <<>>
    BY <1>1, BooksAssumption DEF FindsOrders, TableFits
<1>2. CASE book # <<>>
    BY <1>2 DEF FindsOrders, ReportInv, SameOrders
<1> QED
    BY <1>1, <1>2

LEMMA OrderChanged ==
    ASSUME ReportInv, NEW i \in DOMAIN book, NEW row \in OrderRows, row.total = book[i].total,
           book' = [book EXCEPT ![i] = row]
    PROVE  TableFits(book') /\ (book = <<>> \/ (book' # <<>> /\ SameOrders(book, book')))
<1>1. DOMAIN book' = DOMAIN book /\ \A j \in DOMAIN book : book'[j] = IF j = i THEN row ELSE book[j]
    OBVIOUS
<1>2. TableFits(book')
    BY <1>1 DEF ReportInv, TableFits
<1>3. SameOrders(book, book')
    BY <1>1 DEF SameOrders
<1>4. book' # <<>>
    BY <1>1
<1> QED
    BY <1>2, <1>3, <1>4

LEMMA QueryAnswered ==
    ASSUME ReportsTyped, NEW c \in Readers, NEW q \in ReportQueries \cup PlainQueries, NEW A,
           read' = [read EXCEPT ![c][q] = A]
    PROVE  /\ DOMAIN read' = Readers
           /\ \A d \in Readers : DOMAIN read'[d] = ReportQueries \cup PlainQueries
           /\ \A d \in Readers, p \in ReportQueries \cup PlainQueries :
                  read'[d][p] \in {read[d][p], A}
    BY DEF ReportsTyped

LEMMA ReportStep ==
    ASSUME ReportInv, ReportsNext
    PROVE  ReportInv'
<1>1. ReportsTyped /\ TableFits(book) /\ Readers = Analysts \cup Glances
    BY DEF ReportInv, Readers
<1>2. ASSUME NEW c \in Analysts, AskReport(c) PROVE ReportInv'
    <2>1. FindsOrders /\ read' = read
        BY <1>2 DEF AskReport
    <2>2. ReportsTyped'
        <3>1. PICK days \in Ranges : span' = [span EXCEPT ![c] = days]
            BY <1>2 DEF AskReport
        <3>2. days \in Nat /\ hour' = hour /\ until' = [until EXCEPT ![c] = hour]
            BY <1>2, ReportsAssumption DEF AskReport
        <3> QED
            BY <1>1, <2>1, <3>1, <3>2 DEF ReportsTyped
    <2> QED
        BY <2>1, <2>2, FoundOrders, ReadsStayFit
<1>3. ASSUME NEW c \in Readers, NEW q \in ReportQueries \cup PlainQueries,
             read' = [read EXCEPT ![c][q] = book'], UNCHANGED <<hour, until, span>>,
             book' = book \/ FindsOrders
      PROVE  ReportInv'
    <2>1. ReportsTyped'
        BY <1>1, <1>3, QueryAnswered DEF ReportsTyped
    <2>2. TableFits(book') /\ (book = <<>> \/ (book' # <<>> /\ SameOrders(book, book')))
        BY <1>1, <1>3, FoundOrders DEF SameOrders
    <2>3. \A d \in Readers, p \in ReportQueries \cup PlainQueries : read'[d][p] \in {read[d][p], book'}
        BY <1>1, <1>3, QueryAnswered
    <2> QED
        BY <2>1, <2>2, <2>3, ReadsStayFit
<1>4. ASSUME NEW c \in Analysts, NEW q \in Together, AnswerTotals(c, q) PROVE ReportInv'
    BY <1>1, <1>3, <1>4 DEF AnswerTotals, ReportQueries
<1>5. ASSUME NEW c \in Analysts, NEW q \in ReportQueries \ Together, AnswerQuery(c, q) PROVE ReportInv'
    BY <1>1, <1>3, <1>5 DEF AnswerQuery
<1>6. ASSUME NEW c \in Glances, NEW q \in PlainQueries, ReadFigure(c, q) PROVE ReportInv'
    BY <1>1, <1>3, <1>6 DEF ReadFigure
<1>7. ASSUME NEW c \in Analysts, ReportCutShort(c) PROVE ReportInv'
    BY <1>7 DEF ReportCutShort, reportVars, ReportInv, ReportsTyped
<1>8. ASSUME NEW i \in DOMAIN book, NEW row \in OrderRows, row.total = book[i].total,
             book' = [book EXCEPT ![i] = row], UNCHANGED <<hour, until, span, read>>
      PROVE  ReportInv'
    <2>1. ReportsTyped'
        BY <1>1, <1>8 DEF ReportsTyped
    <2> QED
        BY <1>8, <2>1, OrderChanged, ReadsStayFit
<1>9. ASSUME NEW i \in DOMAIN book, OrderPaid(i) PROVE ReportInv'
    <2>1. PICK h \in Now..hour, n \in TicketCounts \cup {0} :
              book' = [book EXCEPT ![i] = PaidAt(book[i], h, n)]
        BY <1>9 DEF OrderPaid
    <2>2. h \in Nat /\ n \in Nat /\ book[i] \in OrderRows
        BY <1>1, ReportsAssumption DEF ReportsTyped, TableFits
    <2>3. PaidAt(book[i], h, n) \in OrderRows /\ PaidAt(book[i], h, n).total = book[i].total
        BY <2>2 DEF OrderRows, PaidAt
    <2>4. UNCHANGED <<hour, until, span, read>>
        BY <1>9 DEF OrderPaid
    <2> QED
        BY <1>8, <2>1, <2>3, <2>4
<1>10. ASSUME NEW i \in DOMAIN book, OrderRefunded(i) PROVE ReportInv'
    <2> DEFINE row == [book[i] EXCEPT !.status = "REFUNDED"]
    <2>1. book[i] \in OrderRows
        BY <1>1 DEF TableFits
    <2>2. row \in OrderRows /\ row.total = book[i].total
        BY <2>1 DEF OrderRows
    <2>3. book' = [book EXCEPT ![i] = row] /\ UNCHANGED <<hour, until, span, read>>
        BY <1>10 DEF OrderRefunded
    <2> HIDE DEF row
    <2> QED
        BY <1>8, <2>2, <2>3
<1>11. CASE HourPasses
    BY <1>1, <1>11 DEF HourPasses, ReportInv, ReportsTyped
<1>12. ASSUME NEW i \in DOMAIN book, TicketsIssued(i) PROVE ReportInv'
    <2>1. PICK n \in TicketCounts : book' = [book EXCEPT ![i] = [book[i] EXCEPT !.tickets = n]]
        BY <1>12 DEF TicketsIssued
    <2> DEFINE row == [book[i] EXCEPT !.tickets = n]
    <2>2. n \in Nat /\ book[i] \in OrderRows
        BY <1>1, ReportsAssumption DEF TableFits
    <2>3. row \in OrderRows /\ row.total = book[i].total
        BY <2>2 DEF OrderRows
    <2>4. book' = [book EXCEPT ![i] = row] /\ UNCHANGED <<hour, until, span, read>>
        BY <1>12, <2>1 DEF TicketsIssued
    <2> HIDE DEF row
    <2> QED
        BY <1>8, <2>3, <2>4
<1> QED
    BY <1>2, <1>4, <1>5, <1>6, <1>7, <1>9, <1>10, <1>11, <1>12 DEF ReportsNext, AnalystStep

LEMMA ReportInductive == ReportInv /\ [Next]_vars => ReportInv'
<1> SUFFICES ASSUME ReportInv, [Next]_vars PROVE ReportInv'
    OBVIOUS
<1>1. CASE UNCHANGED reportVars
    BY <1>1 DEF reportVars, ReportInv, ReportsTyped
<1>2. CASE UNCHANGED vars
    BY <1>1, <1>2 DEF vars
<1>3. CASE Next
    <2>1. PICK i \in 1..9 : StepOf(i)
        BY <1>3, StepsOfParts
    <2>2. CASE i = 6
        BY <2>1, <2>2, ReportStep DEF StepOf
    <2>3. CASE i # 6
        BY <1>1, <2>1, <2>3 DEF StepOf
    <2> QED
        BY <2>2, <2>3
<1> QED
    BY <1>2, <1>3

(* What one table has and another has not was settled in the meantime.     *)
LEMMA SettledMeanwhile ==
    ASSUME NEW A, NEW B, TableFits(A), TableFits(B), SameOrders(A, B), NEW w
    PROVE  /\ PaidWithin(A, w) \in SUBSET DOMAIN B /\ PaidWithin(B, w) \in SUBSET DOMAIN B
           /\ RefundedWithin(A, w) \in SUBSET DOMAIN B /\ RefundedWithin(B, w) \in SUBSET DOMAIN B
           /\ MovedWithin(A, B, w) \in SUBSET DOMAIN B
           /\ PaidWithin(A, w) \subseteq PaidWithin(B, w) \cup MovedWithin(A, B, w)
           /\ PaidWithin(B, w) \subseteq PaidWithin(A, w) \cup MovedWithin(A, B, w)
           /\ RefundedWithin(A, w) \subseteq RefundedWithin(B, w) \cup MovedWithin(A, B, w)
           /\ RefundedWithin(B, w) \subseteq RefundedWithin(A, w) \cup MovedWithin(A, B, w)
<1>1. DOMAIN A = DOMAIN B
    BY DEF SameOrders
<1>2. /\ \A i : i \in PaidWithin(A, w) <=>
             i \in DOMAIN B /\ A[i].status = "PAID" /\ A[i].event \in Events /\ Inside(A[i], w)
      /\ \A i : i \in PaidWithin(B, w) <=>
             i \in DOMAIN B /\ B[i].status = "PAID" /\ B[i].event \in Events /\ Inside(B[i], w)
    BY <1>1 DEF PaidWithin, With, Mine
<1>3. /\ \A i : i \in RefundedWithin(A, w) <=>
             i \in DOMAIN B /\ A[i].status = "REFUNDED" /\ A[i].event \in Events /\ Inside(A[i], w)
      /\ \A i : i \in RefundedWithin(B, w) <=>
             i \in DOMAIN B /\ B[i].status = "REFUNDED" /\ B[i].event \in Events /\ Inside(B[i], w)
    BY <1>1 DEF RefundedWithin, With, Mine
<1>4. /\ \A i : i \in SettledWithin(A, w) <=>
             i \in PaidWithin(A, w) \/ i \in RefundedWithin(A, w)
      /\ \A i : i \in SettledWithin(B, w) <=>
             i \in PaidWithin(B, w) \/ i \in RefundedWithin(B, w)
    BY DEF SettledWithin, PaidWithin, RefundedWithin
<1>5. \A i : i \in MovedWithin(A, B, w) <=>
          i \in DOMAIN B /\ A[i] # B[i] /\ (i \in SettledWithin(A, w) \/ i \in SettledWithin(B, w))
    BY DEF MovedWithin, Moved
<1> QED
    BY <1>2, <1>3, <1>4, <1>5

LEMMA SettledAreTwoKinds ==
    ASSUME NEW B, TableFits(B), NEW w
    PROVE  /\ Cardinality(SettledWithin(B, w))
                  = Cardinality(PaidWithin(B, w)) + Cardinality(RefundedWithin(B, w))
           /\ Cardinality(PaidWithin(B, w)) \in Nat /\ Cardinality(RefundedWithin(B, w)) \in Nat
<1> DEFINE S == PaidWithin(B, w)
           T == RefundedWithin(B, w)
<1>1. S \subseteq DOMAIN B /\ T \subseteq DOMAIN B /\ S \cap T = {}
    BY DEF PaidWithin, RefundedWithin, With
<1>2. SettledWithin(B, w) = S \cup T
    BY DEF PaidWithin, RefundedWithin, SettledWithin
<1> HIDE DEF S, T
<1>3. IsFiniteSet(S) /\ IsFiniteSet(T)
    BY <1>1, FS_Subset DEF TableFits
<1>4. Cardinality(S \cup T) = Cardinality(S) + Cardinality(T) - Cardinality(S \cap T)
    BY <1>3, FS_Union
<1>5. Cardinality(S) \in Nat /\ Cardinality(T) \in Nat /\ Cardinality(S \cap T) = 0
    BY <1>1, <1>3, FS_CardinalityType, FS_EmptySet
<1> QED
    BY <1>2, <1>4, <1>5 DEF S, T

(* Two answers to queries are tables of the same orders.                   *)
LEMMA AnswersFit ==
    ASSUME ReportInv, NEW c \in Readers, NEW d \in Readers,
           NEW p \in ReportQueries \cup PlainQueries, NEW q \in ReportQueries \cup PlainQueries,
           read[c][p] # <<>>, read[d][q] # <<>>
    PROVE  /\ TableFits(read[c][p]) /\ TableFits(read[d][q])
           /\ SameOrders(read[c][p], read[d][q]) /\ SameOrders(read[d][q], read[c][p])
<1>1. ReadFits(read[c][p], book) /\ ReadFits(read[d][q], book)
    BY DEF ReportInv
<1> QED
    BY <1>1 DEF ReadFits, SameOrders

LEMMA GrossAndEvents ==
    ASSUME NEW A, NEW B, TableFits(A), TableFits(B), SameOrders(A, B), SameOrders(B, A), NEW w
    PROVE  OffBy(Gross(A, w), SumOf(TopEvents(B, w)), SumOf(TotalsOf(B, MovedWithin(A, B, w))))
<1> DEFINE S == PaidWithin(A, w)
           T == PaidWithin(B, w)
           M == MovedWithin(A, B, w)
<1>1. /\ S \in SUBSET DOMAIN B /\ T \in SUBSET DOMAIN B /\ M \in SUBSET DOMAIN B
      /\ S \subseteq T \cup M /\ T \subseteq S \cup M /\ DOMAIN A = DOMAIN B
    BY SettledMeanwhile DEF SameOrders
<1>2. T \cap Mine(B) = T
    BY DEF PaidWithin
<1>3. Gross(A, w) = SumOf(TotalsOf(A, S)) /\ TopEvents(B, w) = EventRevenue(B, T)
    BY DEF Gross, TopEvents
<1> HIDE DEF S, T, M
<1>4. SumOf(EventRevenue(B, T)) = SumOf(TotalsOf(B, T))
    BY <1>1, <1>2, EventsAddUp
<1>5. SumOf(TotalsOf(A, S)) <= SumOf(TotalsOf(B, T)) + SumOf(TotalsOf(B, M))
    BY <1>1, SumMoved
<1>6. /\ SumOf(TotalsOf(B, T)) <= SumOf(TotalsOf(A, S)) + SumOf(TotalsOf(A, M))
      /\ TotalsOf(A, M) = TotalsOf(B, M)
    <2>1. SumOf(TotalsOf(B, T)) <= SumOf(TotalsOf(A, S)) + SumOf(TotalsOf(A, M))
        BY <1>1, SumMoved
    <2>2. TotalsOf(A, M) = TotalsOf(B, M)
        BY <1>1 DEF TotalsOf, SameOrders
    <2> QED
        BY <2>1, <2>2
<1> QED
    BY <1>3, <1>4, <1>5, <1>6 DEF OffBy, M

LEMMA CountsOfOrders ==
    ASSUME NEW A, NEW B, TableFits(A), TableFits(B), SameOrders(A, B), NEW w
    PROVE  /\ OffBy(Cardinality(PaidWithin(A, w)), Cardinality(PaidWithin(B, w)),
                    Cardinality(MovedWithin(A, B, w)))
           /\ OffBy(Cardinality(PaidWithin(A, w)) + Cardinality(RefundedWithin(B, w)),
                    Cardinality(SettledWithin(A, w)), Cardinality(MovedWithin(A, B, w)))
<1> DEFINE S == PaidWithin(A, w)
           T == PaidWithin(B, w)
           X == RefundedWithin(A, w)
           Y == RefundedWithin(B, w)
           M == MovedWithin(A, B, w)
           D == DOMAIN B
<1>1. /\ S \in SUBSET D /\ T \in SUBSET D /\ M \in SUBSET D /\ X \in SUBSET D /\ Y \in SUBSET D
      /\ S \subseteq T \cup M /\ T \subseteq S \cup M /\ X \subseteq Y \cup M /\ Y \subseteq X \cup M
    BY SettledMeanwhile
<1>2. IsFiniteSet(D)
    BY DEF TableFits
<1>3. Cardinality(SettledWithin(A, w)) = Cardinality(S) + Cardinality(X)
    BY SettledAreTwoKinds
<1> HIDE DEF S, T, X, Y, M, D
<1>4. /\ Cardinality(S) <= Cardinality(T) + Cardinality(M)
      /\ Cardinality(S) \in Nat /\ Cardinality(T) \in Nat /\ Cardinality(M) \in Nat
    BY <1>1, <1>2, CountMoved
<1>5. Cardinality(T) <= Cardinality(S) + Cardinality(M)
    BY <1>1, <1>2, CountMoved
<1>6. Cardinality(X) <= Cardinality(Y) + Cardinality(M) /\ Cardinality(X) \in Nat /\ Cardinality(Y) \in Nat
    BY <1>1, <1>2, CountMoved
<1>7. Cardinality(Y) <= Cardinality(X) + Cardinality(M)
    BY <1>1, <1>2, CountMoved
<1>8. OffBy(Cardinality(S), Cardinality(T), Cardinality(M))
    BY <1>4, <1>5 DEF OffBy
<1>9. OffBy(Cardinality(S) + Cardinality(Y), Cardinality(S) + Cardinality(X), Cardinality(M))
    BY <1>4, <1>6, <1>7 DEF OffBy
<1> QED
    BY <1>3, <1>8, <1>9 DEF S, T, Y, M

LEMMA FiguresFit == ReportInv => FiguresAgree
<1> SUFFICES ASSUME ReportInv, NEW c \in Reported
             PROVE  LET w      == WindowOf(c)
                        paid   == read[c]["paid"]
                        gone   == read[c]["refunded"]
                        hourly == read[c]["hourly"]
                        top    == read[c]["top"]
                    IN  /\ OffBy(Gross(paid, w), SumOf(TopEvents(top, w)),
                                 SumOf(TotalsOf(top, MovedWithin(paid, top, w))))
                        /\ OffBy(Cardinality(PaidWithin(paid, w)), SumOf(ByHour(hourly, w)),
                                 Cardinality(MovedWithin(paid, hourly, w)))
                        /\ OffBy(Cardinality(PaidWithin(paid, w)) + Cardinality(RefundedWithin(gone, w)),
                                 Cardinality(SettledWithin(paid, w)),
                                 Cardinality(MovedWithin(paid, gone, w)))
    BY DEF FiguresAgree
<1> DEFINE w == WindowOf(c)
           paid == read[c]["paid"]
           gone == read[c]["refunded"]
           hourly == read[c]["hourly"]
           top == read[c]["top"]
<1>1. /\ c \in Readers
      /\ \A q \in ReportQueries : q \in ReportQueries \cup PlainQueries /\ read[c][q] # <<>>
    BY DEF Reported, Readers
<1>2. /\ "paid" \in ReportQueries /\ "refunded" \in ReportQueries
      /\ "hourly" \in ReportQueries /\ "top" \in ReportQueries
    BY DEF ReportQueries, Together
<1>3. TableFits(paid) /\ TableFits(top) /\ SameOrders(paid, top) /\ SameOrders(top, paid)
    BY <1>1, <1>2, AnswersFit
<1>4. TableFits(hourly) /\ SameOrders(paid, hourly)
    BY <1>1, <1>2, AnswersFit
<1>5. TableFits(gone) /\ SameOrders(paid, gone)
    BY <1>1, <1>2, AnswersFit
<1> HIDE DEF w, paid, gone, hourly, top
<1>6. OffBy(Gross(paid, w), SumOf(TopEvents(top, w)), SumOf(TotalsOf(top, MovedWithin(paid, top, w))))
    BY <1>3, GrossAndEvents
<1>7. SumOf(ByHour(hourly, w)) = Cardinality(PaidWithin(hourly, w))
    BY <1>4, HoursAddUp
<1>8. OffBy(Cardinality(PaidWithin(paid, w)), Cardinality(PaidWithin(hourly, w)),
            Cardinality(MovedWithin(paid, hourly, w)))
    BY <1>3, <1>4, CountsOfOrders
<1>9. OffBy(Cardinality(PaidWithin(paid, w)) + Cardinality(RefundedWithin(gone, w)),
            Cardinality(SettledWithin(paid, w)), Cardinality(MovedWithin(paid, gone, w)))
    BY <1>3, <1>5, CountsOfOrders
<1> QED
    BY <1>6, <1>7, <1>8, <1>9 DEF w, paid, gone, hourly, top

LEMMA ChartFits == ReportInv => ChartCoversWindow
<1> SUFFICES ASSUME ReportInv, NEW c \in Reported
             PROVE  LET w     == WindowOf(c)
                        paid  == read[c]["paid"]
                        B     == read[c]["daily"]
                        chart == SumOf(Daily(B, w))
                        shown == {i \in With(B, "PAID") \cap Mine(B) : DayOf(B[i].paidAt) \in DaysOf(w)}
                    IN  /\ Gross(paid, w) <= chart + SumOf(TotalsOf(B, MovedWithin(paid, B, w)))
                        /\ paid = B =>
                             (Gross(paid, w) = chart <=>
                                \A i \in shown : B[i].total = 0 \/ (B[i].tickets <= 1 /\ Inside(B[i], w)))
    BY DEF ChartCoversWindow
<1> DEFINE w == WindowOf(c)
           paid == read[c]["paid"]
           B == read[c]["daily"]
           S == PaidWithin(paid, w)
           T == PaidWithin(B, w)
           M == MovedWithin(paid, B, w)
<1>1. /\ c \in Readers /\ c \in Analysts /\ ReportsTyped
      /\ \A q \in ReportQueries : q \in ReportQueries \cup PlainQueries /\ read[c][q] # <<>>
    BY DEF Reported, Readers, ReportInv
<1>2. "paid" \in ReportQueries /\ "daily" \in ReportQueries
    BY DEF ReportQueries, Together
<1>3. TableFits(paid) /\ TableFits(B) /\ SameOrders(paid, B)
    BY <1>1, <1>2, AnswersFit
<1>4. w.from \in Int /\ w.to \in Int
    BY <1>1, WindowTyped
<1> HIDE DEF w, paid, B
<1>5. LET shown == {i \in With(B, "PAID") \cap Mine(B) : DayOf(B[i].paidAt) \in DaysOf(w)}
      IN  /\ Gross(B, w) <= SumOf(Daily(B, w))
          /\ Gross(B, w) \in Nat /\ SumOf(Daily(B, w)) \in Nat
          /\ Gross(B, w) = SumOf(Daily(B, w)) <=>
                \A i \in shown : B[i].total = 0 \/ (B[i].tickets <= 1 /\ Inside(B[i], w))
    BY <1>3, <1>4, ChartShows
<1>6. /\ S \in SUBSET DOMAIN B /\ T \in SUBSET DOMAIN B /\ M \in SUBSET DOMAIN B
      /\ S \subseteq T \cup M /\ S \in SUBSET DOMAIN paid
    BY <1>3, SettledMeanwhile DEF SameOrders
<1>7. Gross(paid, w) = SumOf(TotalsOf(paid, S)) /\ Gross(B, w) = SumOf(TotalsOf(B, T))
    BY DEF Gross
<1> HIDE DEF S, T, M
<1>8. SumOf(TotalsOf(paid, S)) <= SumOf(TotalsOf(B, T)) + SumOf(TotalsOf(B, M))
    BY <1>3, <1>6, SumMoved
<1>9. SumOf(TotalsOf(paid, S)) \in Nat /\ SumOf(TotalsOf(B, M)) \in Nat
    BY <1>3, <1>6, TotalsSummable
<1>10. Gross(paid, w) <= SumOf(Daily(B, w)) + SumOf(TotalsOf(B, M))
    BY <1>5, <1>7, <1>8, <1>9
<1> QED
    BY <1>5, <1>10 DEF w, paid, B, M

(* What a part of the orders bring in is among what all of them bring in,  *)
(* but for the orders that changed in between.                             *)
LEMMA PartOfAll ==
    ASSUME NEW A, NEW B, TableFits(A), TableFits(B), SameOrders(A, B), SameOrders(B, A),
           NEW S \in SUBSET DOMAIN A, NEW T \in SUBSET DOMAIN B,
           S \subseteq T \cup Moved(A, B), NEW x \in Nat, x <= SumOf(TotalsOf(A, S))
    PROVE  x <= SumOf(TotalsOf(B, T)) + SumOf(TotalsOf(B, Moved(A, B)))
<1> DEFINE M == Moved(A, B)
<1>1. S \in SUBSET DOMAIN B /\ M \in SUBSET DOMAIN B
    BY DEF Moved, SameOrders
<1> HIDE DEF M
<1>2. S \subseteq T \cup M
    BY DEF M
<1>3. SumOf(TotalsOf(A, S)) <= SumOf(TotalsOf(B, T)) + SumOf(TotalsOf(B, M))
    BY <1>1, <1>2, SumMoved
<1>4. SumOf(TotalsOf(A, S)) \in Nat /\ SumOf(TotalsOf(B, T)) \in Nat /\ SumOf(TotalsOf(B, M)) \in Nat
    BY <1>1, TotalsSummable
<1>5. x <= SumOf(TotalsOf(B, T)) + SumOf(TotalsOf(B, M))
    BY <1>3, <1>4
<1> QED
    BY <1>5 DEF M

LEMMA KeysShare ==
    ASSUME NEW B, TableFits(B), NEW S \in SUBSET DOMAIN B, NEW K, NEW key, DOMAIN key = S
    PROVE  /\ SumOf([k \in K |-> SumOf(TotalsOf(B, {j \in S : key[j] = k}))]) \in Nat
           /\ SumOf([k \in K |-> SumOf(TotalsOf(B, {j \in S : key[j] = k}))]) <= SumOf(TotalsOf(B, S))
<1> DEFINE R == {j \in S : key[j] \in K}
<1>1. SumOf([k \in K |-> SumOf(TotalsOf(B, {j \in S : key[j] = k}))]) = SumOf(TotalsOf(B, R))
    BY KeysAddUp
<1>2. R \in SUBSET S
    OBVIOUS
<1> HIDE DEF R
<1>3. SumOf(TotalsOf(B, R)) <= SumOf(TotalsOf(B, S)) /\ SumOf(TotalsOf(B, R)) \in Nat
    BY <1>2, SumOfFewer
<1> QED
    BY <1>1, <1>3

LEMMA PartnersShare ==
    ASSUME NEW B, TableFits(B)
    PROVE  /\ SumOf(AffiliateRevenue(B)) \in Nat /\ SumOf(AgentRevenue(B)) \in Nat
           /\ SumOf(AffiliateRevenue(B)) <= SumOf(TotalsOf(B, With(B, "PAID") \cap Mine(B)))
           /\ SumOf(AgentRevenue(B)) <= SumOf(TotalsOf(B, With(B, "PAID")))
<1> DEFINE S == With(B, "PAID") \cap Mine(B)
           T == With(B, "PAID")
           ofAffiliate == [j \in S |-> B[j].affiliate]
           ofAgent == [j \in T |-> B[j].agent]
<1>1. S \in SUBSET DOMAIN B /\ T \in SUBSET DOMAIN B
    BY DEF With
<1>2. AffiliateRevenue(B) =
          [k \in AffiliateCodes |-> SumOf(TotalsOf(B, {j \in S : ofAffiliate[j] = k}))]
    <2>1. \A k : {j \in S : B[j].affiliate = k} = {j \in S : ofAffiliate[j] = k}
        OBVIOUS
    <2> HIDE DEF ofAffiliate
    <2> QED
        BY <2>1 DEF AffiliateRevenue
<1>3. AgentRevenue(B) = [k \in AgentCodes |-> SumOf(TotalsOf(B, {j \in T : ofAgent[j] = k}))]
    <2>1. \A k : {j \in T : B[j].agent = k} = {j \in T : ofAgent[j] = k}
        OBVIOUS
    <2> HIDE DEF ofAgent
    <2> QED
        BY <2>1 DEF AgentRevenue
<1>4. DOMAIN ofAffiliate = S /\ DOMAIN ofAgent = T
    OBVIOUS
<1> HIDE DEF S, T, ofAffiliate, ofAgent
<1>5. /\ SumOf(AffiliateRevenue(B)) \in Nat
      /\ SumOf(AffiliateRevenue(B)) <= SumOf(TotalsOf(B, S))
    BY <1>1, <1>2, <1>4, KeysShare
<1>6. SumOf(AgentRevenue(B)) \in Nat /\ SumOf(AgentRevenue(B)) <= SumOf(TotalsOf(B, T))
    BY <1>1, <1>3, <1>4, KeysShare
<1> QED
    BY <1>5, <1>6 DEF S, T

LEMMA OverviewTotals ==
    ASSUME NEW B, TableFits(B)
    PROVE  /\ SumOf(Overview(B)) = SumOf(TotalsOf(B, With(B, "PAID") \cap Mine(B)))
           /\ SumOf(Overview(B)) \in Nat
<1>1. With(B, "PAID") \in SUBSET DOMAIN B
    BY DEF With
<1>2. With(B, "PAID") \cap Mine(B) \in SUBSET DOMAIN B
    BY <1>1
<1> QED
    BY <1>1, <1>2, EventsAddUp, TotalsSummable DEF Overview

LEMMA PartnersAndPages ==
    ASSUME NEW A, NEW B, TableFits(A), TableFits(B), SameOrders(A, B), SameOrders(B, A)
    PROVE  LET between == SumOf(TotalsOf(B, Moved(A, B)))
           IN  /\ SumOf(AffiliateRevenue(A)) <= SumOf(Overview(B)) + between
               /\ SumOf(Overview(A)) <= PlatformGross(B) + between
               /\ SumOf(AgentRevenue(A)) <= PlatformGross(B) + between
<1> DEFINE S == With(A, "PAID") \cap Mine(A)
           T == With(B, "PAID") \cap Mine(B)
           V == With(A, "PAID")
           W == With(B, "PAID")
<1>1. /\ S \in SUBSET DOMAIN A /\ V \in SUBSET DOMAIN A /\ S \subseteq V /\ T \subseteq W
      /\ T \in SUBSET DOMAIN B /\ W \in SUBSET DOMAIN B
    BY DEF With
<1>2. S \subseteq T \cup Moved(A, B) /\ V \subseteq W \cup Moved(A, B)
    BY DEF With, Mine, Moved, SameOrders
<1>3. /\ SumOf(AffiliateRevenue(A)) \in Nat /\ SumOf(AffiliateRevenue(A)) <= SumOf(TotalsOf(A, S))
      /\ SumOf(AgentRevenue(A)) \in Nat /\ SumOf(AgentRevenue(A)) <= SumOf(TotalsOf(A, V))
    BY PartnersShare
<1>4. /\ SumOf(Overview(A)) = SumOf(TotalsOf(A, S)) /\ SumOf(Overview(A)) \in Nat
      /\ SumOf(Overview(B)) = SumOf(TotalsOf(B, T)) /\ PlatformGross(B) = SumOf(TotalsOf(B, W))
    BY OverviewTotals DEF PlatformGross
<1> HIDE DEF S, T, V, W
<1>5. SumOf(AffiliateRevenue(A)) <= SumOf(TotalsOf(B, T)) + SumOf(TotalsOf(B, Moved(A, B)))
    BY <1>1, <1>2, <1>3, PartOfAll
<1>6. SumOf(Overview(A)) <= SumOf(TotalsOf(B, W)) + SumOf(TotalsOf(B, Moved(A, B)))
    <2>1. S \subseteq W \cup Moved(A, B)
        BY <1>1, <1>2
    <2>2. SumOf(Overview(A)) <= SumOf(TotalsOf(A, S))
        BY <1>4
    <2> QED
        BY <1>1, <1>4, <2>1, <2>2, PartOfAll
<1>7. SumOf(AgentRevenue(A)) <= SumOf(TotalsOf(B, W)) + SumOf(TotalsOf(B, Moved(A, B)))
    BY <1>1, <1>2, <1>3, PartOfAll
<1> QED
    BY <1>4, <1>5, <1>6, <1>7

LEMMA WindowIsPart ==
    ASSUME NEW A, NEW B, TableFits(A), TableFits(B), SameOrders(A, B), SameOrders(B, A), NEW w,
           NEW e \in Events
    PROVE  TopEvents(A, w)[e] <= Overview(B)[e] + SumOf(TotalsOf(B, Moved(A, B)))
<1> DEFINE S == {j \in PaidWithin(A, w) : A[j].event = e}
           T == {j \in With(B, "PAID") : B[j].event = e}
<1>1. S \in SUBSET DOMAIN A /\ T \in SUBSET DOMAIN B
    BY DEF PaidWithin, With
<1>2. S \subseteq T \cup Moved(A, B)
    BY DEF PaidWithin, With, Moved, SameOrders
<1>3. TopEvents(A, w)[e] = SumOf(TotalsOf(A, S)) /\ Overview(B)[e] = SumOf(TotalsOf(B, T))
    BY DEF TopEvents, Overview, EventRevenue
<1> HIDE DEF S, T
<1>4. SumOf(TotalsOf(A, S)) \in Nat
    BY <1>1, TotalsSummable
<1>5. SumOf(TotalsOf(A, S)) <= SumOf(TotalsOf(B, T)) + SumOf(TotalsOf(B, Moved(A, B)))
    <2>1. SumOf(TotalsOf(A, S)) <= SumOf(TotalsOf(A, S))
        BY <1>4
    <2> QED
        BY <1>1, <1>2, <1>4, <2>1, PartOfAll
<1> QED
    BY <1>3, <1>5

LEMMA PagesFit == ReportInv => PagesAgree
<1> SUFFICES ASSUME ReportInv PROVE PagesAgree
    OBVIOUS
<1>1. /\ \A p \in PlainQueries \cup {"top"} : p \in ReportQueries \cup PlainQueries
      /\ \A p \in {"affiliates", "overview", "agents", "platform"} : p \in PlainQueries \cup {"top"}
    BY DEF ReportQueries, PlainQueries
<1>2. ASSUME NEW c \in Readers, NEW d \in Readers, NEW p \in PlainQueries \cup {"top"},
             NEW q \in PlainQueries \cup {"top"}, read[c][p] # <<>>, read[d][q] # <<>>
      PROVE  /\ TableFits(read[c][p]) /\ TableFits(read[d][q])
             /\ SameOrders(read[c][p], read[d][q]) /\ SameOrders(read[d][q], read[c][p])
    BY <1>1, <1>2, AnswersFit
<1> SUFFICES ASSUME NEW c \in Readers, NEW d \in Readers
             PROVE  LET A(p)          == read[c][p]
                        B(q)          == read[d][q]
                        Both(p, q)    == A(p) # <<>> /\ B(q) # <<>>
                        Between(p, q) == SumOf(TotalsOf(B(q), Moved(A(p), B(q))))
                    IN  /\ Both("affiliates", "overview") =>
                              SumOf(AffiliateRevenue(A("affiliates")))
                                  <= SumOf(Overview(B("overview"))) + Between("affiliates", "overview")
                        /\ Both("overview", "platform") =>
                              SumOf(Overview(A("overview")))
                                  <= PlatformGross(B("platform")) + Between("overview", "platform")
                        /\ Both("agents", "platform") =>
                              SumOf(AgentRevenue(A("agents")))
                                  <= PlatformGross(B("platform")) + Between("agents", "platform")
                        /\ c \in Analysts /\ Both("top", "overview") => \A e \in Events :
                              TopEvents(A("top"), WindowOf(c))[e]
                                  <= Overview(B("overview"))[e] + Between("top", "overview")
    BY DEF PagesAgree
<1>3. ASSUME read[c]["affiliates"] # <<>>, read[d]["overview"] # <<>>
      PROVE  SumOf(AffiliateRevenue(read[c]["affiliates"]))
                 <= SumOf(Overview(read[d]["overview"]))
                        + SumOf(TotalsOf(read[d]["overview"], Moved(read[c]["affiliates"], read[d]["overview"])))
    BY <1>1, <1>2, <1>3, PartnersAndPages
<1>4. ASSUME read[c]["overview"] # <<>>, read[d]["platform"] # <<>>
      PROVE  SumOf(Overview(read[c]["overview"]))
                 <= PlatformGross(read[d]["platform"])
                        + SumOf(TotalsOf(read[d]["platform"], Moved(read[c]["overview"], read[d]["platform"])))
    BY <1>1, <1>2, <1>4, PartnersAndPages
<1>5. ASSUME read[c]["agents"] # <<>>, read[d]["platform"] # <<>>
      PROVE  SumOf(AgentRevenue(read[c]["agents"]))
                 <= PlatformGross(read[d]["platform"])
                        + SumOf(TotalsOf(read[d]["platform"], Moved(read[c]["agents"], read[d]["platform"])))
    BY <1>1, <1>2, <1>5, PartnersAndPages
<1>6. ASSUME read[c]["top"] # <<>>, read[d]["overview"] # <<>>, NEW e \in Events
      PROVE  TopEvents(read[c]["top"], WindowOf(c))[e]
                 <= Overview(read[d]["overview"])[e]
                        + SumOf(TotalsOf(read[d]["overview"], Moved(read[c]["top"], read[d]["overview"])))
    BY <1>1, <1>2, <1>6, WindowIsPart
<1> QED
    BY <1>3, <1>4, <1>5, <1>6

LEMMA ReportsHold == ReportInv => ReportsAgree
    BY FiguresFit, ChartFits, PagesFit DEF ReportsAgree

(* Reports: the figures of one report and those of different pages agree   *)
(* but for the orders that are paid or refunded while they are read, for   *)
(* any orders and any number of readers (AnalyticsService.forOrganizer,    *)
(* DashboardService.organizerOverview, AffiliateService.list,              *)
(* AgentsService.list, AdminService.platformStats).                        *)
THEOREM ReportsAlwaysAgree == Spec => []ReportsAgree
<1> QED
    BY ReportIsInit, ReportInductive, ReportsHold, PTL DEF Spec
================================================================================
