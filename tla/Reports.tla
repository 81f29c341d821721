-------------------------------- MODULE Reports --------------------------------
(***************************************************************************)
(* The figures an organizer, an affiliate, an agent and the platform see:  *)
(* AnalyticsService.forOrganizer with its SQL, DashboardService.           *)
(* organizerOverview, AffiliateService.list, AgentsService.list and        *)
(* AdminService.platformStats.                                             *)
(*                                                                         *)
(* A report is several queries, each answered from the table of orders as  *)
(* it is at that moment, while orders go on being paid and refunded.  The  *)
(* figures are functions of the table that answered; the count of tickets  *)
(* and the ratios are left out.                                            *)
(***************************************************************************)
EXTENDS Requests

CONSTANTS
    Analysts,       \* requests for the report of an organizer
    Glances,        \* requests for one of the other figures
    Books,          \* tables of orders: functions from order numbers to rows
    Events,         \* the organizer's events
    OtherEvents,    \* events of other organizers
    AffiliateCodes, \* AffiliateLink.code, of the organizer
    AgentCodes,     \* AgentProfile.agentCode
    TicketCounts,   \* bound: tickets that are issued for an order
    DayLength,      \* hours of a day
    Now,            \* the hour in which the first report is asked for
    LastHour,       \* bound: the hour in which the last one is
    Ranges          \* lengths of the window that are asked for, in days

Readers == Analysts \cup Glances

ASSUME ReportsAssumption ==
    /\ Readers \subseteq Calls
    /\ Analysts \cap Glances = {}
    /\ DayLength \in Nat \ {0} /\ Now \in Nat /\ LastHour \in Nat
    /\ Ranges \subseteq Nat /\ TicketCounts \subseteq Nat
    /\ Events \cap OtherEvents = {}

(* Order rows: event, status, total, tickets (the Ticket rows it has,      *)
(* voided ones included), paidAt, affiliateCode and agentCode, which may   *)
(* both be set.                                                            *)
OrderRows ==
    [event : Events \cup OtherEvents, status : {"PENDING", "PAID", "REFUNDED"},
     total : Nat, tickets : Nat, paidAt : Nat,
     affiliate : AffiliateCodes \cup {"none"}, agent : AgentCodes \cup {"none"}]

ASSUME BooksAssumption ==
    \A B \in Books : B # <<>> /\ IsFiniteSet(DOMAIN B) /\ \A i \in DOMAIN B : B[i] \in OrderRows

VARIABLES
    book,           \* the table of orders; <<>> until it is first read
    hour,           \* the time
    until, span,    \* until[c], span[c]: `to` of report c and the days it asked for
    read            \* read[c][q]: the table that answered query q of reader c, or <<>>

reportVars == <<book, hour, until, span, read>>

-------------------------------------------------------------------------------
(* The figures, each of the table B.                                       *)
With(B, status) == {i \in DOMAIN B : B[i].status = status}
Mine(B) == {i \in DOMAIN B : B[i].event \in Events}

(* A sum is the number of its units, told apart by what they belong to.    *)
Units(f) == UNION {{x} \X (1..f[x]) : x \in DOMAIN f}
SumOf(f) == Cardinality(Units(f))
TotalsOf(B, S) == [i \in S |-> B[i].total]

DayOf(h) == h \div DayLength

(* clampedDays, and the window of report c.                                *)
Clamped(days) == CASE days < 1 -> 1 [] days \in 1..365 -> days [] days > 365 -> 365
WindowOf(c) == [from |-> until[c] - Clamped(span[c]) * DayLength, to |-> until[c]]
Inside(row, w) == w.from <= row.paidAt /\ row.paidAt <= w.to

(* Faulty variant: orders that are paid after the request count, too.      *)
PaidSince(B, w) == {i \in With(B, "PAID") \cap Mine(B) : w.from <= B[i].paidAt}

PaidWithin(B, w) == {i \in With(B, "PAID") \cap Mine(B) : Inside(B[i], w)}

(* Faulty variant: a refunded order of any day is counted.                 *)
RefundedEver(B, w) == With(B, "REFUNDED") \cap Mine(B)

RefundedWithin(B, w) == {i \in With(B, "REFUNDED") \cap Mine(B) : Inside(B[i], w)}

Gross(B, w) == SumOf(TotalsOf(B, PaidWithin(B, w)))

(* Faulty variant: a day has the orders that were paid on it or before.    *)
OfDayAndBefore(B, day) == {i \in With(B, "PAID") \cap Mine(B) : DayOf(B[i].paidAt) <= day}

OfDay(B, day) == {i \in With(B, "PAID") \cap Mine(B) : DayOf(B[i].paidAt) = day}

(* Rows of an order in the join with its tickets: one per ticket, and one  *)
(* if it has none.                                                         *)
JoinRows(row) == IF row.tickets = 0 THEN 1 ELSE row.tickets

(* The revenue of the series of days, which are whole, first and last      *)
(* included.                                                               *)
DaysOf(w) == DayOf(w.from) .. DayOf(w.to)
Daily(B, w) ==
    [day \in DaysOf(w) |-> SumOf([i \in OfDay(B, day) |-> JoinRows(B[i]) * B[i].total])]

ByHour(B, w) ==
    [h \in 0 .. DayLength - 1 |->
        Cardinality({i \in PaidWithin(B, w) : B[i].paidAt % DayLength = h})]

(* Revenue by the organizer's events: of the window (topEvents, without    *)
(* its cut at five) and of all time (organizerOverview).                   *)
EventRevenue(B, S) ==
    [e \in Events |-> SumOf(TotalsOf(B, {j \in S : B[j].event = e}))]
TopEvents(B, w) == EventRevenue(B, PaidWithin(B, w))
Overview(B) == EventRevenue(B, With(B, "PAID"))

(* Faulty variant: a code counts on events of other organizers, too.       *)
AffiliateRevenueAnywhere(B) ==
    [k \in AffiliateCodes |->
        SumOf(TotalsOf(B, {j \in With(B, "PAID") : B[j].affiliate = k}))]

(* AffiliateService.list, AgentsService.list and platformStats.            *)
AffiliateRevenue(B) ==
    [k \in AffiliateCodes |->
        SumOf(TotalsOf(B, {j \in With(B, "PAID") \cap Mine(B) : B[j].affiliate = k}))]
AgentRevenue(B) ==
    [k \in AgentCodes |-> SumOf(TotalsOf(B, {j \in With(B, "PAID") : B[j].agent = k}))]
PlatformGross(B) == SumOf(TotalsOf(B, With(B, "PAID")))

-------------------------------------------------------------------------------
(* Two queries of forOrganizer are sent together; three follow, each when  *)
(* the one before it is answered.                                          *)
Together == {"paid", "refunded"}
ReportQueries == Together \cup {"daily", "hourly", "top"}

(* The reports of one query: by event, by affiliate, by agent, in all.     *)
PlainQueries == {"overview", "affiliates", "agents", "platform"}

Nobody == [q \in ReportQueries \cup PlainQueries |-> <<>>]

ReportsInit ==
    /\ book = <<>>
    /\ hour = Now
    /\ until = [c \in Analysts |-> 0]
    /\ span = [c \in Analysts |-> 0]
    /\ read = [c \in Readers |-> Nobody]

(* The first request finds any table.                                      *)
FindsOrders == book' \in (IF book = <<>> THEN Books ELSE {book})

AskReport(c) ==
    /\ Begin(c, "totals")
    /\ FindsOrders
    /\ until' = [until EXCEPT ![c] = hour]
    /\ \E days \in Ranges : span' = [span EXCEPT ![c] = days]
    /\ UNCHANGED <<hour, read>>

(* One of the queries of Promise.all is answered, and perhaps both now are.*)
AnswerTotals(c, q) ==
    /\ pc[c] = "totals" /\ read[c][q] = <<>>
    /\ read' = [read EXCEPT ![c][q] = book]
    /\ Goto(c, IF \E p \in Together \ {q} : read[c][p] = <<>> THEN "totals" ELSE "daily")
    /\ UNCHANGED <<book, hour, until, span>>

AfterQuery(q) == CASE q = "daily" -> "hourly" [] q = "hourly" -> "top" [] q = "top" -> "done"

AnswerQuery(c, q) ==
    /\ pc[c] = q
    /\ read' = [read EXCEPT ![c][q] = book]
    /\ Goto(c, AfterQuery(q))
    /\ UNCHANGED <<book, hour, until, span>>

ReadFigure(c, q) ==
    /\ Begin(c, "done")
    /\ FindsOrders
    /\ read' = [read EXCEPT ![c][q] = book']
    /\ UNCHANGED <<hour, until, span>>

(* A query fails.                                                          *)
ReportCutShort(c) == CutShort(c) /\ UNCHANGED reportVars

PaidAt(row, h, n) == [row EXCEPT !.status = "PAID", !.paidAt = h, !.tickets = n]

(* Meanwhile: paidAt is set by the server before its transaction commits;  *)
(* the tickets are issued in the same one, or, for an order paid from a    *)
(* wallet or by an account, in the next.                                   *)
OrderPaid(i) ==
    /\ book[i].status = "PENDING"
    /\ \E h \in Now..hour, n \in TicketCounts \cup {0} :
          book' = [book EXCEPT ![i] = PaidAt(book[i], h, n)]
    /\ UNCHANGED <<requestVars, hour, until, span, read>>

TicketsIssued(i) ==
    /\ book[i].status = "PAID" /\ book[i].tickets = 0
    /\ \E n \in TicketCounts : book' = [book EXCEPT ![i] = [@ EXCEPT !.tickets = n]]
    /\ UNCHANGED <<requestVars, hour, until, span, read>>

(* A refund in part changes none of these figures.                         *)
OrderRefunded(i) ==
    /\ book[i].status = "PAID"
    /\ book' = [book EXCEPT ![i] = [@ EXCEPT !.status = "REFUNDED"]]
    /\ UNCHANGED <<requestVars, hour, until, span, read>>

HourPasses ==
    /\ book # <<>> /\ hour < LastHour
    /\ hour' = hour + 1
    /\ UNCHANGED <<requestVars, book, until, span, read>>

AnalystStep(c) ==
    \/ AskReport(c)
    \/ \E q \in Together : AnswerTotals(c, q)
    \/ \E q \in ReportQueries \ Together : AnswerQuery(c, q)
    \/ ReportCutShort(c)

ReportsNext ==
    \/ \E c \in Analysts : AnalystStep(c)
    \/ \E c \in Glances, q \in PlainQueries : ReadFigure(c, q)
    \/ \E i \in DOMAIN book : OrderPaid(i) \/ TicketsIssued(i) \/ OrderRefunded(i)
    \/ HourPasses

-------------------------------------------------------------------------------
(* Orders that changed between two answers, and those of them that either  *)
(* answer found settled within the window.                                 *)
Moved(A, B) == {i \in DOMAIN B : A[i] # B[i]}
SettledWithin(B, w) ==
    {i \in (With(B, "PAID") \cup With(B, "REFUNDED")) \cap Mine(B) : Inside(B[i], w)}
MovedWithin(A, B, w) == Moved(A, B) \cap (SettledWithin(A, w) \cup SettledWithin(B, w))
OffBy(x, y, d) == x <= y + d /\ y <= x + d

Reported == {c \in Analysts : \A q \in ReportQueries : read[c][q] # <<>>}

(* The figures of one report differ by no more than the orders of its      *)
(* window that were paid or refunded between the queries, the ones paid    *)
(* after it was asked for never among them: revenue by event and the gross;*)
(* orders by hour and their number; paid and refunded orders and the orders*)
(* settled, each counted once.                                             *)
FiguresAgree ==
    \A c \in Reported :
        LET w      == WindowOf(c)
            paid   == read[c]["paid"]
            gone   == read[c]["refunded"]
            hourly == read[c]["hourly"]
            top    == read[c]["top"]
        IN  /\ OffBy(Gross(paid, w), SumOf(TopEvents(top, w)),
                     SumOf(TotalsOf(top, MovedWithin(paid, top, w))))
            /\ OffBy(Cardinality(PaidWithin(paid, w)), SumOf(ByHour(hourly, w)),
                     Cardinality(MovedWithin(paid, hourly, w)))
            /\ OffBy(Cardinality(PaidWithin(paid, w)) + Cardinality(RefundedWithin(gone, w)),
                     Cardinality(SettledWithin(paid, w)),
                     Cardinality(MovedWithin(paid, gone, w)))

(* The chart of days shows every order of the window but those refunded    *)
(* since the gross was read.  Read of the same table, it shows no more     *)
(* exactly when each order of its days has one ticket at most and was paid *)
(* within the window: the join counts an order once per ticket, and the    *)
(* days are whole.                                                         *)
ChartCoversWindow ==
    \A c \in Reported :
        LET w     == WindowOf(c)
            paid  == read[c]["paid"]
            B     == read[c]["daily"]
            chart == SumOf(Daily(B, w))
            shown == {i \in With(B, "PAID") \cap Mine(B) : DayOf(B[i].paidAt) \in DaysOf(w)}
        IN  /\ Gross(paid, w) <= chart + SumOf(TotalsOf(B, MovedWithin(paid, B, w)))
            /\ paid = B =>
                 (Gross(paid, w) = chart <=>
                    \A i \in shown : B[i].total = 0 \/ (B[i].tickets <= 1 /\ Inside(B[i], w)))

(* Pages that are read by the same or by different readers agree but for   *)
(* the orders that changed in between: the organizer's affiliates sold no  *)
(* more than his events, his events and the agents each no more than the   *)
(* platform, and no event more in a window than in all.  An order may name *)
(* an affiliate and an agent, and counts for both.                         *)
PagesAgree ==
    \A c, d \in Readers :
        LET A(p)          == read[c][p]
            B(q)          == read[d][q]
            Both(p, q)    == A(p) # <<>> /\ B(q) # <<>>
            Between(p, q) == SumOf(TotalsOf(B(q), Moved(A(p), B(q))))
        IN  /\ Both("affiliates", "overview") =>
                  SumOf(AffiliateRevenue(A("affiliates")))
                      <= SumOf(Overview(B("overview"))) + Between("affiliates", "overview")
            /\ Both("overview", "platform") =>
                  SumOf(Overview(A("overview")))
                      <= PlatformGross(B("platform")) + Between("overview", "platform")
            /\ Both("agents", "platform") =>
                  SumOf(AgentRevenue(A("agents")))
                      <= PlatformGross(B("platform")) + Between("agents", "platform")
            /\ c \in Analysts /\ Both("top", "overview") => \A e \in Events :
                  TopEvents(A("top"), WindowOf(c))[e]
                      <= Overview(B("overview"))[e] + Between("top", "overview")

(* All three: the reports agree with each other and with the orders.       *)
ReportsAgree == FiguresAgree /\ ChartCoversWindow /\ PagesAgree
================================================================================
