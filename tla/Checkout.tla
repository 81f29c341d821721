------------------------------- MODULE Checkout -------------------------------
(***************************************************************************)
(* The life of a ticket order: OrdersService.create and what it calls for  *)
(* each way of paying, Paystack's charge and its charge.success webhook,   *)
(* ticket issuance, the expiry cron and the finalisation of a full refund, *)
(* all working on the same counters TicketType.held and TicketType.sold    *)
(* and on the same seats.                                                  *)
(*                                                                         *)
(* A database transaction is one action: every transaction here either     *)
(* claims its order with a conditional UPDATE, whose row lock makes rivals *)
(* wait and re-evaluate, or only increments counters and adds rows, which  *)
(* commutes.  Code between two transactions (an await on another service)  *)
(* is where requests interleave, so each such gap is a value of pc.        *)
(***************************************************************************)
EXTENDS Carts

CONSTANTS
    SeatsOf,        \* SeatsOf[t]: seats of a seated ticket type, {} otherwise
    Channels,       \* ways of paying in use
    Sweepers,       \* expiry runs that may overlap (replicas, slow runs)
    MaxCrashes,     \* bound: requests and sweeps cut short
    SlowHandlers    \* may a create request outlive its order's 15 minutes?

Seats == UNION {SeatsOf[t] : t \in TicketTypes}
Seated == {t \in TicketTypes : SeatsOf[t] # {}}

ASSUME CheckoutAssumption ==
    /\ Channels \subseteq {"paystack", "wallet", "corporate"}
    /\ MaxCrashes \in Nat
    /\ SlowHandlers \in BOOLEAN

VARIABLES
    status,         \* Order.status; "none" before the row exists
    items,          \* items[o][t]: OrderItem.quantity
    channel,        \* how the buyer chose to pay
    pc,             \* where o's create request is between two awaits
    overdue,        \* orders whose expiresAt has passed
    gateway,        \* what Paystack did with the order's reference
    tickets,        \* the order's Ticket rows: "none", "live" or "voided"
    held, sold,     \* TicketType.held, TicketType.sold
    seat,           \* Seat.status, and the order that holds or bought it
    sweep,          \* sweep[c]: candidates that run c has still to claim
    crashes         \* requests and sweeps cut short so far

vars == <<status, items, channel, pc, overdue, gateway, tickets,
          held, sold, seat, sweep, crashes>>

requestVars == <<items, channel>>
stockVars == <<tickets, held, sold, seat>>
environment == <<overdue, gateway, sweep, crashes>>

Available == [state |-> "AVAILABLE"]
SeatStates == {Available} \cup [state : {"HELD", "SOLD"}, order : Orders]

(* Order.status without FAILED, which nothing in the API ever assigns.     *)
Statuses == {"none", "PENDING", "PAID", "EXPIRED", "REFUNDED"}

(* The request's await: nothing sent yet; order row committed, payment     *)
(* next; wallet refused, release next; wallet or corporate charge agreed,  *)
(* PAID next; PAID, issuance next; answered (or cut short).                *)
Running == {"charge", "release", "pay", "issue"}

TypeOK ==
    /\ status \in [Orders -> Statuses]
    /\ items \in [Orders -> Carts]
    /\ channel \in [Orders -> Channels \cup {"none"}]
    /\ pc \in [Orders -> Running \cup {"idle", "done"}]
    /\ overdue \subseteq Orders
    /\ gateway \in [Orders -> {"closed", "open", "charged", "acknowledged"}]
    /\ tickets \in [Orders -> {"none", "live", "voided"}]
    /\ held \in [TicketTypes -> Int]
    /\ sold \in [TicketTypes -> Int]
    /\ seat \in [Seats -> SeatStates]
    /\ sweep \in [Sweepers -> SUBSET Orders]
    /\ crashes \in 0..MaxCrashes

Init ==
    /\ status = [o \in Orders |-> "none"]
    /\ items = [o \in Orders |-> EmptyCart]
    /\ channel = [o \in Orders |-> "none"]
    /\ pc = [o \in Orders |-> "idle"]
    /\ overdue = {}
    /\ gateway = [o \in Orders |-> "closed"]
    /\ tickets = [o \in Orders |-> "none"]
    /\ held = [t \in TicketTypes |-> 0]
    /\ sold = [t \in TicketTypes |-> 0]
    /\ seat = [s \in Seats |-> Available]
    /\ sweep = [c \in Sweepers |-> {}]
    /\ crashes = 0

-------------------------------------------------------------------------------
(* SeatingService, called inside the transactions below.                   *)

SeatsIn(state, o) == {s \in Seats : seat[s] = [state |-> state, order |-> o]}

(* seat with every seat of S set to v.                                     *)
Reseat(S, v) == [s \in Seats |-> IF s \in S THEN v ELSE seat[s]]

HoldSeats(o, S) == seat' = Reseat(S, [state |-> "HELD", order |-> o])
SellHeldSeats(o) ==
    seat' = Reseat(SeatsIn("HELD", o), [state |-> "SOLD", order |-> o])
ReleaseSeatsForOrder(o) == seat' = Reseat(SeatsIn("HELD", o), Available)
VoidSeatsForOrder(o) == seat' = Reseat(SeatsIn("SOLD", o), Available)

(* held and sold moved by d and e times the order's quantities.            *)
AddHeld(o, d) == held' = [t \in TicketTypes |-> held[t] + d * items[o][t]]
AddSold(o, d) == sold' = [t \in TicketTypes |-> sold[t] + d * items[o][t]]

-------------------------------------------------------------------------------
(* OrdersService.create.                                                   *)

(* The cart names at least one ticket and one free seat per seated ticket. *)
CanSeat(cart, S) ==
    /\ \A s \in S : seat[s] = Available
    /\ \A t \in Seated : Cardinality(S \cap SeatsOf[t]) = cart[t]

(* Faulty variant: the claim looks at sold only.                           *)
CreateOrderIgnoringHolds(o) ==
    /\ status[o] = "none"
    /\ \E cart \in Carts \ {EmptyCart}, ch \in Channels, S \in SUBSET Seats :
        /\ \A t \in TicketTypes : sold[t] + cart[t] <= Capacity[t]
        /\ CanSeat(cart, S)
        /\ held' = [t \in TicketTypes |-> held[t] + cart[t]]
        /\ items' = [items EXCEPT ![o] = cart]
        /\ channel' = [channel EXCEPT ![o] = ch]
        /\ HoldSeats(o, S)
    /\ status' = [status EXCEPT ![o] = "PENDING"]
    /\ pc' = [pc EXCEPT ![o] = "charge"]
    /\ UNCHANGED <<sold, tickets, environment>>

(* The first transaction: claim the stock, create the PENDING order, hold  *)
(* the seats; a failure of any of them rolls the transaction back.         *)
CreateOrder(o) ==
    /\ status[o] = "none"
    /\ \E cart \in Carts \ {EmptyCart}, ch \in Channels, S \in SUBSET Seats :
        /\ \A t \in TicketTypes : sold[t] + held[t] + cart[t] <= Capacity[t]
        /\ CanSeat(cart, S)
        /\ held' = [t \in TicketTypes |-> held[t] + cart[t]]
        /\ items' = [items EXCEPT ![o] = cart]
        /\ channel' = [channel EXCEPT ![o] = ch]
        /\ HoldSeats(o, S)
    /\ status' = [status EXCEPT ![o] = "PENDING"]
    /\ pc' = [pc EXCEPT ![o] = "charge"]
    /\ UNCHANGED <<sold, tickets, environment>>

(* Paystack's transaction/initialize answers, or fails and the request     *)
(* throws: the order is left PENDING either way.                           *)
InitializePayment(o) ==
    /\ pc[o] = "charge"
    /\ channel[o] = "paystack"
    /\ pc' = [pc EXCEPT ![o] = "done"]
    /\ gateway' \in {gateway, [gateway EXCEPT ![o] = "open"]}
    /\ UNCHANGED <<status, requestVars, stockVars, overdue, sweep, crashes>>

(* wallet.debit takes the money, or corporate.assertCanCharge agrees.      *)
ChargeAccount(o) ==
    /\ pc[o] = "charge"
    /\ channel[o] \in {"wallet", "corporate"}
    /\ pc' = [pc EXCEPT ![o] = "pay"]
    /\ UNCHANGED <<status, requestVars, stockVars, environment>>

(* Not signed in, a wallet debit of a zero total, or a refused corporate   *)
(* charge: the request throws and leaves the order PENDING.                *)
RejectCharge(o) ==
    /\ pc[o] = "charge"
    /\ channel[o] \in {"wallet", "corporate"}
    /\ pc' = [pc EXCEPT ![o] = "done"]
    /\ UNCHANGED <<status, requestVars, stockVars, environment>>

(* wallet.debit answers insufficient_balance.                              *)
RefuseDebit(o) ==
    /\ pc[o] = "charge"
    /\ channel[o] = "wallet"
    /\ pc' = [pc EXCEPT ![o] = "release"]
    /\ UNCHANGED <<status, requestVars, stockVars, environment>>

(* Faulty variant: a refused debit marks the order FAILED, which nothing   *)
(* else knows.                                                             *)
ReleaseRefusedAsFailed(o) ==
    /\ pc[o] = "release"
    /\ status' = [status EXCEPT ![o] = "FAILED"]
    /\ AddHeld(o, -1)
    /\ pc' = [pc EXCEPT ![o] = "done"]
    /\ UNCHANGED <<requestVars, tickets, sold, seat, environment>>

(* The release after a refused debit: the status changes only if PENDING,  *)
(* the counters always, the seats never.                                   *)
ReleaseRefused(o) ==
    /\ pc[o] = "release"
    /\ status' = [status EXCEPT ![o] =
                    IF @ = "PENDING" THEN "EXPIRED" ELSE @]
    /\ AddHeld(o, -1)
    /\ pc' = [pc EXCEPT ![o] = "done"]
    /\ UNCHANGED <<requestVars, tickets, sold, seat, environment>>

(* Faulty variant: the order is marked PAID and the request answers.       *)
MarkPaidAndAnswer(o) ==
    /\ pc[o] = "pay"
    /\ status' = [status EXCEPT ![o] = "PAID"]
    /\ pc' = [pc EXCEPT ![o] = "done"]
    /\ UNCHANGED <<requestVars, stockVars, environment>>

(* The unconditional order.update of the wallet and corporate paths.       *)
MarkPaid(o) ==
    /\ pc[o] = "pay"
    /\ status' = [status EXCEPT ![o] = "PAID"]
    /\ pc' = [pc EXCEPT ![o] = "issue"]
    /\ UNCHANGED <<requestVars, stockVars, environment>>

(* What both issuing transactions do to an order without tickets.          *)
Issue(o) ==
    /\ AddSold(o, 1)
    /\ AddHeld(o, -1)
    /\ tickets' = [tickets EXCEPT ![o] = "live"]
    /\ SellHeldSeats(o)

(* tickets.issueAndReleaseHolds: looks at the tickets, not at the status.  *)
IssueAndReleaseHolds(o) ==
    /\ pc[o] = "issue"
    /\ pc' = [pc EXCEPT ![o] = "done"]
    /\ IF tickets[o] = "none" THEN Issue(o) ELSE UNCHANGED stockVars
    /\ UNCHANGED <<status, requestVars, environment>>

(* The process dies, or a statement throws, between two awaits.            *)
CutShort(o) ==
    /\ pc[o] \in Running
    /\ crashes < MaxCrashes
    /\ crashes' = crashes + 1
    /\ pc' = [pc EXCEPT ![o] = "done"]
    /\ UNCHANGED <<status, requestVars, stockVars, overdue, gateway, sweep>>

-------------------------------------------------------------------------------
(* Paystack and its webhook.                                               *)

(* The buyer completes the payment page, however late.                     *)
BuyerPays(o) ==
    /\ gateway[o] = "open"
    /\ gateway' = [gateway EXCEPT ![o] = "charged"]
    /\ UNCHANGED <<status, requestVars, pc, stockVars, overdue, sweep, crashes>>

(* Faulty variants: issueForOrder without its claim on PENDING, which      *)
(* issues again on a repeated delivery, or on a late one.                  *)
ChargeSuccessFrom(o, claimable) ==
    /\ gateway[o] \in {"charged", "acknowledged"}
    /\ gateway' = [gateway EXCEPT ![o] = "acknowledged"]
    /\ IF status[o] \in claimable
       THEN /\ status' = [status EXCEPT ![o] = "PAID"]
            /\ Issue(o)
       ELSE UNCHANGED <<status, stockVars>>
    /\ UNCHANGED <<requestVars, pc, overdue, sweep, crashes>>
ChargeSuccessReplayed(o) == ChargeSuccessFrom(o, {"PENDING", "PAID"})
ChargeSuccessLate(o) == ChargeSuccessFrom(o, {"PENDING", "EXPIRED"})

(* One delivery of charge.success (Paystack may repeat it): issueForOrder  *)
(* claims a PENDING order and issues its tickets, and otherwise changes    *)
(* nothing; the endpoint answers 200 in both cases.                        *)
ChargeSuccess(o) ==
    /\ gateway[o] \in {"charged", "acknowledged"}
    /\ gateway' = [gateway EXCEPT ![o] = "acknowledged"]
    /\ IF status[o] = "PENDING"
       THEN /\ status' = [status EXCEPT ![o] = "PAID"]
            /\ Issue(o)
       ELSE UNCHANGED <<status, stockVars>>
    /\ UNCHANGED <<requestVars, pc, overdue, sweep, crashes>>

-------------------------------------------------------------------------------
(* OrderExpiryService.                                                     *)

(* expiresAt passes.  The deadline is HOLD_MINUTES after the transaction   *)
(* that created the order; a request that is still running by then is one  *)
(* SlowHandlers allows.                                                    *)
Lapse(o) ==
    /\ status[o] = "PENDING"
    /\ o \notin overdue
    /\ SlowHandlers \/ pc[o] = "done"
    /\ overdue' = overdue \cup {o}
    /\ UNCHANGED <<status, requestVars, pc, stockVars, gateway, sweep, crashes>>

(* Faulty variant: orders with a payment page are left to the webhook.     *)
CandidatesWithoutPage ==
    {o \in overdue : status[o] = "PENDING" /\ gateway[o] = "closed"}

Candidates == {o \in overdue : status[o] = "PENDING"}

(* findMany: the run works on this snapshot from here on.                  *)
StartSweep(c) ==
    /\ sweep[c] = {}
    /\ Candidates # {}
    /\ sweep' = [sweep EXCEPT ![c] = Candidates]
    /\ UNCHANGED <<status, requestVars, pc, stockVars, overdue, gateway, crashes>>

(* Faulty variant: no second look at the status.                           *)
ExpireCandidateUnclaimed(c, o) ==
    /\ o \in sweep[c]
    /\ sweep' = [sweep EXCEPT ![c] = @ \ {o}]
    /\ status' = [status EXCEPT ![o] = "EXPIRED"]
    /\ AddHeld(o, -1)
    /\ ReleaseSeatsForOrder(o)
    /\ UNCHANGED <<requestVars, pc, tickets, sold, overdue, gateway, crashes>>

(* The transaction of one candidate, which may no longer be PENDING.       *)
ExpireCandidate(c, o) ==
    /\ o \in sweep[c]
    /\ sweep' = [sweep EXCEPT ![c] = @ \ {o}]
    /\ IF status[o] = "PENDING" /\ o \in overdue
       THEN /\ status' = [status EXCEPT ![o] = "EXPIRED"]
            /\ AddHeld(o, -1)
            /\ ReleaseSeatsForOrder(o)
       ELSE UNCHANGED <<status, held, seat>>
    /\ UNCHANGED <<requestVars, pc, tickets, sold, overdue, gateway, crashes>>

(* A sweep dies and forgets its snapshot; the next one starts afresh.      *)
AbandonSweep(c) ==
    /\ sweep[c] # {}
    /\ crashes < MaxCrashes
    /\ crashes' = crashes + 1
    /\ sweep' = [sweep EXCEPT ![c] = {}]
    /\ UNCHANGED <<status, requestVars, pc, stockVars, overdue, gateway>>

-------------------------------------------------------------------------------
(* RefundsService.refund of the whole amount: its final transaction, which *)
(* voids tickets and seats only if there are some.  How the money is paid  *)
(* back before it, in parts or by rival requests, is module Refunds.       *)
FinaliseRefund(o) ==
    /\ status[o] = "PAID"
    /\ status' = [status EXCEPT ![o] = "REFUNDED"]
    /\ AddSold(o, -1)
    /\ tickets' = [tickets EXCEPT ![o] = IF @ = "live" THEN "voided" ELSE @]
    /\ VoidSeatsForOrder(o)
    /\ UNCHANGED <<requestVars, pc, held, environment>>

-------------------------------------------------------------------------------
HandlerStep(o) ==
    \/ InitializePayment(o)
    \/ ChargeAccount(o)
    \/ RejectCharge(o)
    \/ RefuseDebit(o)
    \/ ReleaseRefused(o)
    \/ MarkPaid(o)
    \/ IssueAndReleaseHolds(o)

Next ==
    \/ \E o \in Orders :
        \/ CreateOrder(o)
        \/ HandlerStep(o)
        \/ CutShort(o)
        \/ BuyerPays(o)
        \/ ChargeSuccess(o)
        \/ Lapse(o)
        \/ FinaliseRefund(o)
    \/ \E c \in Sweepers :
        \/ StartSweep(c)
        \/ \E o \in Orders : ExpireCandidate(c, o)
        \/ AbandonSweep(c)

Spec == Init /\ [][Next]_vars

(* A request's awaits return, time passes, and the scheduler fires the     *)
(* expiry job every minute and lets it work through its snapshot.  Buyers  *)
(* need not pay, and Paystack's webhook may never come.                    *)
Fairness ==
    /\ \A o \in Orders : WF_vars(HandlerStep(o)) /\ WF_vars(Lapse(o))
    /\ \A c \in Sweepers :
        /\ WF_vars(StartSweep(c))
        /\ \A o \in Orders : WF_vars(ExpireCandidate(c, o))

FairSpec == Spec /\ Fairness

-------------------------------------------------------------------------------
(* Properties.                                                             *)

(* Orders whose tickets are set aside in held: not issued, not released.   *)
Holding == {o \in Orders :
              \/ status[o] = "PENDING"
              \/ status[o] \in {"PAID", "REFUNDED"} /\ tickets[o] = "none"}
Issued == {o \in Orders : tickets[o] # "none"}
Refunded == {o \in Orders : status[o] = "REFUNDED"}

(* The two counters are, at every moment, exactly what the orders' own     *)
(* states add up to, whichever of the handlers got to each order first:    *)
(* no hold is released twice or leaked, no ticket counted twice.  A refund *)
(* takes its quantity off sold even when nothing was issued yet            *)
(* (orders.service.ts, tickets.service.ts, order-expiry.service.ts,        *)
(* refunds.service.ts).                                                    *)
CountersExact ==
    \A t \in TicketTypes :
        /\ held[t] = Demand(items, Holding, t)
        /\ sold[t] = Demand(items, Issued, t) - Demand(items, Refunded, t)

(* The live tickets of orders that were not refunded fit in the capacity,  *)
(* in every interleaving of checkouts, webhooks, sweeps and refunds.       *)
ValidTicketsFit ==
    \A t \in TicketTypes :
        Demand(items, {o \in Orders : tickets[o] = "live" /\ status[o] # "REFUNDED"}, t)
            <= Capacity[t]

(* Seats follow tickets: an order with live tickets of a seated type has   *)
(* bought exactly one seat per ticket, any other order none; and an order  *)
(* that still holds stock holds exactly the seats it chose.                *)
SeatsFollowTickets ==
    \A o \in Orders, t \in Seated :
        /\ Cardinality(SeatsIn("SOLD", o) \cap SeatsOf[t])
             = (IF tickets[o] = "live" THEN items[o][t] ELSE 0)
        /\ o \in Holding =>
             Cardinality(SeatsIn("HELD", o) \cap SeatsOf[t]) = items[o][t]

(* An order is settled once: it never leaves EXPIRED or REFUNDED, it is    *)
(* refunded only from PAID and never falls back from PAID to a state in    *)
(* which it could be paid or expired again.                                *)
SettledOnce ==
    [][\A o \in Orders :
         /\ status[o] \in {"EXPIRED", "REFUNDED"} => status'[o] = status[o]
         /\ status[o] = "PAID" => status'[o] \in {"PAID", "REFUNDED"}]_vars

(* A hold is a promise with an end: every PENDING order is paid or expired *)
(* in the end, even if the request that created it or a sweep dies.        *)
PendingResolves ==
    \A o \in Orders : (status[o] = "PENDING") ~> (status[o] # "PENDING")

(* Unless a request dies, stock that is set aside is sold or given back:   *)
(* no interleaving leaves it stranded behind a PAID order.                 *)
HoldsEnd ==
    \A o \in Orders : (o \in Holding) ~> (o \notin Holding \/ crashes > 0)

(* Both: orders and the stock they set aside come to an end.               *)
OrdersEnd == PendingResolves /\ HoldsEnd

(* Checkout keeps the promise of Inventory.  A refunded order's claim is   *)
(* given back when the refund is final, whatever issuance does later.      *)
Claim ==
    [o \in Orders |->
        CASE status[o] = "none" -> "none"
          [] status[o] \in {"EXPIRED", "REFUNDED"} -> "released"
          [] status[o] \in {"PENDING", "PAID"} ->
                IF tickets[o] = "live" THEN "sold" ELSE "reserved"]

Stock == INSTANCE Inventory WITH claim <- Claim
ImplementsInventory == Stock!Spec

-------------------------------------------------------------------------------
(* Why it holds: an inductive invariant.                                   *)

(* The wallet and corporate paths write without looking at the status, so  *)
(* they rely on being done before the order can expire; the Paystack path  *)
(* needs no such luck.                                                     *)
OnTime == ~SlowHandlers \/ Channels \subseteq {"paystack"}

(* How an order's status, request, reference and tickets go together.      *)
PhaseOK(o) ==
    /\ status[o] = "none" => pc[o] = "idle" /\ gateway[o] = "closed" /\ o \notin overdue
    /\ status[o] # "none" => channel[o] \in Channels
    /\ status[o] \in {"none", "PENDING", "EXPIRED"} => tickets[o] = "none"
    /\ tickets[o] = "voided" => status[o] = "REFUNDED"
    /\ gateway[o] # "closed" => channel[o] = "paystack"
    /\ pc[o] \in {"release", "pay", "issue"} => channel[o] # "paystack"
    /\ channel[o] # "paystack" =>
         /\ pc[o] \in {"charge", "release", "pay"} =>
              status[o] = "PENDING" /\ o \notin overdue
         /\ pc[o] = "issue" =>
              status[o] \in {"PAID", "REFUNDED"} /\ tickets[o] = "none"
    /\ o \in overdue => channel[o] = "paystack" \/ pc[o] = "done"

(* The guard of the atomic hold, kept by every other writer of a counter.  *)
ClaimsWithinCapacity == \A t \in TicketTypes : held[t] + sold[t] <= Capacity[t]

(* A new order has no seats, sold ones are those of live tickets, and      *)
(* there are as many of either kind as the cart says.                      *)
SeatsFit(o) ==
    /\ status[o] = "none" => SeatsIn("HELD", o) = {}
    /\ tickets[o] # "live" => SeatsIn("SOLD", o) = {}
    /\ \A t \in Seated :
        /\ tickets[o] = "live" => Cardinality(SeatsIn("SOLD", o) \cap SeatsOf[t]) = items[o][t]
        /\ o \in Holding => Cardinality(SeatsIn("HELD", o) \cap SeatsOf[t]) = items[o][t]

IInv ==
    /\ TypeOK
    /\ \A o \in Orders : PhaseOK(o) /\ SeatsFit(o)
    /\ CountersExact
    /\ ClaimsWithinCapacity

-------------------------------------------------------------------------------
(* What the repository says of checkout and the code does not keep.        *)

(* Tickets that would be let in never outnumber the places (README.md:     *)
(* "no over-sells").  A refund that is final before the PAID order's       *)
(* tickets are issued leaves live tickets on stock it has given back.      *)
LiveTicketsFit ==
    \A t \in TicketTypes :
        Demand(items, {o \in Orders : tickets[o] = "live"}, t) <= Capacity[t]
===============================================================================
