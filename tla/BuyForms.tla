------------------------------- MODULE BuyForms -------------------------------
(***************************************************************************)
(* How a buyer orders tickets: BuyForm of the event page with its button   *)
(* and its swipe bar, and the event screen of the app.  Pricing says what  *)
(* the API charges.  The form is used while an order is sent: only what    *)
(* sends it is disabled then.                                              *)
(***************************************************************************)
EXTENDS Pricing

CONSTANTS
    Visits, Presses,        \* the event page is opened; its orders
    AppVisits, AppPresses,  \* the same in the app
    Offers,         \* what the page offers: tier, rules, code, balance
    MaxTickets,     \* bound: tickets of a tier that may be picked, 10 in the code
    Tiers, SeatedTiers,     \* tiers of the event in the app
    NoOffer, NoTier

ASSUME BuyFormsAssumption ==
    /\ Visits \cup Presses \cup AppVisits \cup AppPresses \subseteq Calls
    /\ MaxTickets \in Nat \ {0} /\ SeatedTiers \subseteq Tiers
    /\ NoOffer \notin Offers /\ NoTier \notin Tiers

(* An offer has tt: priceKobo, capacity, sold; the rules and the promo     *)
(* code that the API knows; and the balance of the buyer's wallet, -1 if he *)
(* is not signed in or it did not load.                                    *)
ASSUME OffersAssumption ==
    \A o \in Offers :
        /\ o.tt.priceKobo \in Nat /\ o.tt.capacity \in Nat /\ o.tt.sold \in Nat
        /\ o.balance \in Int
        /\ o.promo.type \in {"none", "PERCENTAGE", "FIXED"} /\ o.promo.value \in Nat

(* Opening a page is no order, and the page is not the app.                *)
ASSUME PressesAssumption ==
    /\ Presses \cap (Visits \cup AppVisits \cup AppPresses) = {}
    /\ AppPresses \cap (Visits \cup AppVisits) = {}

VARIABLES
    offer,          \* what the page was served with
    form,           \* quantity, promo, wallet: the box, email
    submitting,     \* is the button disabled for an order under way?
    latched,        \* confirmedRef of the swipe bar
    misswiped,      \* history: was it latched over a malformed address?
    raised,         \* history: have tickets been added to a ticked box?
    placed          \* placed[c]: the form when c was sent, what it said, the charge

formVars == <<offer, form, submitting, latched, misswiped, raised, placed>>

VARIABLES
    tier,           \* the selected tier
    seatList,       \* seatList[t]: the seats of t as the app has them
    hasSeats,       \* does the buy button take the tier for a seated one?
    picked,         \* seats that are picked
    count,          \* the stepper
    buying,         \* is the buy button disabled for an order under way?
    appOrder        \* appOrder[c]: tier, seats, count of c, and the list then

appVars == <<tier, seatList, hasSeats, picked, count, buying, appOrder>>
buyVars == <<formVars, appVars>>

Emails == {"empty", "malformed", "valid"}
SeatsOfTier(t) == IF t \in SeatedTiers THEN {t} \X (1..MaxTickets) ELSE {}

BuyFormsTypeOK ==
    /\ offer \in Offers \cup {NoOffer}
    /\ form \in [quantity : 0..MaxTickets, promo : BOOLEAN, wallet : BOOLEAN, email : Emails]
    /\ {submitting, latched, misswiped, raised, hasSeats, buying} \subseteq BOOLEAN
    /\ tier \in Tiers \cup {NoTier}
    /\ seatList \in [Tiers -> {"unasked", "waiting", "here", "failed"}]
    /\ picked \subseteq UNION {SeatsOfTier(t) : t \in Tiers}
    /\ count \in 1..MaxTickets
    /\ \A c \in Presses \cup AppPresses : pc[c] \in {"idle", "order", "answer", "refusal"} \cup Ended

BuyFormsInit ==
    /\ offer = NoOffer
    /\ form = [quantity |-> 0, promo |-> FALSE, wallet |-> FALSE, email |-> "empty"]
    /\ submitting = FALSE /\ latched = FALSE /\ misswiped = FALSE /\ raised = FALSE
    /\ placed = [c \in Presses |-> <<>>]
    /\ tier = NoTier
    /\ seatList = [t \in Tiers |-> "unasked"]
    /\ hasSeats = FALSE /\ picked = {} /\ count = 1 /\ buying = FALSE
    /\ appOrder = [c \in AppPresses |-> <<>>]

-------------------------------------------------------------------------------
(* The form on the web.                                                    *)
OpenPage(v) ==
    /\ offer = NoOffer
    /\ Begin(v, "done")
    /\ offer' \in Offers
    /\ UNCHANGED <<form, submitting, latched, misswiped, raised, placed, appVars>>

Open == offer # NoOffer /\ \E c \in Presses : pc[c] = "idle"

(* Faulty variant: the fee is rounded ticket by ticket.                    *)
ShownFeeByTicket(n) == n * Round(offer.tt.priceKobo * 15, 1000)

ShownFee(n) == Round(n * offer.tt.priceKobo * 15, 1000)
ShownTotal(n) == n * offer.tt.priceKobo + ShownFee(n)
Total == ShownTotal(form.quantity)

Most == AtMost(MaxTickets, offer.tt.capacity - offer.tt.sold)

Bump(delta) ==
    LET n == AtLeast(0, AtMost(Most, form.quantity + delta))
    IN  /\ Open
        /\ n # form.quantity
        /\ form' = [form EXCEPT !.quantity = n]
        /\ raised' = (raised \/ (form.wallet /\ delta > 0))
        /\ UNCHANGED <<requestVars, offer, submitting, latched, misswiped, placed, appVars>>

(* Faulty variant: the box can be ticked whatever the balance.             *)
BoxEnabledAlways == offer.balance >= 0

BoxEnabled == offer.balance >= 0 /\ offer.balance >= Total

ToggleWallet ==
    /\ Open
    /\ BoxEnabled
    /\ form' = [form EXCEPT !.wallet = ~@]
    /\ raised' = FALSE
    /\ UNCHANGED <<requestVars, offer, submitting, latched, misswiped, placed, appVars>>

TypePromo ==
    /\ Open
    /\ form' = [form EXCEPT !.promo = ~@]
    /\ UNCHANGED <<requestVars, offer, submitting, latched, misswiped, raised, placed, appVars>>

TypeEmail ==
    \E e \in Emails \ {form.email} :
        /\ Open
        /\ form' = [form EXCEPT !.email = e]
        /\ UNCHANGED <<requestVars, offer, submitting, latched, misswiped, raised, placed, appVars>>

(* Faulty variant: nothing is disabled while an order is sent.             *)
DisabledIfEmpty == form.quantity * offer.tt.priceKobo = 0 \/ form.email = "empty"

Disabled == submitting \/ form.quantity * offer.tt.priceKobo = 0 \/ form.email = "empty"

(* The button says "from wallet".                                          *)
Announced == form.wallet /\ offer.balance >= Total

(* handleSubmit, which the browser calls for a valid form only.            *)
Submit(c) ==
    /\ Open
    /\ ~Disabled /\ form.email = "valid"
    /\ Begin(c, "order")
    /\ submitting' = TRUE
    /\ placed' = [placed EXCEPT ![c] =
           [quantity |-> form.quantity, promo |-> form.promo, wallet |-> form.wallet,
            shown |-> Total, announced |-> Announced, raised |-> raised, charged |-> -1]]
    /\ UNCHANGED <<offer, form, misswiped, raised, appVars>>

PressButton(c) == Submit(c) /\ UNCHANGED latched

(* MobileSwipeToBuy.  The submission of a malformed address is stopped by  *)
(* the browser, after the bar has latched.                                 *)
Swipe(c) == ~latched /\ Submit(c) /\ latched' = TRUE

Misswipe ==
    /\ Open
    /\ ~Disabled /\ ~latched /\ form.email = "malformed"
    /\ latched' = TRUE /\ misswiped' = TRUE
    /\ UNCHANGED <<requestVars, offer, form, submitting, raised, placed, appVars>>

(* OrdersService.create: what the order costs.                             *)
Charge(p) ==
    Bill([tt |-> [priceKobo |-> offer.tt.priceKobo, capacity |-> offer.tt.capacity,
                  taken |-> offer.tt.sold + p.quantity],
          rules |-> offer.rules, quantity |-> p.quantity, addOnsKobo |-> 0,
          promo |-> IF p.promo THEN offer.promo ELSE [type |-> "none", value |-> 0],
          points |-> 0, agentBps |-> 0]).total

AcceptOrder(c) ==
    LET p == placed[c]
    IN  /\ pc[c] = "order"
        /\ p.promo => offer.promo.type # "none"
        /\ p.wallet => Charge(p) <= offer.balance
        /\ placed' = [placed EXCEPT ![c].charged = Charge(p)]
        /\ Goto(c, "answer")
        /\ UNCHANGED <<offer, form, submitting, latched, misswiped, raised, appVars>>

(* Sold out, no such code, a short wallet, or Paystack is down.            *)
RefuseOrder(c) ==
    /\ pc[c] = "order"
    /\ Goto(c, "refusal")
    /\ UNCHANGED buyVars

(* The page is left for Paystack or the order; submitting stays set.       *)
LeavePage(c) ==
    /\ pc[c] = "answer"
    /\ Goto(c, "done")
    /\ UNCHANGED buyVars

(* Faulty variant: the bar is not reset.                                   *)
ResetButton ==
    submitting' = FALSE /\ UNCHANGED <<latched, misswiped>>

(* setSubmitting(false) and the effect of the bar that follows it.         *)
Reset ==
    submitting' = FALSE /\ latched' = FALSE /\ misswiped' = FALSE

ShowError(c) ==
    /\ \/ pc[c] = "refusal" /\ Goto(c, "refused")
       \/ CutShort(c)
    /\ Reset
    /\ UNCHANGED <<offer, form, raised, placed, appVars>>

-------------------------------------------------------------------------------
(* The event screen of the app.                                            *)
OpenScreen(v) ==
    \E t \in Tiers :
        /\ tier = NoTier
        /\ Begin(v, "done")
        /\ tier' = t
        /\ seatList' = [seatList EXCEPT ![t] = "waiting"]
        /\ UNCHANGED <<formVars, hasSeats, picked, count, buying, appOrder>>

OnScreen == tier # NoTier /\ \E c \in AppPresses : pc[c] = "idle"

(* The builder of the button keeps what it had while a list is loading.    *)
TakenForSeated(t, list) ==
    CASE list = "here" -> t \in SeatedTiers
      [] list = "failed" -> FALSE
      [] list \in {"unasked", "waiting"} -> hasSeats

(* Faulty variant: the seats stay picked.                                  *)
PicksKept == picked

PicksAfterSelect == {}

(* putIfAbsent: a list is asked for once, even if it fails.                *)
SelectTier(t) ==
    /\ OnScreen /\ t # tier
    /\ tier' = t
    /\ picked' = PicksAfterSelect
    /\ seatList' = [seatList EXCEPT ![t] = IF @ = "unasked" THEN "waiting" ELSE @]
    /\ hasSeats' = TakenForSeated(t, seatList[t])
    /\ UNCHANGED <<requestVars, formVars, count, buying, appOrder>>

SeatListEnds(t, how) ==
    /\ seatList[t] = "waiting"
    /\ seatList' = [seatList EXCEPT ![t] = how]
    /\ hasSeats' = IF t = tier THEN TakenForSeated(t, how) ELSE hasSeats
    /\ how = "failed" => failures < MaxFailures
    /\ failures' = IF how = "failed" THEN failures + 1 ELSE failures
    /\ UNCHANGED <<pc, overlapped, formVars, tier, picked, count, buying, appOrder>>

ToggleSeat(s) ==
    /\ OnScreen
    /\ seatList[tier] = "here" /\ s \in SeatsOfTier(tier)
    /\ picked' = IF s \in picked THEN picked \ {s} ELSE picked \cup {s}
    /\ UNCHANGED <<requestVars, formVars, tier, seatList, hasSeats, count, buying, appOrder>>

StepCount ==
    \E n \in 1..MaxTickets :
        /\ OnScreen
        /\ seatList[tier] # "waiting" /\ ~hasSeats
        /\ n \in {count - 1, count + 1}
        /\ count' = n
        /\ UNCHANGED <<requestVars, formVars, tier, seatList, hasSeats, picked, buying, appOrder>>

(* _buy.                                                                   *)
Buy(c) ==
    /\ tier # NoTier
    /\ ~buying /\ ~(hasSeats /\ picked = {})
    /\ Begin(c, "order")
    /\ buying' = TRUE
    /\ appOrder' = [appOrder EXCEPT ![c] =
           [tier |-> tier, seats |-> picked, list |-> seatList[tier],
            count |-> IF picked = {} THEN count ELSE Cardinality(picked)]]
    /\ UNCHANGED <<formVars, tier, seatList, hasSeats, picked, count>>

(* create refuses a seated tier without seats, and seats of another tier.  *)
AnswerApp(c) ==
    LET o == appOrder[c]
    IN  /\ pc[c] = "order"
        /\ \/ /\ o.tier \in SeatedTiers => Cardinality(o.seats) = o.count
              /\ o.seats \subseteq SeatsOfTier(o.tier)
              /\ Goto(c, "answer")
           \/ Goto(c, "refusal")
        /\ UNCHANGED buyVars

(* Paystack is opened beside the app, or the error shown.                  *)
EndBuy(c) ==
    /\ \/ pc[c] = "answer" /\ Goto(c, "done")
       \/ pc[c] = "refusal" /\ Goto(c, "refused")
       \/ CutShort(c)
    /\ buying' = FALSE
    /\ UNCHANGED <<formVars, tier, seatList, hasSeats, picked, count, appOrder>>

BuyFormsNext ==
    \/ \E v \in Visits : OpenPage(v)
    \/ \E delta \in {-1, 1} : Bump(delta)
    \/ ToggleWallet \/ TypePromo \/ TypeEmail \/ Misswipe
    \/ \E c \in Presses :
        \/ PressButton(c) \/ Swipe(c) \/ AcceptOrder(c) \/ RefuseOrder(c)
        \/ LeavePage(c) \/ ShowError(c)
    \/ \E v \in AppVisits : OpenScreen(v)
    \/ \E t \in Tiers : SelectTier(t) \/ \E how \in {"here", "failed"} : SeatListEnds(t, how)
    \/ \E s \in UNION {SeatsOfTier(t) : t \in Tiers} : ToggleSeat(s)
    \/ StepCount
    \/ \E c \in AppPresses : Buy(c) \/ AnswerApp(c) \/ EndBuy(c)

ChargedOrders == {c \in Presses : placed[c] # <<>> /\ placed[c].charged >= 0}

-------------------------------------------------------------------------------
(* An order is charged to the kobo what the button said when it was sent,  *)
(* though page and API compute it apart: a promo code can only lower it,   *)
(* and only a pricing rule, which the page knows nothing of, can raise it, *)
(* as long as the price of the tier is not edited under the page.          *)
ChargedAsShown ==
    \A c \in ChargedOrders :
        LET p == placed[c]
            ruled == Applicable([capacity |-> offer.tt.capacity,
                                 taken |-> offer.tt.sold + p.quantity], offer.rules) # {}
        IN  ~ruled => /\ p.charged <= p.shown
                      /\ ~p.promo => p.charged = p.shown

(* The wallet is asked for when the button says so.  It is asked for all   *)
(* the same, though the button speaks of Paystack, when tickets were added *)
(* to a ticked box: then it cannot be unticked.                            *)
WalletAsAnnounced ==
    \A c \in {x \in Presses : placed[x] # <<>>} :
        LET p == placed[c]
        IN  /\ p.announced => p.wallet
            /\ p.wallet /\ ~p.announced => p.raised
            /\ p.wallet /\ p.charged >= 0 => p.charged <= offer.balance

(* Button and swipe bar together send one order at a time, and none after  *)
(* one that was accepted.  The bar can be used again once an order failed; *)
(* only a swipe over a malformed address leaves it latched for good.       *)
OneOrderAtATime ==
    /\ Cardinality(Busy \cap Presses) <= 1
    /\ (\E c \in Presses : pc[c] = "done") => Busy \cap Presses = {}
    /\ latched => submitting \/ misswiped

(* An order of the app never has seats of a tier it is not for; one for a  *)
(* seated tier has no seats only if its list was still loading, or had     *)
(* failed, which it does for good, and such an order is never accepted.    *)
AppOrdersFit ==
    \A c \in {x \in AppPresses : appOrder[x] # <<>>} :
        LET o == appOrder[c]
        IN  /\ o.seats \subseteq SeatsOfTier(o.tier)
            /\ o.tier \in SeatedTiers /\ o.seats = {} =>
                  o.list \in {"waiting", "failed"} /\ pc[c] \notin {"answer", "done"}

(* All four: an order is what the form announced, and is sent once.        *)
OrderAsAnnounced ==
    ChargedAsShown /\ WalletAsAnnounced /\ OneOrderAtATime /\ AppOrdersFit
================================================================================
