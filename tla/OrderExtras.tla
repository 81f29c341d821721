------------------------------ MODULE OrderExtras ------------------------------
(***************************************************************************)
(* What OrdersService.create takes besides tickets: add-ons, one use of a  *)
(* promo code, loyalty points and credit of a corporate account.           *)
(*                                                                         *)
(* The add-ons and the points are taken in the order's transaction, whose  *)
(* effects are seen and kept only when it commits; the promo code is       *)
(* claimed on another connection and is spent at once.  The orders are for *)
(* different ticket types: those of one type wait for each other at the    *)
(* hold of its tickets, which comes first.                                 *)
(***************************************************************************)
EXTENDS Requests

CONSTANTS
    Orders,         \* POST orders requests
    Baskets,        \* what a request may ask for
    MaxUses,        \* PromoCode.maxUses
    AddOnCapacity,  \* AddOn.capacity
    StartPoints,    \* User.loyaltyPoints of the buyer of every order
    CreditLimit,    \* CorporateAccount.creditLimitKobo
    OrderLimit,     \* CorporateMember.perOrderLimitKobo
    MaxAmount,      \* bound: any amount in a basket
    Retire, Settle  \* the requests to deactivate the code and settle the account

ASSUME ExtrasAssumption ==
    /\ IsFiniteSet(Orders)
    /\ Orders \cup {Retire, Settle} \subseteq Calls
    /\ Retire \notin Orders /\ Settle \notin Orders
    /\ MaxAmount \in Nat
    /\ Baskets \subseteq [promo : BOOLEAN, corporate : BOOLEAN, signedIn : BOOLEAN, seats : BOOLEAN,
                          addOns : 0..MaxAmount, line : 0..MaxAmount, points : 0..MaxAmount,
                          kobo : 0..MaxAmount]
    /\ \A b \in Baskets : b.line <= b.addOns /\ (b.addOns > 0 => b.line > 0)
    /\ MaxUses \in Nat /\ AddOnCapacity \in Nat /\ StartPoints \in Nat
    /\ CreditLimit \in Nat /\ OrderLimit \in Nat

VARIABLES
    basket,         \* basket[o]: what order o asks for, kobo being its total, addOns the
                    \* units of the add-on and line the largest of the lines that name it
    orderStatus,    \* Order.status; "none" before the row is committed
    promoActive,    \* PromoCode.active and not expired
    uses,           \* PromoCode.usesCount
    claimed,        \* history: the orders that took a use
    addOnSold,      \* AddOn.sold
    seenSold,       \* seenSold[o]: what o read before its transaction
    points,         \* User.loyaltyPoints
    settled         \* orders with corporateSettledAt

promoVars == <<promoActive, uses, claimed>>
extrasVars == <<basket, orderStatus, promoVars, addOnSold, seenSold, points, settled>>

Nothing == [promo |-> FALSE, corporate |-> FALSE, signedIn |-> FALSE, seats |-> FALSE,
            addOns |-> 0, line |-> 0, points |-> 0, kobo |-> 0]

(* After the reads; the four calls of the transaction; the charge to the   *)
(* corporate account agreed.                                               *)
OrderSteps == {"addOns", "findPromo", "claimPromo", "commit", "assert", "charge"}

(* The orders of S with an amount f: one element per unit, so that adding  *)
(* an order to S adds its amount.                                          *)
Amounts(f, S) == {u \in S \X (1..MaxAmount) : u[2] <= f[u[1]]}
TotalOf(f, S) == Cardinality(Amounts(f, S))

AddOnsOf == [o \in Orders |-> basket[o].addOns]
PointsOf == [o \in Orders |-> basket[o].points]
KoboOf == [o \in Orders |-> basket[o].kobo]

Committed == {o \in Orders : orderStatus[o] # "none"}
Charged == {o \in Orders : basket[o].corporate /\ orderStatus[o] = "PAID" /\ o \notin settled}

ExtrasTypeOK ==
    /\ basket \in [Orders -> Baskets \cup {Nothing}]
    /\ orderStatus \in [Orders -> {"none", "PENDING", "PAID", "EXPIRED"}]
    /\ promoActive \in BOOLEAN
    /\ uses \in Nat
    /\ claimed \subseteq Orders
    /\ addOnSold \in Nat
    /\ seenSold \in [Orders -> Nat]
    /\ points \in Int
    /\ settled \subseteq Orders
    /\ \A o \in Orders : pc[o] \in OrderSteps \cup Ended \cup {"idle"}

ExtrasInit ==
    /\ basket = [o \in Orders |-> Nothing]
    /\ orderStatus = [o \in Orders |-> "none"]
    /\ promoActive = TRUE
    /\ uses = 0
    /\ claimed = {}
    /\ addOnSold = 0
    /\ seenSold = [o \in Orders |-> 0]
    /\ points = StartPoints
    /\ settled = {}

-------------------------------------------------------------------------------
(* OrdersService.create.                                                   *)

(* event.findUnique: the add-ons are read here and compared below.         *)
ReadEvent(o) ==
    /\ Begin(o, "addOns")
    /\ \E b \in Baskets : basket' = [basket EXCEPT ![o] = b]
    /\ seenSold' = [seenSold EXCEPT ![o] = addOnSold]
    /\ UNCHANGED <<orderStatus, promoVars, addOnSold, points, settled>>

(* Transactions that have written the add-on's row and not yet ended.      *)
AddOnLocked ==
    \E o \in Orders : pc[o] \in {"findPromo", "claimPromo", "commit"} /\ basket[o].addOns > 0

(* Faulty variant: the read is not compared with the capacity.             *)
AddOnsFitAlways(o) == TRUE

(* Every line is compared with what was read, and none with the lines      *)
(* before it: the basket passes if its largest line does.                  *)
AddOnsFit(o) == seenSold[o] + basket[o].line <= AddOnCapacity

(* The loop over the lines: comparisons, and increments that keep the row  *)
(* locked.                                                                 *)
TakeAddOns(o) ==
    /\ pc[o] = "addOns"
    /\ basket[o].addOns = 0 \/ (AddOnsFit(o) /\ ~AddOnLocked)
    /\ Goto(o, IF basket[o].promo THEN "findPromo" ELSE "commit")
    /\ UNCHANGED extrasVars

AddOnsSoldOut(o) ==
    /\ pc[o] = "addOns"
    /\ basket[o].addOns > 0 /\ ~AddOnsFit(o)
    /\ Goto(o, "refused")
    /\ UNCHANGED extrasVars

(* promos.findUsable.                                                      *)
FindPromo(o) ==
    /\ pc[o] = "findPromo"
    /\ Goto(o, IF promoActive /\ uses < MaxUses THEN "claimPromo" ELSE "refused")
    /\ UNCHANGED extrasVars

(* Faulty variant: the UPDATE trusts what findUsable read.                 *)
PromoClaimableAlways == TRUE

PromoClaimable == promoActive /\ uses < MaxUses

(* promos.claim: one conditional UPDATE, committed whatever the order does.*)
ClaimPromo(o) ==
    /\ pc[o] = "claimPromo"
    /\ IF PromoClaimable
       THEN /\ uses' = uses + 1
            /\ claimed' = claimed \cup {o}
            /\ Goto(o, "commit")
       ELSE /\ UNCHANGED <<uses, claimed>>
            /\ Goto(o, "refused")
    /\ UNCHANGED <<basket, orderStatus, promoActive, addOnSold, seenSold, points, settled>>

(* Faulty variant: a balance that misses one point is enough.              *)
EnoughPointsNearly(o) == points + 1 >= basket[o].points

EnoughPoints(o) == points >= basket[o].points

(* Points are redeemed only by a buyer who has signed in.                  *)
RedeemsPoints(o) == basket[o].points > 0
PointsRefused(o) == RedeemsPoints(o) /\ ~(basket[o].signedIn /\ EnoughPoints(o))

(* loyalty.debit, order.create and the hold of the seats, which succeeds;  *)
(* the transaction commits.                                                *)
Commit(o) ==
    /\ pc[o] = "commit"
    /\ ~PointsRefused(o)
    /\ points' = points - basket[o].points
    /\ addOnSold' = addOnSold + basket[o].addOns
    /\ orderStatus' = [orderStatus EXCEPT ![o] = "PENDING"]
    /\ Goto(o, IF basket[o].corporate THEN "assert" ELSE "done")
    /\ UNCHANGED <<basket, promoVars, seenSold, settled>>

(* The points are refused, or a seat is no longer available: the           *)
(* transaction is rolled back, and the use of the promo code stays.        *)
Rollback(o) ==
    /\ pc[o] = "commit"
    /\ PointsRefused(o) \/ basket[o].seats
    /\ Goto(o, "refused")
    /\ UNCHANGED extrasVars

(* Faulty variant: an order that fits by itself is charged.                *)
CreditAllowsAlone(o) == basket[o].kobo <= CreditLimit

CreditAllows(o) ==
    /\ basket[o].kobo <= OrderLimit
    /\ TotalOf(KoboOf, Charged) + basket[o].kobo <= CreditLimit

(* The account is charged for a buyer who has signed in, if assertCanCharge*)
(* lets it.  A refused order stays PENDING and expires.                    *)
AssertCanCharge(o) ==
    /\ pc[o] = "assert"
    /\ Goto(o, IF basket[o].signedIn /\ CreditAllows(o) THEN "charge" ELSE "refused")
    /\ UNCHANGED extrasVars

(* The unconditional order.update that follows.                            *)
ChargeAccount(o) ==
    /\ pc[o] = "charge"
    /\ orderStatus' = [orderStatus EXCEPT ![o] = "PAID"]
    /\ Goto(o, "done")
    /\ UNCHANGED <<basket, promoVars, addOnSold, seenSold, points, settled>>

-------------------------------------------------------------------------------
(* Paystack's charge of an order that is not billed to an account.         *)
PayOrder(o) ==
    /\ pc[o] = "done" /\ orderStatus[o] = "PENDING"
    /\ orderStatus' = [orderStatus EXCEPT ![o] = "PAID"]
    /\ UNCHANGED <<requestVars, basket, promoVars, addOnSold, seenSold, points, settled>>

(* OrderExpiryService.expire: tickets and seats are released, nothing of   *)
(* what is modelled here.  Its 15 minutes outlast the request.             *)
ExpireOrder(o) ==
    /\ orderStatus[o] = "PENDING"
    /\ pc[o] \in Ended
    /\ orderStatus' = [orderStatus EXCEPT ![o] = "EXPIRED"]
    /\ UNCHANGED <<requestVars, basket, promoVars, addOnSold, seenSold, points, settled>>

(* promos.deactivate, or the code's expiry.                                *)
RetirePromo ==
    /\ Begin(Retire, "done")
    /\ promoActive' = FALSE
    /\ UNCHANGED <<basket, orderStatus, uses, claimed, addOnSold, seenSold, points, settled>>

(* corporate.settle: one UPDATE of every order that counts.                *)
SettleAccount ==
    /\ Begin(Settle, "done")
    /\ settled' = settled \cup Charged
    /\ UNCHANGED <<basket, orderStatus, promoVars, addOnSold, seenSold, points>>

ExtrasCutShort(o) == CutShort(o) /\ UNCHANGED extrasVars

OrderStep(o) ==
    \/ ReadEvent(o)
    \/ TakeAddOns(o)
    \/ AddOnsSoldOut(o)
    \/ FindPromo(o)
    \/ ClaimPromo(o)
    \/ Commit(o)
    \/ Rollback(o)
    \/ AssertCanCharge(o)
    \/ ChargeAccount(o)
    \/ PayOrder(o)
    \/ ExpireOrder(o)
    \/ ExtrasCutShort(o)

ExtrasNext == RetirePromo \/ SettleAccount \/ \E o \in Orders : OrderStep(o)

-------------------------------------------------------------------------------
(* No code is used more often than its maximum, every order that got the   *)
(* discount took a use, and a use without an order belongs to a call still *)
(* under way, one cut short, or one that was refused its points or seats.  *)
UsesAccounted ==
    /\ uses = Cardinality(claimed) /\ uses <= MaxUses
    /\ \A o \in Committed : basket[o].promo => o \in claimed
    /\ \A o \in claimed \ Committed :
        \/ pc[o] \in {"commit", "dead"}
        \/ pc[o] = "refused" /\ (RedeemsPoints(o) \/ basket[o].seats)

(* Points leave the buyer's balance with the orders that redeem them, and  *)
(* it never goes below zero, however many orders redeem at once.           *)
PointsConserved ==
    /\ points >= 0
    /\ points + TotalOf(PointsOf, Committed) = StartPoints

(* What a basket asks for beyond the line that was compared.               *)
Repeated(o) == basket[o].addOns - basket[o].line

(* AddOn.sold counts the add-ons of all orders, paid or not.  Requests that*)
(* do not overlap exceed the capacity only by what one order repeated on   *)
(* further lines: past the capacity, no order gets any.                    *)
AddOnsAccounted ==
    /\ addOnSold = TotalOf(AddOnsOf, Committed)
    /\ \/ overlapped \/ addOnSold <= AddOnCapacity
       \/ \E o \in Committed : addOnSold <= AddOnCapacity + Repeated(o)

(* The unsettled orders of the account stay within its limit as long as    *)
(* requests do not overlap: each is checked against the PAID orders before *)
(* it becomes one.                                                         *)
CreditHolds == overlapped \/ TotalOf(KoboOf, Charged) <= CreditLimit

(* All four: what the extras of orders use up is counted, and within bounds.*)
ExtrasAccounted == UsesAccounted /\ PointsConserved /\ AddOnsAccounted /\ CreditHolds
================================================================================
