-------------------------------- MODULE Pricing --------------------------------
(***************************************************************************)
(* What an order costs: the dynamic price of a ticket, the discount of a   *)
(* promo code, the worth of loyalty points, the fee and the agent's        *)
(* commission, as OrdersService.create computes them.  Amounts are kobo.   *)
(***************************************************************************)
EXTENDS Requests, Sequences

CONSTANTS
    Quotes,         \* order requests, as far as their price goes
    Asks            \* what they may ask for

(* Rates are in basis points of the whole.                                 *)
Whole == 10000

(* An ask is of a ticket type, tt: priceKobo, capacity and how many are    *)
(* taken; of the pricing rules of its event; of quantity, add-ons, a promo *)
(* code, points and an agent's share as their services let them be.        *)
PriceRule == [threshold : Int, bps : Int, active : BOOLEAN]

TicketFits(tt) == tt.priceKobo \in Nat /\ tt.capacity \in Nat /\ tt.taken \in Nat

PromoFits(promo) ==
    \/ promo.type = "none"
    \/ promo.type = "PERCENTAGE" /\ promo.value \in 1..Whole
    \/ promo.type = "FIXED" /\ promo.value \in Nat \ {0}

AskFits(ask) ==
    /\ TicketFits(ask.tt) /\ PromoFits(ask.promo)
    /\ ask.rules \in Seq(PriceRule)
    /\ ask.quantity \in Nat /\ ask.addOnsKobo \in Nat /\ ask.points \in Nat
    /\ ask.agentBps \in 0..Whole

ASSUME AsksAssumption == Quotes \subseteq Calls /\ \A ask \in Asks : AskFits(ask)

VARIABLE
    bill            \* bill[q]: what request q was told, with what it asked

quoteVars == <<bill>>

-------------------------------------------------------------------------------
(* Math.round of n / d: halves go up.                                      *)
Round(n, d) == (2 * n + d) \div (2 * d)

AtMost(x, bound) == IF x < bound THEN x ELSE bound
AtLeast(x, bound) == IF x > bound THEN x ELSE bound

Utilisation(tt) ==
    IF tt.capacity > 0 THEN (tt.taken * 100) \div tt.capacity ELSE 0

Applicable(tt, rules) ==
    {i \in DOMAIN rules : rules[i].active /\ Utilisation(tt) >= rules[i].threshold}

(* Faulty variant: the first rule that applies, unsorted.                  *)
FirstRule(rules, S) == CHOOSE i \in S : \A j \in S : i <= j

(* The first of the applicable rules once sorted by falling threshold.     *)
TopRule(rules, S) ==
    CHOOSE i \in S : \A j \in S \ {i} :
        \/ rules[i].threshold > rules[j].threshold
        \/ rules[i].threshold = rules[j].threshold /\ i < j

(* computePriceKobo.                                                       *)
PriceKobo(tt, rules) ==
    LET S == Applicable(tt, rules)
    IN  IF S = {} THEN tt.priceKobo
        ELSE AtLeast(Round(tt.priceKobo * (Whole + rules[TopRule(rules, S)].bps), Whole), 0)

(* computeDiscount.                                                        *)
Discount(subtotal, promo) ==
    CASE promo.type = "PERCENTAGE" -> (subtotal * promo.value) \div Whole
      [] promo.type = "FIXED" -> AtMost(promo.value, subtotal)
      [] promo.type = "none" -> 0

KoboForPoints(points) == 100 * points

(* Faulty variant: the points are worth their value whatever is left.      *)
PointsDiscountUncapped(subtotal, discount, points) == KoboForPoints(points)

PointsDiscount(subtotal, discount, points) ==
    AtMost(KoboForPoints(points), subtotal - discount)

(* The amounts of the Order row.  The ticket type counts the order's own   *)
(* tickets as taken: they are held before the price is computed.           *)
Bill(ask) ==
    LET subtotal == PriceKobo(ask.tt, ask.rules) * ask.quantity + ask.addOnsKobo
        discount == Discount(subtotal, ask.promo)
        byPoints == PointsDiscount(subtotal, discount, ask.points)
        due == AtLeast(subtotal - discount - byPoints, 0)
        fee == Round(due * 15, 1000)
    IN  [ask |-> ask, subtotal |-> subtotal, discount |-> discount,
         byPoints |-> byPoints, fee |-> fee, total |-> due + fee,
         commission |-> ((due + fee) * ask.agentBps) \div Whole]

-------------------------------------------------------------------------------
PricingInit == bill = [q \in Quotes |-> <<>>]

Quote(q) ==
    /\ Begin(q, "done")
    /\ \E ask \in Asks : bill' = [bill EXCEPT ![q] = Bill(ask)]

Billed == {q \in Quotes : bill[q] # <<>>}

-------------------------------------------------------------------------------
Reorderings(n) == {p \in [1..n -> 1..n] : \A k \in 1..n : \E i \in 1..n : p[i] = k}
Without(rules, k) == [i \in 1..Len(rules) - 1 |-> IF i < k THEN rules[i] ELSE rules[i + 1]]

(* The order in which the database returns the rules changes the price     *)
(* only if two of them have one threshold, and inactive rules never do.    *)
PriceIgnoresRuleOrder ==
    \A q \in Billed :
        LET rules == bill[q].ask.rules
            n == Len(rules)
            Same(other) == PriceKobo(bill[q].ask.tt, other) = PriceKobo(bill[q].ask.tt, rules)
        IN  /\ (\A i, j \in 1..n : rules[i].threshold = rules[j].threshold => i = j) =>
                    \A p \in Reorderings(n) : Same([i \in 1..n |-> rules[p[i]]])
            /\ \A k \in 1..n : ~rules[k].active => Same(Without(rules, k))

(* What is due is exactly what the discounts leave: neither can push it    *)
(* below zero, and the agent never earns more than the buyer pays.         *)
TotalsAddUp ==
    \A q \in Billed :
        LET b == bill[q]
        IN  /\ b.discount >= 0 /\ b.byPoints >= 0
            /\ b.total = b.subtotal - b.discount - b.byPoints + b.fee
            /\ b.total >= b.fee /\ b.fee >= 0
            /\ b.commission \in 0 .. b.total

(* Both: what is due does not hang on chance and adds up.                  *)
PricesHold == PriceIgnoresRuleOrder /\ TotalsAddUp
================================================================================
