------------------------------- MODULE MCCommerce -------------------------------
(***************************************************************************)
(* A small instance of Commerce for TLC.                                   *)
(***************************************************************************)
EXTENDS Commerce, TLC

CONSTANTS sale1, sale2, sale3, ann, ben, ev1, ev2, abroad, code1, agent1, look1

MCCalls ==
    Orders \cup {Retire, Settle} \cup Quotes \cup Editors \cup Buyers \cup Bookers \cup Deliveries
        \cup Broadcasts \cup Readers
        \cup Visits \cup Presses \cup AppVisits \cup AppPresses
        \cup Fetches \cup Tours

MCGroups == {Orders \cup {Retire, Settle}, Quotes, Editors \cup Buyers, Bookers \cup Deliveries,
             Broadcasts, Analysts \cup {look1}, Glances,
             Visits \cup Presses, AppVisits \cup AppPresses,
             Fetches, Tours}

(* The first names its add-on on two lines, the second asks for seats; the *)
(* last two are sent by nobody who has signed in.                          *)
Basket(promo, corporate, signedIn, seats, units, line, redeemed, kobo) ==
    [promo |-> promo, corporate |-> corporate, signedIn |-> signedIn, seats |-> seats,
     addOns |-> units, line |-> line, points |-> redeemed, kobo |-> kobo]

MCBaskets ==
    { Basket(TRUE, FALSE, TRUE, FALSE, 3, 2, 0, 0),
      Basket(TRUE, FALSE, TRUE, TRUE, 0, 0, 2, 0),
      Basket(FALSE, TRUE, TRUE, FALSE, 0, 0, 1, 2),
      Basket(FALSE, TRUE, TRUE, FALSE, 1, 1, 0, 1),
      Basket(TRUE, FALSE, FALSE, FALSE, 0, 0, 1, 0),
      Basket(FALSE, TRUE, FALSE, FALSE, 1, 1, 0, 1) }

Rule(threshold, bps, active) == [threshold |-> threshold, bps |-> bps, active |-> active]

MCAsks ==
    [ tt : [priceKobo : {333, 1000}, capacity : {3}, taken : 1..3],
      rules : {<<>>,
               <<Rule(50, 2500, TRUE)>>,
               <<Rule(0, -1505, TRUE), Rule(90, 5000, FALSE), Rule(60, 3333, TRUE)>>,
               <<Rule(60, 1000, TRUE), Rule(60, -10000, TRUE), Rule(100, 10000, TRUE)>>},
      quantity : {1, 2},
      addOnsKobo : {0, 50},
      promo : [type : {"none"}, value : {0}]
                \cup [type : {"FIXED"}, value : {400}]
                \cup [type : {"PERCENTAGE"}, value : {1250, 10000}],
      points : {0, 3, 50},
      agentBps : {0, 333, 10000} ]

(* Ann has two of the three orders.                                        *)
MCBuyerOf == sale1 :> ann @@ sale2 :> ann @@ sale3 :> ben

(* Rows of orders: a day has 4 hours, it is hour 10, and a window of one   *)
(* day opens in the middle of day 1.                                       *)
Row(event, status, tickets, paidAt, affiliate, agent) ==
    [event |-> event, status |-> status, total |-> 100, tickets |-> tickets, paidAt |-> paidAt,
     affiliate |-> affiliate, agent |-> agent]

MCRows ==
    { Row(ev1, "PAID", 1, 7, code1, agent1),
      Row(ev2, "PAID", 2, 10, "none", agent1),
      Row(ev1, "PAID", 1, 4, code1, "none"),
      Row(ev2, "PENDING", 0, 0, code1, "none"),
      Row(ev1, "REFUNDED", 1, 4, code1, "none"),
      Row(abroad, "PAID", 1, 7, code1, agent1) }

(* Any order alone, and one beside an order that is paid meanwhile.        *)
MCBooks ==
    {<<row>> : row \in MCRows}
        \cup {<<row, Row(ev2, "PENDING", 0, 0, code1, "none")>> :
                  row \in {r \in MCRows : r.event = ev1 /\ r.paidAt = 7}}

(* A fee of half a kobo; a rule that two tickets reach; codes; wallets.    *)
Offer(price, sold, rules, type, value, balance) ==
    [tt |-> [priceKobo |-> price, capacity |-> 4, sold |-> sold], rules |-> rules,
     promo |-> [type |-> type, value |-> value], balance |-> balance]

MCOffers ==
    { Offer(100, 0, <<>>, "none", 0, 150),
      Offer(333, 3, <<Rule(50, 2500, FALSE)>>, "FIXED", 400, -1),
      Offer(333, 1, <<>>, "PERCENTAGE", 1250, 600),
      Offer(1000, 1, <<Rule(70, 5000, TRUE)>>, "PERCENTAGE", 10000, 2000) }

(* An organizer may choose any word of a path as a name.                   *)
MCNames == Words \cup {"gala"}

CallSymmetry == Permutations(Orders)
================================================================================
