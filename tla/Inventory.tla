------------------------------ MODULE Inventory ------------------------------
(***************************************************************************)
(* What ticket inventory promises, without saying how: an order reserves a *)
(* cart of tickets, then sells it or gives it back, and a sold cart can be *)
(* given back too.  The carts that are reserved or sold never need more    *)
(* tickets of a type than the type has.  Checkout implements this with two *)
(* counters per ticket type, one status per order and four competing       *)
(* handlers; the counters, statuses and handlers do not appear here.       *)
(***************************************************************************)
EXTENDS Carts

VARIABLES
    claim,          \* claim[o]: how far order o's claim on inventory has come
    items           \* items[o][t]: tickets of type t that order o asks for

vars == <<claim, items>>

Occupying == {o \in Orders : claim[o] \in {"reserved", "sold"}}

TypeOK ==
    /\ claim \in [Orders -> {"none", "reserved", "sold", "released"}]
    /\ items \in [Orders -> Carts]

Init ==
    /\ claim = [o \in Orders |-> "none"]
    /\ items = [o \in Orders |-> EmptyCart]

Reserve(o) ==
    /\ claim[o] = "none"
    /\ \E cart \in Carts :
        /\ \A t \in TicketTypes :
              Demand(items, Occupying, t) + cart[t] <= Capacity[t]
        /\ items' = [items EXCEPT ![o] = cart]
    /\ claim' = [claim EXCEPT ![o] = "reserved"]

Sell(o) ==
    /\ claim[o] = "reserved"
    /\ claim' = [claim EXCEPT ![o] = "sold"]
    /\ UNCHANGED items

Release(o) ==
    /\ claim[o] \in {"reserved", "sold"}
    /\ claim' = [claim EXCEPT ![o] = "released"]
    /\ UNCHANGED items

Next == \E o \in Orders : Reserve(o) \/ Sell(o) \/ Release(o)

Spec == Init /\ [][Next]_vars

(* Never more tickets promised or sold than exist (README: "rejects        *)
(* overselling under concurrent buyers").                                  *)
NeverOversold ==
    \A t \in TicketTypes : Demand(items, Occupying, t) <= Capacity[t]
==============================================================================
