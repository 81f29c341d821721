--------------------------------- MODULE Carts ---------------------------------
(***************************************************************************)
(* Carts of tickets and how many tickets a set of orders asks for.  The    *)
(* number is the cardinality of a set of units, one per ticket, so that    *)
(* adding an order to the set adds its quantity.                           *)
(***************************************************************************)
EXTENDS Integers, FiniteSets

CONSTANTS
    Orders,         \* identities of the orders that may be created
    TicketTypes,    \* the ticket types of one event
    Capacity,       \* Capacity[t]: TicketType.capacity
    MaxQuantity     \* bound: tickets of one type in one order

ASSUME CartsAssumption ==
    /\ IsFiniteSet(Orders)
    /\ Capacity \in [TicketTypes -> Nat]
    /\ MaxQuantity \in Nat \ {0}

(* A cart is OrderItem rows: how many tickets of each type.                *)
Carts == [TicketTypes -> 0..MaxQuantity]
EmptyCart == [t \in TicketTypes |-> 0]

(* One element per ticket of type t that the orders in S ask for.          *)
Units(its, S, t) == {u \in S \X (1..MaxQuantity) : u[2] <= its[u[1]][t]}

Demand(its, S, t) == Cardinality(Units(its, S, t))
================================================================================
