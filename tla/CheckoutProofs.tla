----------------------------- MODULE CheckoutProofs -----------------------------
(***************************************************************************)
(* Proofs about Checkout, for every set of orders, every capacity, every   *)
(* seat plan and any number of sweeps and crashes.                         *)
(***************************************************************************)
EXTENDS Checkout, FiniteSetTheorems, TLAPS

-------------------------------------------------------------------------------
(* Demand: how it changes when an order joins or leaves a set of orders.   *)

(* The units of a finite set of orders can be counted.                     *)
LEMMA UnitsFinite ==
    ASSUME NEW its \in [Orders -> Carts], NEW S \in SUBSET Orders,
           NEW t \in TicketTypes
    PROVE  IsFiniteSet(Units(its, S, t)) /\ Demand(its, S, t) \in Nat
<1>1. IsFiniteSet(S)
    BY CartsAssumption, FS_Subset
<1>2. IsFiniteSet(1..MaxQuantity)
    BY CartsAssumption, FS_Interval, 1 \in Int, MaxQuantity \in Int
<1>3. IsFiniteSet(S \X (1..MaxQuantity))
    BY <1>1, <1>2, FS_Product
<1>4. Units(its, S, t) \in SUBSET (S \X (1..MaxQuantity))
    BY DEF Units
<1>5. IsFiniteSet(Units(its, S, t))
    BY <1>3, <1>4, FS_Subset
<1> QED
    BY <1>5, FS_CardinalityType DEF Demand

(* An order by itself asks for its quantity.                               *)
LEMMA DemandSingle ==
    ASSUME NEW its \in [Orders -> Carts], NEW o \in Orders, NEW t \in TicketTypes
    PROVE  Demand(its, {o}, t) = its[o][t]
<1> DEFINE n == its[o][t]
<1>1. n \in 0..MaxQuantity /\ n \in Nat
    BY CartsAssumption DEF Carts
<1>2. Units(its, {o}, t) = {o} \X (1..n)
    BY <1>1, CartsAssumption DEF Units
<1> HIDE DEF n
<1>3. IsFiniteSet({o}) /\ Cardinality({o}) = 1
    BY FS_Singleton
<1>4. IsFiniteSet(1..n) /\ Cardinality(1..n) = IF 1 > n THEN 0 ELSE n - 1 + 1
    BY <1>1, 1 \in Int, n \in Int, FS_Interval
<1>5. Cardinality({o} \X (1..n)) = Cardinality({o}) * Cardinality(1..n)
    BY <1>3, <1>4, FS_Product
<1>6. Cardinality(1..n) = n
    BY <1>1, <1>4
<1>7. Cardinality({o} \X (1..n)) = n
    BY <1>1, <1>3, <1>5, <1>6
<1>8. Demand(its, {o}, t) = n
    BY <1>2, <1>7, Zenon DEF Demand
<1> QED
    BY <1>8 DEF n

(* Disjoint sets of orders add up.                                         *)
LEMMA DemandUnion ==
    ASSUME NEW its \in [Orders -> Carts], NEW S \in SUBSET Orders,
           NEW R \in SUBSET Orders, S \cap R = {}, NEW t \in TicketTypes
    PROVE  Demand(its, S \cup R, t) = Demand(its, S, t) + Demand(its, R, t)
<1>1. Units(its, S \cup R, t) = Units(its, S, t) \cup Units(its, R, t)
    BY DEF Units
<1>2. Units(its, S, t) \cap Units(its, R, t) = {}
    BY DEF Units
<1>3. /\ IsFiniteSet(Units(its, S, t)) /\ Demand(its, S, t) \in Nat
      /\ IsFiniteSet(Units(its, R, t)) /\ Demand(its, R, t) \in Nat
    BY UnitsFinite
<1>4. Cardinality(Units(its, S, t) \cup Units(its, R, t))
        = Cardinality(Units(its, S, t)) + Cardinality(Units(its, R, t))
            - Cardinality(Units(its, S, t) \cap Units(its, R, t))
    BY <1>3, FS_Union
<1>5. Cardinality(Units(its, S, t) \cap Units(its, R, t)) = 0
    BY <1>2, FS_EmptySet
<1>6. Demand(its, S \cup R, t) = Cardinality(Units(its, S, t) \cup Units(its, R, t))
    BY <1>1, Zenon DEF Demand
<1>7. /\ Cardinality(Units(its, S, t)) = Demand(its, S, t)
      /\ Cardinality(Units(its, R, t)) = Demand(its, R, t)
    BY DEF Demand
<1>8. Cardinality(Units(its, S, t) \cup Units(its, R, t))
        = Demand(its, S, t) + Demand(its, R, t) - 0
    BY <1>4, <1>5, <1>7, Zenon
<1>9. Demand(its, S, t) + Demand(its, R, t) - 0 = Demand(its, S, t) + Demand(its, R, t)
    BY <1>3
<1> QED
    BY <1>6, <1>8, <1>9, Zenon

(* An order that joins the set adds its quantity.                          *)
LEMMA DemandJoin ==
    ASSUME NEW its \in [Orders -> Carts], NEW S \in SUBSET Orders,
           NEW o \in Orders \ S, NEW t \in TicketTypes
    PROVE  Demand(its, S \cup {o}, t) = Demand(its, S, t) + its[o][t]
<1>1. {o} \in SUBSET Orders /\ S \cap {o} = {}
    OBVIOUS
<1>2. Demand(its, S \cup {o}, t) = Demand(its, S, t) + Demand(its, {o}, t)
    BY <1>1, DemandUnion, Zenon
<1>3. Demand(its, {o}, t) = its[o][t]
    BY DemandSingle, Zenon
<1> QED
    BY <1>2, <1>3, Zenon

(* An order that leaves the set takes its quantity along.                  *)
LEMMA DemandLeave ==
    ASSUME NEW its \in [Orders -> Carts], NEW S \in SUBSET Orders,
           NEW o \in S, NEW t \in TicketTypes
    PROVE  Demand(its, S \ {o}, t) = Demand(its, S, t) - its[o][t]
<1>1. S \ {o} \in SUBSET Orders /\ o \in Orders \ (S \ {o}) /\ S = (S \ {o}) \cup {o}
    OBVIOUS
<1>2. Demand(its, (S \ {o}) \cup {o}, t) = Demand(its, S \ {o}, t) + its[o][t]
    BY <1>1, DemandJoin
<1>3. Demand(its, S \ {o}, t) \in Nat /\ its[o][t] \in Int
    BY <1>1, UnitsFinite, CartsAssumption DEF Carts
<1>4. Demand(its, S, t) = Demand(its, S \ {o}, t) + its[o][t]
    BY <1>1, <1>2, Zenon
<1> QED
    BY <1>3, <1>4

(* Part of a set asks for no more than the set, and the rest for the rest. *)
LEMMA DemandSplit ==
    ASSUME NEW its \in [Orders -> Carts], NEW S \in SUBSET Orders,
           NEW R \in SUBSET S, NEW t \in TicketTypes
    PROVE  /\ Demand(its, S \ R, t) = Demand(its, S, t) - Demand(its, R, t)
           /\ Demand(its, R, t) <= Demand(its, S, t)
<1>1. /\ R \in SUBSET Orders /\ S \ R \in SUBSET Orders
      /\ R \cap (S \ R) = {} /\ S = R \cup (S \ R)
    OBVIOUS
<1>2. Demand(its, R \cup (S \ R), t) = Demand(its, R, t) + Demand(its, S \ R, t)
    BY <1>1, DemandUnion
<1>3. /\ Demand(its, R, t) \in Nat
      /\ Demand(its, S \ R, t) \in Nat
      /\ Demand(its, S, t) \in Nat
    BY <1>1, UnitsFinite
<1>4. Demand(its, S, t) = Demand(its, R, t) + Demand(its, S \ R, t)
    BY <1>1, <1>2, Zenon
<1> QED
    BY <1>3, <1>4

(* Only the carts of the set's own orders matter.                          *)
LEMMA DemandLocal ==
    ASSUME NEW its, NEW jts, NEW S, NEW t,
           \A o \in S : its[o] = jts[o]
    PROVE  Demand(its, S, t) = Demand(jts, S, t)
<1>1. Units(its, S, t) = Units(jts, S, t)
    BY DEF Units
<1> QED
    BY <1>1 DEF Demand

(* Nobody asks for nothing.                                                *)
LEMMA DemandEmpty ==
    ASSUME NEW its, NEW t
    PROVE  Demand(its, {}, t) = 0
<1>1. Units(its, {}, t) = {}
    BY DEF Units
<1> QED
    BY <1>1, FS_EmptySet DEF Demand

-------------------------------------------------------------------------------
(* Types.                                                                  *)

LEMMA QuantityType ==
    ASSUME TypeOK, NEW o \in Orders, NEW t \in TicketTypes
    PROVE  /\ items[o][t] \in Nat
           /\ held[t] \in Int
           /\ sold[t] \in Int
           /\ Capacity[t] \in Nat
BY CartsAssumption DEF TypeOK, Carts

LEMMA ReseatType ==
    ASSUME TypeOK, NEW S, NEW v \in SeatStates
    PROVE  Reseat(S, v) \in [Seats -> SeatStates]
BY DEF TypeOK, Reseat

LEMMA SeatStateTypes ==
    ASSUME NEW o \in Orders
    PROVE  /\ Available \in SeatStates
           /\ [state |-> "HELD", order |-> o] \in SeatStates
           /\ [state |-> "SOLD", order |-> o] \in SeatStates
BY DEF SeatStates

LEMMA CounterTypes ==
    ASSUME TypeOK, NEW o \in Orders
    PROVE  /\ AddHeld(o, -1) => held' \in [TicketTypes -> Int]
           /\ AddHeld(o, 1) => held' \in [TicketTypes -> Int]
           /\ AddSold(o, -1) => sold' \in [TicketTypes -> Int]
           /\ AddSold(o, 1) => sold' \in [TicketTypes -> Int]
<1>1. \A t \in TicketTypes : /\ held[t] + (-1) * items[o][t] \in Int
                             /\ held[t] + 1 * items[o][t] \in Int
                             /\ sold[t] + (-1) * items[o][t] \in Int
                             /\ sold[t] + 1 * items[o][t] \in Int
    BY QuantityType
<1> QED
    BY <1>1 DEF AddHeld, AddSold

LEMMA SeatTypes ==
    ASSUME TypeOK, NEW o \in Orders
    PROVE  /\ SellHeldSeats(o) => seat' \in [Seats -> SeatStates]
           /\ ReleaseSeatsForOrder(o) => seat' \in [Seats -> SeatStates]
           /\ VoidSeatsForOrder(o) => seat' \in [Seats -> SeatStates]
BY ReseatType, SeatStateTypes
   DEF SellHeldSeats, ReleaseSeatsForOrder, VoidSeatsForOrder

LEMMA IssueTypes ==
    ASSUME TypeOK, NEW o \in Orders, Issue(o)
    PROVE  /\ held' \in [TicketTypes -> Int]
           /\ sold' \in [TicketTypes -> Int]
           /\ seat' \in [Seats -> SeatStates]
           /\ tickets' \in [Orders -> {"none", "live", "voided"}]
<1>1. tickets' \in [Orders -> {"none", "live", "voided"}]
    BY DEF Issue, TypeOK
<1> QED
    BY <1>1, CounterTypes, SeatTypes DEF Issue

(* Every variable keeps its type, for every value of the constants.        *)
LEMMA TypeStep ==
    ASSUME TypeOK, [Next]_vars
    PROVE  TypeOK'
<1> USE CheckoutAssumption
<1>1. CASE \E o \in Orders : CreateOrder(o)
  <2>1. PICK o \in Orders : CreateOrder(o)
      BY <1>1
  <2>2. PICK cart \in Carts \ {EmptyCart}, ch \in Channels, S \in SUBSET Seats :
           /\ held' = [t \in TicketTypes |-> held[t] + cart[t]]
           /\ items' = [items EXCEPT ![o] = cart]
           /\ channel' = [channel EXCEPT ![o] = ch]
           /\ HoldSeats(o, S)
      BY <2>1 DEF CreateOrder
  <2>3. held' \in [TicketTypes -> Int]
    <3>1. \A t \in TicketTypes : held[t] + cart[t] \in Int
        BY CartsAssumption DEF TypeOK, Carts
    <3> QED
        BY <2>2, <3>1
  <2>4. seat' \in [Seats -> SeatStates]
      BY <2>2, ReseatType, SeatStateTypes DEF HoldSeats
  <2>5. items' \in [Orders -> Carts] /\ channel' \in [Orders -> Channels \cup {"none"}]
      BY <2>2 DEF TypeOK
  <2> QED
      BY <2>1, <2>3, <2>4, <2>5 DEF CreateOrder, TypeOK, environment, Statuses, Running
<1>2. CASE \E o \in Orders : InitializePayment(o) \/ BuyerPays(o)
    BY <1>2 DEF InitializePayment, BuyerPays, TypeOK, requestVars, stockVars, Running
<1>3. CASE \E o \in Orders :
             ChargeAccount(o) \/ RejectCharge(o) \/ RefuseDebit(o) \/ MarkPaid(o)
    BY <1>3 DEF ChargeAccount, RejectCharge, RefuseDebit, MarkPaid, TypeOK,
                requestVars, stockVars, environment, Running, Statuses
<1>4. CASE \E o \in Orders : ReleaseRefused(o)
    BY <1>4, CounterTypes
       DEF ReleaseRefused, TypeOK, requestVars, environment, Running, Statuses
<1>5. CASE \E o \in Orders : IssueAndReleaseHolds(o)
  <2>1. PICK o \in Orders : IssueAndReleaseHolds(o)
      BY <1>5
  <2> QED
      BY <2>1, IssueTypes DEF IssueAndReleaseHolds, TypeOK, requestVars, stockVars,
                        environment, Running
<1>6. CASE \E o \in Orders : CutShort(o)
    BY <1>6 DEF CutShort, TypeOK, requestVars, stockVars, Running
<1>7. CASE \E o \in Orders : ChargeSuccess(o)
  <2>1. PICK o \in Orders : ChargeSuccess(o)
      BY <1>7
  <2> QED
      BY <2>1, IssueTypes DEF ChargeSuccess, TypeOK, requestVars, stockVars, Statuses
<1>8. CASE \E o \in Orders : Lapse(o)
    BY <1>8 DEF Lapse, TypeOK, requestVars, stockVars
<1>9. CASE \E o \in Orders : FinaliseRefund(o)
  <2>1. PICK o \in Orders : FinaliseRefund(o)
      BY <1>9
  <2>2. sold' \in [TicketTypes -> Int] /\ seat' \in [Seats -> SeatStates]
      BY <2>1, CounterTypes, SeatTypes DEF FinaliseRefund
  <2> QED
      BY <2>1, <2>2 DEF FinaliseRefund, TypeOK, requestVars, environment, Statuses
<1>10. CASE \E c \in Sweepers : StartSweep(c) \/ AbandonSweep(c)
    BY <1>10 DEF StartSweep, AbandonSweep, Candidates, TypeOK, requestVars, stockVars
<1>11. CASE \E c \in Sweepers, o \in Orders : ExpireCandidate(c, o)
  <2>1. PICK c \in Sweepers, o \in Orders : ExpireCandidate(c, o)
      BY <1>11
  <2>2. held' \in [TicketTypes -> Int] /\ seat' \in [Seats -> SeatStates]
      BY <2>1, CounterTypes, SeatTypes DEF ExpireCandidate, TypeOK
  <2> QED
      BY <2>1, <2>2 DEF ExpireCandidate, TypeOK, requestVars, Statuses
<1>12. CASE UNCHANGED vars
    BY <1>12 DEF vars, TypeOK
<1> QED
    BY <1>1, <1>2, <1>3, <1>4, <1>5, <1>6, <1>7, <1>8, <1>9, <1>10, <1>11, <1>12
       DEF Next, HandlerStep

LEMMA TypeInit == Init => TypeOK
BY CheckoutAssumption, CartsAssumption
   DEF Init, TypeOK, Carts, EmptyCart, SeatStates, Statuses, Running

(* Type correctness of checkout.                                           *)
THEOREM TypeCorrect == Spec => []TypeOK
<1>1. Init => TypeOK
    BY TypeInit
<1>2. TypeOK /\ [Next]_vars => TypeOK'
    BY TypeStep
<1> QED
    BY <1>1, <1>2, PTL DEF Spec

-------------------------------------------------------------------------------
(* The phases of an order.                                                 *)

Phases == \A o \in Orders : PhaseOK(o)

LEMMA PhaseStep ==
    ASSUME OnTime, TypeOK, Phases, [Next]_vars
    PROVE  Phases'
<1> SUFFICES ASSUME NEW p \in Orders
             PROVE  PhaseOK(p)'
    BY DEF Phases
<1> USE CheckoutAssumption
<1>0. PhaseOK(p)
    BY DEF Phases
<1>1. ASSUME NEW o \in Orders, CreateOrder(o)
      PROVE  PhaseOK(p)'
  <2>1. PICK ch \in Channels : channel' = [channel EXCEPT ![o] = ch]
      BY <1>1 DEF CreateOrder
  <2>2. /\ status' = [status EXCEPT ![o] = "PENDING"]
        /\ pc' = [pc EXCEPT ![o] = "charge"]
        /\ UNCHANGED <<tickets, overdue, gateway>>
        /\ status[o] = "none"
      BY <1>1 DEF CreateOrder, environment
  <2>3. PhaseOK(o)
      BY DEF Phases
  <2> QED
      BY <1>0, <2>1, <2>2, <2>3 DEF PhaseOK, TypeOK
<1>2. ASSUME NEW o \in Orders, InitializePayment(o)
      PROVE  PhaseOK(p)'
    BY <1>0, <1>2 DEF InitializePayment, PhaseOK, TypeOK, requestVars, stockVars
<1>3. ASSUME NEW o \in Orders, ChargeAccount(o) \/ RejectCharge(o) \/ RefuseDebit(o)
      PROVE  PhaseOK(p)'
    BY <1>0, <1>3 DEF ChargeAccount, RejectCharge, RefuseDebit, PhaseOK, TypeOK,
                      requestVars, stockVars, environment
<1>4. ASSUME NEW o \in Orders, ReleaseRefused(o)
      PROVE  PhaseOK(p)'
    BY <1>0, <1>4 DEF ReleaseRefused, PhaseOK, TypeOK, requestVars, environment
<1>5. ASSUME NEW o \in Orders, MarkPaid(o)
      PROVE  PhaseOK(p)'
    BY <1>0, <1>5 DEF MarkPaid, PhaseOK, TypeOK, requestVars, stockVars, environment
<1>6. ASSUME NEW o \in Orders, IssueAndReleaseHolds(o)
      PROVE  PhaseOK(p)'
    BY <1>0, <1>6 DEF IssueAndReleaseHolds, Issue, PhaseOK, TypeOK,
                      requestVars, stockVars, environment
<1>7. ASSUME NEW o \in Orders, CutShort(o)
      PROVE  PhaseOK(p)'
    BY <1>0, <1>7 DEF CutShort, Running, PhaseOK, TypeOK, requestVars, stockVars
<1>8. ASSUME NEW o \in Orders, BuyerPays(o)
      PROVE  PhaseOK(p)'
    BY <1>0, <1>8 DEF BuyerPays, PhaseOK, TypeOK, requestVars, stockVars
<1>9. ASSUME NEW o \in Orders, ChargeSuccess(o)
      PROVE  PhaseOK(p)'
  <2>1. PhaseOK(o)
      BY DEF Phases
  <2> QED
      BY <1>0, <1>9, <2>1 DEF ChargeSuccess, Issue, PhaseOK, TypeOK, requestVars, stockVars
<1>10. ASSUME NEW o \in Orders, Lapse(o)
       PROVE  PhaseOK(p)'
    BY <1>0, <1>10 DEF Lapse, OnTime, PhaseOK, TypeOK, requestVars, stockVars
<1>11. ASSUME NEW o \in Orders, FinaliseRefund(o)
       PROVE  PhaseOK(p)'
    BY <1>0, <1>11 DEF FinaliseRefund, PhaseOK, TypeOK, requestVars, environment
<1>12. ASSUME NEW c \in Sweepers, StartSweep(c) \/ AbandonSweep(c)
       PROVE  PhaseOK(p)'
    BY <1>0, <1>12 DEF StartSweep, AbandonSweep, PhaseOK, requestVars, stockVars
<1>13. ASSUME NEW c \in Sweepers, NEW o \in Orders, ExpireCandidate(c, o)
       PROVE  PhaseOK(p)'
    BY <1>0, <1>13 DEF ExpireCandidate, PhaseOK, TypeOK, requestVars
<1>14. CASE UNCHANGED vars
    BY <1>0, <1>14 DEF vars, PhaseOK
<1> QED
    BY <1>1, <1>2, <1>3, <1>4, <1>5, <1>6, <1>7, <1>8, <1>9, <1>10, <1>11, <1>12,
       <1>13, <1>14 DEF Next, HandlerStep

-------------------------------------------------------------------------------
(* The counters.                                                           *)

LEMMA SetTypes ==
    /\ Holding \in SUBSET Orders
    /\ Issued \in SUBSET Orders
    /\ Refunded \in SUBSET Orders
BY DEF Holding, Issued, Refunded

(* A step after which the same orders hold, have tickets and are refunded. *)
LEMMA CountersKept ==
    ASSUME CountersExact, items' = items, held' = held, sold' = sold,
           Holding' = Holding, Issued' = Issued, Refunded' = Refunded
    PROVE  CountersExact'
BY DEF CountersExact

(* A hold is given back: the refused debit and the sweep.                  *)
LEMMA CountersReleased ==
    ASSUME TypeOK, CountersExact, NEW o \in Holding,
           AddHeld(o, -1), sold' = sold, items' = items,
           Holding' = Holding \ {o}, Issued' = Issued, Refunded' = Refunded
    PROVE  CountersExact'
<1> SUFFICES ASSUME NEW t \in TicketTypes
             PROVE  /\ held'[t] = Demand(items, Holding \ {o}, t)
                    /\ sold'[t] = Demand(items, Issued, t) - Demand(items, Refunded, t)
    BY DEF CountersExact
<1>1. items \in [Orders -> Carts] /\ o \in Orders
    BY SetTypes DEF TypeOK
<1>2. held'[t] = held[t] - items[o][t]
    BY <1>1, QuantityType DEF AddHeld
<1>3. Demand(items, Holding \ {o}, t) = Demand(items, Holding, t) - items[o][t]
    BY <1>1, SetTypes, DemandLeave
<1> QED
    BY <1>2, <1>3 DEF CountersExact

(* A hold becomes a sale: both issuing transactions.                       *)
LEMMA CountersIssued ==
    ASSUME TypeOK, CountersExact, NEW o \in Holding, o \notin Issued,
           AddHeld(o, -1), AddSold(o, 1), items' = items,
           Holding' = Holding \ {o}, Issued' = Issued \cup {o}, Refunded' = Refunded
    PROVE  CountersExact'
<1> SUFFICES ASSUME NEW t \in TicketTypes
             PROVE  /\ held'[t] = Demand(items, Holding \ {o}, t)
                    /\ sold'[t] = Demand(items, Issued \cup {o}, t)
                                    - Demand(items, Refunded, t)
    BY DEF CountersExact
<1>1. items \in [Orders -> Carts] /\ o \in Orders
    BY SetTypes DEF TypeOK
<1>2. /\ held'[t] = held[t] - items[o][t]
      /\ sold'[t] = sold[t] + items[o][t]
    BY <1>1, QuantityType DEF AddHeld, AddSold
<1>3. Demand(items, Holding \ {o}, t) = Demand(items, Holding, t) - items[o][t]
    BY <1>1, SetTypes, DemandLeave
<1>4. Demand(items, Issued \cup {o}, t) = Demand(items, Issued, t) + items[o][t]
    <2>1. Issued \in SUBSET Orders /\ o \in Orders \ Issued
        BY <1>1, SetTypes
    <2> QED
        BY <1>1, <2>1, DemandJoin
<1>5. /\ Demand(items, Issued, t) \in Nat
      /\ Demand(items, Refunded, t) \in Nat
      /\ items[o][t] \in Nat
    BY <1>1, SetTypes, UnitsFinite, QuantityType
<1>6. held[t] = Demand(items, Holding, t)
      /\ sold[t] = Demand(items, Issued, t) - Demand(items, Refunded, t)
    BY DEF CountersExact
<1>7. sold'[t] = Demand(items, Issued \cup {o}, t) - Demand(items, Refunded, t)
    BY <1>2, <1>4, <1>5, <1>6
<1> QED
    BY <1>2, <1>3, <1>6, <1>7

LEMMA CountersCreated ==
    ASSUME TypeOK, Phases, CountersExact, NEW o \in Orders, CreateOrder(o), TypeOK'
    PROVE  CountersExact'
<1>1. PICK cart \in Carts :
           /\ held' = [t \in TicketTypes |-> held[t] + cart[t]]
           /\ items' = [items EXCEPT ![o] = cart]
    BY DEF CreateOrder
<1>2. /\ status[o] = "none" /\ tickets[o] = "none"
      /\ status' = [status EXCEPT ![o] = "PENDING"]
      /\ tickets' = tickets /\ sold' = sold
    BY DEF CreateOrder, Phases, PhaseOK
<1>3. /\ o \notin Holding /\ o \notin Issued /\ o \notin Refunded
      /\ Holding' = Holding \cup {o} /\ Issued' = Issued /\ Refunded' = Refunded
    BY <1>2 DEF Holding, Issued, Refunded, TypeOK
<1>4. \A p \in Orders : p # o => items'[p] = items[p]
    BY <1>1 DEF TypeOK
<1> SUFFICES ASSUME NEW t \in TicketTypes
             PROVE  /\ held'[t] = Demand(items', Holding', t)
                    /\ sold'[t] = Demand(items', Issued', t) - Demand(items', Refunded', t)
    BY DEF CountersExact
<1>5. items' \in [Orders -> Carts] /\ items'[o] = cart
    BY <1>1 DEF TypeOK
<1>6. \A p \in Holding : items[p] = items'[p]
    BY <1>3, <1>4, SetTypes
<1>7. Demand(items', Holding, t) = Demand(items, Holding, t)
    BY <1>6, DemandLocal
<1>8. Demand(items', Holding \cup {o}, t) = Demand(items', Holding, t) + cart[t]
    BY <1>3, <1>5, SetTypes, DemandJoin
<1>9. held'[t] = held[t] + cart[t]
    BY <1>1
<1>10. held[t] = Demand(items, Holding, t)
       /\ sold[t] = Demand(items, Issued, t) - Demand(items, Refunded, t)
    BY DEF CountersExact
<1>11. \A p \in Issued : items[p] = items'[p]
    BY <1>3, <1>4, SetTypes
<1>12. \A p \in Refunded : items[p] = items'[p]
    BY <1>3, <1>4, SetTypes
<1>13. /\ Demand(items, Issued, t) = Demand(items', Issued, t)
       /\ Demand(items, Refunded, t) = Demand(items', Refunded, t)
    BY <1>11, <1>12, DemandLocal
<1>14. held'[t] = Demand(items', Holding', t)
    BY <1>3, <1>7, <1>8, <1>9, <1>10, Zenon
<1>15. sold'[t] = Demand(items', Issued', t) - Demand(items', Refunded', t)
    BY <1>2, <1>3, <1>10, <1>13, Zenon
<1> QED
    BY <1>14, <1>15

LEMMA CountersRefunded ==
    ASSUME TypeOK, Phases, CountersExact, NEW o \in Orders, FinaliseRefund(o)
    PROVE  CountersExact'
<1>1. /\ status[o] = "PAID"
      /\ status' = [status EXCEPT ![o] = "REFUNDED"]
      /\ tickets' = [tickets EXCEPT ![o] = IF @ = "live" THEN "voided" ELSE @]
      /\ held' = held /\ items' = items /\ AddSold(o, -1)
    BY DEF FinaliseRefund, requestVars
<1>2. PhaseOK(o)
    BY DEF Phases
<1>3. Holding' = Holding /\ Issued' = Issued
    BY <1>1, <1>2 DEF Holding, Issued, TypeOK, PhaseOK
<1>4. Refunded' = Refunded \cup {o} /\ o \notin Refunded
    BY <1>1 DEF Refunded, TypeOK
<1> SUFFICES ASSUME NEW t \in TicketTypes
             PROVE  /\ held'[t] = Demand(items, Holding, t)
                    /\ sold'[t] = Demand(items, Issued, t)
                                    - Demand(items, Refunded \cup {o}, t)
    BY <1>1, <1>3, <1>4 DEF CountersExact
<1>5. sold'[t] = sold[t] - items[o][t]
    BY <1>1, QuantityType DEF AddSold
<1>6. items \in [Orders -> Carts]
    BY DEF TypeOK
<1>7. Demand(items, Refunded \cup {o}, t) = Demand(items, Refunded, t) + items[o][t]
    BY <1>4, <1>6, SetTypes, DemandJoin
<1>8. /\ Demand(items, Issued, t) \in Nat
      /\ Demand(items, Refunded, t) \in Nat
      /\ items[o][t] \in Nat
    BY <1>6, SetTypes, UnitsFinite, QuantityType
<1>9. held[t] = Demand(items, Holding, t)
      /\ sold[t] = Demand(items, Issued, t) - Demand(items, Refunded, t)
    BY DEF CountersExact
<1>10. sold'[t] = Demand(items, Issued, t) - Demand(items, Refunded \cup {o}, t)
    BY <1>5, <1>7, <1>8, <1>9
<1> QED
    BY <1>1, <1>9, <1>10

-------------------------------------------------------------------------------
(* The inductive invariant.                                                *)

Counts == CountersExact /\ ClaimsWithinCapacity

LEMMA CountsKept ==
    ASSUME Counts, items' = items, held' = held, sold' = sold,
           Holding' = Holding, Issued' = Issued, Refunded' = Refunded
    PROVE  Counts'
BY CountersKept DEF Counts, ClaimsWithinCapacity

LEMMA CountsReleased ==
    ASSUME TypeOK, Counts, NEW o \in Holding,
           AddHeld(o, -1), sold' = sold, items' = items,
           Holding' = Holding \ {o}, Issued' = Issued, Refunded' = Refunded
    PROVE  Counts'
<1>1. CountersExact'
    BY CountersReleased DEF Counts
<1>2. ASSUME NEW t \in TicketTypes
      PROVE  held'[t] + sold'[t] <= Capacity[t]
  <2>1. held[t] + sold[t] <= Capacity[t] /\ o \in Orders
      BY SetTypes DEF Counts, ClaimsWithinCapacity
  <2> QED
      BY <2>1, QuantityType DEF AddHeld
<1> QED
    BY <1>1, <1>2 DEF Counts, ClaimsWithinCapacity

LEMMA CountsIssued ==
    ASSUME TypeOK, Counts, NEW o \in Holding, o \notin Issued,
           AddHeld(o, -1), AddSold(o, 1), items' = items,
           Holding' = Holding \ {o}, Issued' = Issued \cup {o}, Refunded' = Refunded
    PROVE  Counts'
<1>1. CountersExact'
    BY CountersIssued DEF Counts
<1>2. ASSUME NEW t \in TicketTypes
      PROVE  held'[t] + sold'[t] <= Capacity[t]
  <2>1. held[t] + sold[t] <= Capacity[t] /\ o \in Orders
      BY SetTypes DEF Counts, ClaimsWithinCapacity
  <2> QED
      BY <2>1, QuantityType DEF AddHeld, AddSold
<1> QED
    BY <1>1, <1>2 DEF Counts, ClaimsWithinCapacity

LEMMA CountsStep ==
    ASSUME TypeOK, TypeOK', Phases, Counts, [Next]_vars, OnTime
    PROVE  Counts'
<1>1. ASSUME NEW o \in Orders, CreateOrder(o)
      PROVE  Counts'
  <2>1. CountersExact'
      BY <1>1, CountersCreated DEF Counts
  <2>2. PICK cart \in Carts :
             /\ \A t \in TicketTypes : sold[t] + held[t] + cart[t] <= Capacity[t]
             /\ held' = [t \in TicketTypes |-> held[t] + cart[t]]
      BY <1>1 DEF CreateOrder
  <2>3. ASSUME NEW t \in TicketTypes
        PROVE  held'[t] + sold'[t] <= Capacity[t]
    <3>1. /\ held'[t] = held[t] + cart[t] /\ sold' = sold
          /\ cart[t] \in Int /\ held[t] \in Int /\ sold[t] \in Int
          /\ Capacity[t] \in Int
          /\ sold[t] + held[t] + cart[t] <= Capacity[t]
        BY <1>1, <2>2, CartsAssumption DEF CreateOrder, TypeOK, Carts
    <3> QED
        BY <3>1
  <2> QED
      BY <2>1, <2>3 DEF Counts, ClaimsWithinCapacity
<1>2. ASSUME NEW o \in Orders,
             \/ InitializePayment(o) \/ ChargeAccount(o) \/ RejectCharge(o)
             \/ RefuseDebit(o) \/ CutShort(o) \/ BuyerPays(o) \/ Lapse(o)
      PROVE  Counts'
  <2>1. UNCHANGED <<status, items, tickets, held, sold>>
      BY <1>2 DEF InitializePayment, ChargeAccount, RejectCharge, RefuseDebit,
                  CutShort, BuyerPays, Lapse, requestVars, stockVars
  <2>2. Holding' = Holding /\ Issued' = Issued /\ Refunded' = Refunded
      BY <2>1 DEF Holding, Issued, Refunded
  <2> QED
      BY <2>1, <2>2, CountsKept
<1>3. ASSUME NEW o \in Orders, ReleaseRefused(o)
      PROVE  Counts'
  <2>1. PhaseOK(o)
      BY DEF Phases
  <2>2. status[o] = "PENDING"
      BY <1>3, <2>1 DEF ReleaseRefused, PhaseOK
  <2>3. /\ status' = [status EXCEPT ![o] = "EXPIRED"]
        /\ AddHeld(o, -1)
        /\ UNCHANGED <<items, tickets, sold>>
      BY <1>3, <2>2 DEF ReleaseRefused, requestVars, TypeOK
  <2>4. /\ o \in Holding /\ Holding' = Holding \ {o}
        /\ Issued' = Issued /\ Refunded' = Refunded
      BY <2>2, <2>3 DEF Holding, Issued, Refunded, TypeOK
  <2> QED
      BY <2>3, <2>4, CountsReleased
<1>4. ASSUME NEW o \in Orders, MarkPaid(o)
      PROVE  Counts'
  <2>1. PhaseOK(o)
      BY DEF Phases
  <2>2. /\ status[o] = "PENDING" /\ tickets[o] = "none"
        /\ status' = [status EXCEPT ![o] = "PAID"]
        /\ UNCHANGED <<items, tickets, held, sold>>
      BY <1>4, <2>1 DEF MarkPaid, PhaseOK, requestVars, stockVars
  <2>3. Holding' = Holding /\ Issued' = Issued /\ Refunded' = Refunded
      BY <2>2 DEF Holding, Issued, Refunded, TypeOK
  <2> QED
      BY <2>2, <2>3, CountsKept
<1>5. ASSUME NEW o \in Orders, IssueAndReleaseHolds(o)
      PROVE  Counts'
  <2>1. PhaseOK(o)
      BY DEF Phases
  <2>2. status[o] \in {"PAID", "REFUNDED"} /\ tickets[o] = "none"
      BY <1>5, <2>1 DEF IssueAndReleaseHolds, PhaseOK
  <2>3. /\ tickets' = [tickets EXCEPT ![o] = "live"]
        /\ AddHeld(o, -1) /\ AddSold(o, 1)
        /\ UNCHANGED <<status, items>>
      BY <1>5, <2>2 DEF IssueAndReleaseHolds, Issue, requestVars
  <2>4. /\ o \in Holding /\ Holding' = Holding \ {o}
        /\ o \notin Issued /\ Issued' = Issued \cup {o} /\ Refunded' = Refunded
      BY <2>2, <2>3 DEF Holding, Issued, Refunded, TypeOK
  <2> QED
      BY <2>3, <2>4, CountsIssued
<1>6. ASSUME NEW o \in Orders, ChargeSuccess(o)
      PROVE  Counts'
  <2>1. PhaseOK(o)
      BY DEF Phases
  <2>2. CASE status[o] = "PENDING"
    <3>1. /\ status' = [status EXCEPT ![o] = "PAID"]
          /\ tickets' = [tickets EXCEPT ![o] = "live"]
          /\ AddHeld(o, -1) /\ AddSold(o, 1)
          /\ UNCHANGED items
        BY <1>6, <2>2 DEF ChargeSuccess, Issue, requestVars
    <3>2. tickets[o] = "none"
        BY <2>1, <2>2 DEF PhaseOK
    <3>3. /\ o \in Holding /\ Holding' = Holding \ {o}
          /\ o \notin Issued /\ Issued' = Issued \cup {o} /\ Refunded' = Refunded
        BY <2>2, <3>1, <3>2 DEF Holding, Issued, Refunded, TypeOK
    <3> QED
        BY <3>1, <3>3, CountsIssued
  <2>3. CASE status[o] # "PENDING"
    <3>1. UNCHANGED <<status, items, tickets, held, sold>>
        BY <1>6, <2>3 DEF ChargeSuccess, requestVars, stockVars
    <3>2. Holding' = Holding /\ Issued' = Issued /\ Refunded' = Refunded
        BY <3>1 DEF Holding, Issued, Refunded
    <3> QED
        BY <3>1, <3>2, CountsKept
  <2> QED
      BY <2>2, <2>3
<1>7. ASSUME NEW o \in Orders, FinaliseRefund(o)
      PROVE  Counts'
  <2>1. CountersExact'
      BY <1>7, CountersRefunded DEF Counts
  <2>2. ASSUME NEW t \in TicketTypes
        PROVE  held'[t] + sold'[t] <= Capacity[t]
    <3>1. held[t] + sold[t] <= Capacity[t]
        BY DEF Counts, ClaimsWithinCapacity
    <3>2. held' = held /\ AddSold(o, -1)
        BY <1>7 DEF FinaliseRefund
    <3> QED
        BY <3>1, <3>2, QuantityType DEF AddSold
  <2> QED
      BY <2>1, <2>2 DEF Counts, ClaimsWithinCapacity
<1>8. ASSUME NEW c \in Sweepers, StartSweep(c) \/ AbandonSweep(c)
      PROVE  Counts'
  <2>1. UNCHANGED <<status, items, tickets, held, sold>>
      BY <1>8 DEF StartSweep, AbandonSweep, requestVars, stockVars
  <2>2. Holding' = Holding /\ Issued' = Issued /\ Refunded' = Refunded
      BY <2>1 DEF Holding, Issued, Refunded
  <2> QED
      BY <2>1, <2>2, CountsKept
<1>9. ASSUME NEW c \in Sweepers, NEW o \in Orders, ExpireCandidate(c, o)
      PROVE  Counts'
  <2>1. CASE status[o] = "PENDING" /\ o \in overdue
    <3>1. /\ status' = [status EXCEPT ![o] = "EXPIRED"]
          /\ AddHeld(o, -1)
          /\ UNCHANGED <<items, tickets, sold>>
        BY <1>9, <2>1 DEF ExpireCandidate, requestVars
    <3>2. /\ o \in Holding /\ Holding' = Holding \ {o}
          /\ Issued' = Issued /\ Refunded' = Refunded
        BY <2>1, <3>1 DEF Holding, Issued, Refunded, TypeOK
    <3> QED
        BY <3>1, <3>2, CountsReleased
  <2>2. CASE ~(status[o] = "PENDING" /\ o \in overdue)
    <3>1. UNCHANGED <<status, items, tickets, held, sold>>
        BY <1>9, <2>2 DEF ExpireCandidate, requestVars
    <3>2. Holding' = Holding /\ Issued' = Issued /\ Refunded' = Refunded
        BY <3>1 DEF Holding, Issued, Refunded
    <3> QED
        BY <3>1, <3>2, CountsKept
  <2> QED
      BY <2>1, <2>2
<1>10. CASE UNCHANGED vars
  <2>1. UNCHANGED <<status, items, tickets, held, sold>>
      BY <1>10 DEF vars
  <2>2. Holding' = Holding /\ Issued' = Issued /\ Refunded' = Refunded
      BY <2>1 DEF Holding, Issued, Refunded
  <2> QED
      BY <2>1, <2>2, CountsKept
<1> QED
    BY <1>1, <1>2, <1>3, <1>4, <1>5, <1>6, <1>7, <1>8, <1>9, <1>10 DEF Next, HandlerStep

-------------------------------------------------------------------------------
(* The seats.                                                              *)

SeatsFitAll == \A o \in Orders : SeatsFit(o)

(* No seat is free and taken, held and sold, or two orders'.               *)
LEMMA SeatStatesDiffer ==
    ASSUME NEW o, NEW p, NEW a, NEW b
    PROVE  /\ Available # [state |-> a, order |-> o]
           /\ a # b \/ o # p => [state |-> a, order |-> o] # [state |-> b, order |-> p]
<1>1. Available # [state |-> a, order |-> o]
  <2>1. DOMAIN Available = {"state"}
      BY DEF Available
  <2>2. DOMAIN [state |-> a, order |-> o] = {"state", "order"}
      OBVIOUS
  <2> QED
      BY <2>1, <2>2
<1>2. [state |-> a, order |-> o] = [state |-> b, order |-> p] => a = b /\ o = p
    OBVIOUS
<1> QED
    BY <1>1, <1>2

LEMMA SeatsDisjoint ==
    ASSUME NEW o, NEW p, NEW a, NEW b, a # b \/ o # p
    PROVE  SeatsIn(a, o) \cap SeatsIn(b, p) = {}
<1>1. [state |-> a, order |-> o] # [state |-> b, order |-> p]
    BY SeatStatesDiffer
<1> QED
    BY <1>1, Zenon DEF SeatsIn

(* Seats taken by an order, or given back, are in no other state.          *)
LEMMA SeatsTaken ==
    ASSUME NEW S \in SUBSET Seats, NEW o, NEW to,
           seat' = Reseat(S, [state |-> to, order |-> o])
    PROVE  SeatsIn(to, o)' = SeatsIn(to, o) \cup S
BY DEF SeatsIn, Reseat

LEMMA SeatsLeft ==
    ASSUME NEW S \in SUBSET Seats, NEW o, NEW to,
           seat' = Reseat(S, [state |-> to, order |-> o]), NEW p, NEW state,
           p # o \/ state # to
    PROVE  SeatsIn(state, p)' = SeatsIn(state, p) \ S
<1>1. [state |-> to, order |-> o] # [state |-> state, order |-> p]
    BY SeatStatesDiffer
<1> QED
    BY <1>1 DEF SeatsIn, Reseat

LEMMA SeatsFreed ==
    ASSUME NEW S \in SUBSET Seats, seat' = Reseat(S, Available), NEW p, NEW state
    PROVE  SeatsIn(state, p)' = SeatsIn(state, p) \ S
<1>1. Available # [state |-> state, order |-> p]
    BY SeatStatesDiffer
<1> QED
    BY <1>1 DEF SeatsIn, Reseat

(* A step that touches neither the order nor its seats.                    *)
LEMMA SeatsKept ==
    ASSUME NEW o \in Orders, SeatsFit(o),
           SeatsIn("HELD", o)' = SeatsIn("HELD", o), SeatsIn("SOLD", o)' = SeatsIn("SOLD", o),
           status'[o] = "none" => status[o] = "none",
           tickets'[o] = tickets[o], items'[o] = items[o],
           (o \in Holding)' => o \in Holding
    PROVE  SeatsFit(o)'
BY DEF SeatsFit

LEMMA SeatsStep ==
    ASSUME TypeOK, Phases, SeatsFitAll, [Next]_vars
    PROVE  SeatsFitAll'
<1> SUFFICES ASSUME NEW p \in Orders PROVE SeatsFit(p)'
    BY DEF SeatsFitAll
<1>0. SeatsFit(p) /\ PhaseOK(p)
    BY DEF SeatsFitAll, Phases
<1> USE DEF TypeOK
<1>1. ASSUME NEW o \in Orders, CreateOrder(o)
      PROVE  SeatsFit(p)'
  <2>1. PICK cart \in Carts \ {EmptyCart}, S \in SUBSET Seats :
           CanSeat(cart, S) /\ items' = [items EXCEPT ![o] = cart] /\ HoldSeats(o, S)
      BY <1>1 DEF CreateOrder
  <2>2. /\ status[o] = "none" /\ status' = [status EXCEPT ![o] = "PENDING"]
        /\ tickets' = tickets
      BY <1>1 DEF CreateOrder
  <2>3. /\ SeatsIn("SOLD", p)' = SeatsIn("SOLD", p) \ S
        /\ p = o => SeatsIn("HELD", p)' = SeatsIn("HELD", p) \cup S
        /\ p # o => SeatsIn("HELD", p)' = SeatsIn("HELD", p) \ S
    <3>1. seat' = Reseat(S, [state |-> "HELD", order |-> o])
        BY <2>1 DEF HoldSeats
    <3>2. SeatsIn("SOLD", p)' = SeatsIn("SOLD", p) \ S
        BY <3>1, SeatsLeft
    <3>3. CASE p = o
      <4>1. SeatsIn("HELD", o)' = SeatsIn("HELD", o) \cup S
          BY <3>1, SeatsTaken
      <4> QED
          BY <3>2, <3>3, <4>1
    <3>4. CASE p # o
      <4>1. SeatsIn("HELD", p)' = SeatsIn("HELD", p) \ S
          BY <3>1, <3>4, SeatsLeft
      <4> QED
          BY <3>2, <3>4, <4>1
    <3> QED
        BY <3>3, <3>4
  <2>4. S \cap SeatsIn("SOLD", p) = {} /\ S \cap SeatsIn("HELD", p) = {}
    <3>1. \A s \in S : seat[s] = Available
        BY <2>1 DEF CanSeat
    <3> QED
        <4>1. \A s \in S : seat[s] # [state |-> "SOLD", order |-> p]
            BY <3>1, SeatStatesDiffer
        <4>2. \A s \in S : seat[s] # [state |-> "HELD", order |-> p]
            BY <3>1, SeatStatesDiffer
        <4> QED
            BY <4>1, <4>2 DEF SeatsIn
  <2>5. CASE p # o
      BY <1>0, <2>1, <2>2, <2>3, <2>4, <2>5, SeatsKept DEF Holding
  <2>6. CASE p = o
    <3>1. SeatsIn("HELD", p)' = S /\ tickets'[p] = "none" /\ SeatsIn("SOLD", p)' = {}
        BY <1>0, <2>2, <2>3, <2>4, <2>6 DEF SeatsFit, PhaseOK
    <3>2. items'[p] = cart
        BY <2>1, <2>6
    <3> QED
        BY <2>1, <2>2, <2>6, <3>1, <3>2 DEF SeatsFit, CanSeat
  <2> QED
      BY <2>5, <2>6
<1>2. ASSUME NEW o \in Orders, Issue(o), o \in Holding, tickets[o] = "none", items' = items,
             status' = status \/ status' = [status EXCEPT ![o] = "PAID"],
             status'[o] # "PENDING"
      PROVE  SeatsFit(p)'
  <2>1. /\ tickets' = [tickets EXCEPT ![o] = "live"]
        /\ seat' = Reseat(SeatsIn("HELD", o), [state |-> "SOLD", order |-> o])
      BY <1>2 DEF Issue, SellHeldSeats
  <2>0. SeatsIn("HELD", o) \in SUBSET Seats
      BY DEF SeatsIn
  <2>2. /\ SeatsIn("HELD", p)' = SeatsIn("HELD", p) \ SeatsIn("HELD", o)
        /\ p = o => SeatsIn("SOLD", p)' = SeatsIn("SOLD", p) \cup SeatsIn("HELD", o)
        /\ p # o => SeatsIn("SOLD", p)' = SeatsIn("SOLD", p) \ SeatsIn("HELD", o)
    <3>1. SeatsIn("HELD", p)' = SeatsIn("HELD", p) \ SeatsIn("HELD", o)
        BY <2>1, <2>0, SeatsLeft
    <3>2. CASE p = o
      <4>1. SeatsIn("SOLD", o)' = SeatsIn("SOLD", o) \cup SeatsIn("HELD", o)
          BY <2>1, <2>0, SeatsTaken
      <4> QED
          BY <3>1, <3>2, <4>1
    <3>3. CASE p # o
      <4>1. SeatsIn("SOLD", p)' = SeatsIn("SOLD", p) \ SeatsIn("HELD", o)
          BY <2>1, <2>0, <3>3, SeatsLeft
      <4> QED
          BY <3>1, <3>3, <4>1
    <3> QED
        BY <3>2, <3>3
  <2>3. p # o => SeatsIn("HELD", p) \cap SeatsIn("HELD", o) = {}
                 /\ SeatsIn("SOLD", p) \cap SeatsIn("HELD", o) = {}
      BY SeatsDisjoint
  <2>4. CASE p # o
    <3>1. (p \in Holding)' => p \in Holding
        BY <1>2, <2>1, <2>4 DEF Holding
    <3> QED
        BY <1>0, <1>2, <2>1, <2>2, <2>3, <2>4, <3>1, SeatsKept
  <2>5. CASE p = o
    <3>1. /\ SeatsIn("HELD", p)' = {} /\ SeatsIn("SOLD", p)' = SeatsIn("HELD", p)
          /\ tickets'[p] = "live"
        BY <1>0, <1>2, <2>1, <2>2, <2>5 DEF SeatsFit
    <3>2. (p \notin Holding)'
        BY <1>2, <2>5, <3>1 DEF Holding
    <3> QED
        BY <1>0, <1>2, <2>5, <3>1, <3>2 DEF SeatsFit
  <2> QED
      BY <2>4, <2>5
<1>3. ASSUME NEW o \in Orders, IssueAndReleaseHolds(o)
      PROVE  SeatsFit(p)'
  <2>1. /\ o \in Holding \/ tickets[o] # "none"
        /\ status[o] # "PENDING"
      BY <1>3 DEF IssueAndReleaseHolds, Phases, PhaseOK, Holding
  <2>2. items' = items /\ status' = status
      BY <1>3 DEF IssueAndReleaseHolds, requestVars
  <2>3. CASE tickets[o] = "none"
      BY <1>2, <1>3, <2>1, <2>2, <2>3 DEF IssueAndReleaseHolds
  <2>4. CASE tickets[o] # "none"
    <3>1. UNCHANGED <<tickets, seat>>
        BY <1>3, <2>4 DEF IssueAndReleaseHolds, stockVars
    <3> QED
        BY <1>0, <2>2, <3>1, SeatsKept DEF SeatsIn, Holding
  <2> QED
      BY <2>3, <2>4
<1>4. ASSUME NEW o \in Orders, ChargeSuccess(o)
      PROVE  SeatsFit(p)'
  <2>1. items' = items
      BY <1>4 DEF ChargeSuccess, requestVars
  <2>2. CASE status[o] = "PENDING"
    <3>1. o \in Holding /\ tickets[o] = "none"
        BY <2>2 DEF Holding, Phases, PhaseOK
    <3> QED
        BY <1>2, <1>4, <2>1, <2>2, <3>1 DEF ChargeSuccess
  <2>3. CASE status[o] # "PENDING"
    <3>1. UNCHANGED <<tickets, seat, status>>
        BY <1>4, <2>3 DEF ChargeSuccess, stockVars
    <3> QED
        BY <1>0, <2>1, <3>1, SeatsKept DEF SeatsIn, Holding
  <2> QED
      BY <2>2, <2>3
<1>5. ASSUME NEW o \in Orders, ReleaseRefused(o) \/ MarkPaid(o)
      PROVE  SeatsFit(p)'
  <2>1. /\ UNCHANGED <<items, tickets, seat>>
        /\ \/ status' = [status EXCEPT ![o] = "PAID"] /\ pc[o] = "pay"
           \/ status' = [status EXCEPT ![o] = "EXPIRED"] \/ status' = status
      BY <1>5 DEF ReleaseRefused, MarkPaid, requestVars, stockVars
  <2>2. pc[o] = "pay" => status[o] = "PENDING"
      BY DEF Phases, PhaseOK
  <2>3. (p \in Holding)' => p \in Holding
      BY <2>1, <2>2 DEF Holding
  <2>4. status'[p] = "none" => status[p] = "none"
      BY <2>1
  <2>5. SeatsIn("HELD", p)' = SeatsIn("HELD", p) /\ SeatsIn("SOLD", p)' = SeatsIn("SOLD", p)
      BY <2>1 DEF SeatsIn
  <2> QED
      BY <1>0, <2>1, <2>3, <2>4, <2>5, SeatsKept
<1>6. ASSUME NEW c \in Sweepers, NEW o \in Orders, ExpireCandidate(c, o)
      PROVE  SeatsFit(p)'
  <2>1. UNCHANGED <<items, tickets>>
      BY <1>6 DEF ExpireCandidate, requestVars
  <2>2. CASE status[o] = "PENDING" /\ o \in overdue
    <3>1. /\ status' = [status EXCEPT ![o] = "EXPIRED"]
          /\ seat' = Reseat(SeatsIn("HELD", o), Available)
        BY <1>6, <2>2 DEF ExpireCandidate, ReleaseSeatsForOrder
    <3>2. /\ SeatsIn("HELD", p)' = SeatsIn("HELD", p) \ SeatsIn("HELD", o)
          /\ SeatsIn("SOLD", p)' = SeatsIn("SOLD", p) \ SeatsIn("HELD", o)
      <4>1. SeatsIn("HELD", o) \in SUBSET Seats
          BY DEF SeatsIn
      <4> QED
          BY <3>1, <4>1, SeatsFreed
    <3>3. /\ SeatsIn("SOLD", p)' = SeatsIn("SOLD", p)
          /\ p # o => SeatsIn("HELD", p)' = SeatsIn("HELD", p)
      <4>1. /\ SeatsIn("SOLD", p) \cap SeatsIn("HELD", o) = {}
            /\ p # o => SeatsIn("HELD", p) \cap SeatsIn("HELD", o) = {}
          BY SeatsDisjoint
      <4> QED
          BY <3>2, <4>1
    <3>4. (o \notin Holding)'
        BY <3>1 DEF Holding
    <3>5. p # o => ((p \in Holding)' => p \in Holding)
        BY <2>1, <3>1 DEF Holding
    <3>6. status'[p] = "none" => status[p] = "none" /\ p # o
        BY <3>1
    <3> QED
        BY <1>0, <2>1, <3>3, <3>4, <3>5, <3>6 DEF SeatsFit
  <2>3. CASE ~(status[o] = "PENDING" /\ o \in overdue)
    <3>1. UNCHANGED <<seat, status>>
        BY <1>6, <2>3 DEF ExpireCandidate
    <3> QED
        BY <1>0, <2>1, <3>1, SeatsKept DEF SeatsIn, Holding
  <2> QED
      BY <2>2, <2>3
<1>7. ASSUME NEW o \in Orders, FinaliseRefund(o)
      PROVE  SeatsFit(p)'
  <2>1. /\ status[o] = "PAID" /\ status' = [status EXCEPT ![o] = "REFUNDED"]
        /\ tickets' = [tickets EXCEPT ![o] = IF @ = "live" THEN "voided" ELSE @]
        /\ seat' = Reseat(SeatsIn("SOLD", o), Available)
        /\ items' = items
      BY <1>7 DEF FinaliseRefund, VoidSeatsForOrder, requestVars
  <2>2. /\ SeatsIn("HELD", p)' = SeatsIn("HELD", p) \ SeatsIn("SOLD", o)
        /\ SeatsIn("SOLD", p)' = SeatsIn("SOLD", p) \ SeatsIn("SOLD", o)
    <3>1. SeatsIn("SOLD", o) \in SUBSET Seats
        BY DEF SeatsIn
    <3> QED
        BY <2>1, <3>1, SeatsFreed
  <2>3. /\ SeatsIn("HELD", p)' = SeatsIn("HELD", p)
        /\ p # o => SeatsIn("SOLD", p)' = SeatsIn("SOLD", p)
        /\ p = o => SeatsIn("SOLD", p)' = {}
    <3>1. /\ SeatsIn("HELD", p) \cap SeatsIn("SOLD", o) = {}
          /\ p # o => SeatsIn("SOLD", p) \cap SeatsIn("SOLD", o) = {}
        BY SeatsDisjoint
    <3> QED
        BY <2>2, <3>1
  <2>4. (p \in Holding)' => p \in Holding
      BY <2>1 DEF Holding
  <2>5. CASE p # o
      BY <1>0, <2>1, <2>3, <2>4, <2>5, SeatsKept
  <2>6. CASE p = o
      BY <1>0, <2>1, <2>3, <2>4, <2>6 DEF SeatsFit
  <2> QED
      BY <2>5, <2>6
<1>8. CASE UNCHANGED <<status, items, tickets, seat>>
    BY <1>0, <1>8, SeatsKept DEF SeatsIn, Holding
<1>9. \/ UNCHANGED <<status, items, tickets, seat>>
      \/ \E o \in Orders : \/ CreateOrder(o) \/ ReleaseRefused(o) \/ MarkPaid(o)
                           \/ IssueAndReleaseHolds(o) \/ FinaliseRefund(o) \/ ChargeSuccess(o)
      \/ \E c \in Sweepers, o \in Orders : ExpireCandidate(c, o)
    BY DEF Next, HandlerStep, InitializePayment, ChargeAccount, RejectCharge, RefuseDebit,
           CutShort, BuyerPays, Lapse, StartSweep, AbandonSweep, vars, requestVars, stockVars
<1> QED
    BY <1>1, <1>3, <1>4, <1>5, <1>6, <1>7, <1>8, <1>9

-------------------------------------------------------------------------------
LEMMA InitIInv == Init => IInv
<1> SUFFICES ASSUME Init
             PROVE  IInv
    OBVIOUS
<1>1. TypeOK
    BY TypeInit
<1>2. ASSUME NEW o \in Orders
      PROVE  PhaseOK(o)
    BY <1>1 DEF Init, PhaseOK, TypeOK
<1>3. Holding = {} /\ Issued = {} /\ Refunded = {}
    BY DEF Init, Holding, Issued, Refunded
<1>4. \A t \in TicketTypes : held[t] = 0 /\ sold[t] = 0 /\ Capacity[t] \in Nat
    BY CartsAssumption DEF Init
<1>5. \A t \in TicketTypes : Demand(items, {}, t) = 0
    BY DemandEmpty
<1>6. CountersExact
    BY <1>3, <1>4, <1>5 DEF CountersExact
<1>7. ClaimsWithinCapacity
    BY <1>4 DEF ClaimsWithinCapacity
<1>8. ASSUME NEW o \in Orders
      PROVE  SeatsFit(o)
  <2>1. SeatsIn("HELD", o) = {} /\ SeatsIn("SOLD", o) = {}
      BY SeatStatesDiffer DEF Init, SeatsIn
  <2> QED
      BY <1>3, <2>1 DEF Init, SeatsFit
<1> QED
    BY <1>1, <1>2, <1>6, <1>7, <1>8 DEF IInv

LEMMA StepIInv ==
    ASSUME OnTime, IInv, [Next]_vars
    PROVE  IInv'
<1>1. TypeOK /\ Phases /\ Counts /\ SeatsFitAll
    BY DEF IInv, Phases, Counts, SeatsFitAll
<1>2. TypeOK'
    BY <1>1, TypeStep
<1>3. Phases'
    BY <1>1, PhaseStep
<1>4. Counts'
    BY <1>1, <1>2, CountsStep
<1>5. SeatsFitAll'
    BY <1>1, SeatsStep
<1> QED
    BY <1>2, <1>3, <1>4, <1>5 DEF IInv, Phases, Counts, SeatsFitAll

(* If the paths that write blindly are done in time, every reachable state *)
(* satisfies the inductive invariant.                                      *)
THEOREM Inductive ==
    ASSUME OnTime
    PROVE  Spec => []IInv
<1>1. Init => IInv
    BY InitIInv
<1>2. IInv /\ [Next]_vars => IInv'
    BY StepIInv
<1> QED
    BY <1>1, <1>2, PTL DEF Spec

(* The held and sold counters always equal what the orders add up to.      *)
THEOREM CountersAreExact ==
    ASSUME OnTime
    PROVE  Spec => []CountersExact
<1>1. IInv => CountersExact
    BY DEF IInv
<1> QED
    BY <1>1, Inductive, PTL

(* A seat is sold with its ticket, and given back with its hold.           *)
THEOREM SeatsAlwaysFollow ==
    ASSUME OnTime
    PROVE  Spec => []SeatsFollowTickets
<1>1. IInv => SeatsFollowTickets
    <2> SUFFICES ASSUME IInv, NEW o \in Orders, NEW t \in Seated
                 PROVE  /\ Cardinality(SeatsIn("SOLD", o) \cap SeatsOf[t])
                             = (IF tickets[o] = "live" THEN items[o][t] ELSE 0)
                        /\ o \in Holding =>
                             Cardinality(SeatsIn("HELD", o) \cap SeatsOf[t]) = items[o][t]
        BY DEF SeatsFollowTickets
    <2>1. SeatsFit(o)
        BY DEF IInv
    <2>2. Cardinality({}) = 0
        BY FS_EmptySet
    <2> QED
        BY <2>1, <2>2 DEF SeatsFit
<1> QED
    BY <1>1, Inductive, PTL

-------------------------------------------------------------------------------
(* What follows from the invariant.                                        *)

Valid == {o \in Orders : tickets[o] = "live" /\ status[o] # "REFUNDED"}

(* Valid tickets take up what sold counts, and what the refunds of orders  *)
(* without tickets took off it too early, which held still counts.         *)
LEMMA ValidDemand ==
    ASSUME IInv, NEW t \in TicketTypes
    PROVE  Demand(items, Valid, t) = sold[t] + Demand(items, Holding \cap Refunded, t)
<1> DEFINE B == Issued \cap Refunded
           E == Holding \cap Refunded
<1>1. items \in [Orders -> Carts] /\ Phases
    BY DEF IInv, TypeOK, Phases
<1>2. Valid = Issued \ B
    BY <1>1 DEF Valid, Issued, Refunded, Phases, PhaseOK, IInv, TypeOK
<1>3. Refunded \ B = E
    BY DEF Holding, Issued, Refunded
<1>4. Issued \in SUBSET Orders /\ Refunded \in SUBSET Orders
    BY SetTypes
<1>5. B \in SUBSET Issued /\ B \in SUBSET Refunded
    OBVIOUS
<1> HIDE DEF B, E
<1>6. Demand(items, Issued \ B, t) = Demand(items, Issued, t) - Demand(items, B, t)
    BY <1>1, <1>4, <1>5, DemandSplit
<1>7. Demand(items, Refunded \ B, t) = Demand(items, Refunded, t) - Demand(items, B, t)
    BY <1>1, <1>4, <1>5, DemandSplit
<1>8. sold[t] = Demand(items, Issued, t) - Demand(items, Refunded, t)
    BY DEF IInv, CountersExact
<1>9. /\ Demand(items, Issued, t) \in Nat
      /\ Demand(items, Refunded, t) \in Nat
      /\ Demand(items, B, t) \in Nat
  <2>1. B \in SUBSET Orders
      BY <1>4, <1>5
  <2> QED
      BY <1>1, <1>4, <2>1, UnitsFinite
<1>10. /\ Demand(items, Valid, t) = Demand(items, Issued, t) - Demand(items, B, t)
       /\ Demand(items, E, t) = Demand(items, Refunded, t) - Demand(items, B, t)
    BY <1>2, <1>3, <1>6, <1>7, Zenon
<1>11. Demand(items, Valid, t) = sold[t] + Demand(items, E, t)
    BY <1>8, <1>9, <1>10
<1> QED
    BY <1>11 DEF E

(* The live tickets of orders that were not refunded fit in the capacity.  *)
THEOREM ValidTicketsAlwaysFit ==
    ASSUME OnTime
    PROVE  Spec => []ValidTicketsFit
<1>1. ASSUME IInv, NEW t \in TicketTypes
      PROVE  Demand(items, Valid, t) <= Capacity[t]
  <2>1. items \in [Orders -> Carts] /\ held[t] \in Int /\ sold[t] \in Int /\ Capacity[t] \in Nat
      BY <1>1, CartsAssumption DEF IInv, TypeOK
  <2>2. Holding \in SUBSET Orders /\ Holding \cap Refunded \in SUBSET Holding
      BY SetTypes
  <2>3. Demand(items, Holding \cap Refunded, t) <= Demand(items, Holding, t)
      BY <2>1, <2>2, DemandSplit
  <2>4. held[t] = Demand(items, Holding, t) /\ held[t] + sold[t] <= Capacity[t]
      BY <1>1 DEF IInv, CountersExact, ClaimsWithinCapacity
  <2>5. Demand(items, Holding \cap Refunded, t) \in Nat
    <3>1. Holding \cap Refunded \in SUBSET Orders
        BY SetTypes
    <3> QED
        BY <2>1, <3>1, UnitsFinite
  <2>6. Demand(items, Valid, t) = sold[t] + Demand(items, Holding \cap Refunded, t)
      BY <1>1, ValidDemand
  <2> QED
      BY <2>1, <2>3, <2>4, <2>5, <2>6
<1>2. IInv => ValidTicketsFit
    BY <1>1 DEF ValidTicketsFit, Valid
<1> QED
    BY <1>2, Inductive, PTL

(* An order is settled once, by whichever handler comes first.             *)
THEOREM OrdersSettleOnce ==
    ASSUME OnTime
    PROVE  Spec => SettledOnce
<1> DEFINE Settles == \A o \in Orders :
              /\ status[o] \in {"EXPIRED", "REFUNDED"} => status'[o] = status[o]
              /\ status[o] = "PAID" => status'[o] \in {"PAID", "REFUNDED"}
<1>1. ASSUME IInv, [Next]_vars
      PROVE  [Settles]_vars
  <2> SUFFICES ASSUME NEW p \in Orders
               PROVE  /\ status[p] \in {"EXPIRED", "REFUNDED"} => status'[p] = status[p]
                      /\ status[p] = "PAID" => status'[p] \in {"PAID", "REFUNDED"}
      OBVIOUS
  <2>1. TypeOK /\ \A o \in Orders : PhaseOK(o)
      BY <1>1 DEF IInv
  <2>2. ASSUME NEW o \in Orders, status' = status \/ ~(status[o] \in {"PAID", "EXPIRED", "REFUNDED"})
                                 \/ (status[o] = "PAID" /\ status'[o] = "REFUNDED"),
               \E v : status' = [status EXCEPT ![o] = v]
        PROVE  /\ status[p] \in {"EXPIRED", "REFUNDED"} => status'[p] = status[p]
               /\ status[p] = "PAID" => status'[p] \in {"PAID", "REFUNDED"}
      BY <2>1, <2>2 DEF TypeOK
  <2>3. ASSUME NEW o \in Orders, CreateOrder(o) \/ ReleaseRefused(o) \/ MarkPaid(o)
        PROVE  status[o] \in {"none", "PENDING"} /\ \E v : status' = [status EXCEPT ![o] = v]
      BY <2>1, <2>3 DEF CreateOrder, ReleaseRefused, MarkPaid, PhaseOK, TypeOK
  <2>4. ASSUME NEW o \in Orders, FinaliseRefund(o)
        PROVE  status[o] = "PAID" /\ status'[o] = "REFUNDED"
               /\ \E v : status' = [status EXCEPT ![o] = v]
      BY <2>1, <2>4 DEF FinaliseRefund, TypeOK
  <2>5. ASSUME NEW o \in Orders, ChargeSuccess(o), status' # status
        PROVE  status[o] = "PENDING" /\ \E v : status' = [status EXCEPT ![o] = v]
      BY <2>5 DEF ChargeSuccess
  <2>6. ASSUME NEW c \in Sweepers, NEW o \in Orders, ExpireCandidate(c, o), status' # status
        PROVE  status[o] = "PENDING" /\ \E v : status' = [status EXCEPT ![o] = v]
      BY <2>6 DEF ExpireCandidate
  <2>7. CASE status' = status
      BY <2>7
  <2>8. ASSUME status' # status
        PROVE  \/ \E o \in Orders : \/ CreateOrder(o) \/ ReleaseRefused(o) \/ MarkPaid(o)
                                    \/ FinaliseRefund(o) \/ ChargeSuccess(o)
               \/ \E c \in Sweepers, o \in Orders : ExpireCandidate(c, o)
      BY <1>1, <2>8 DEF Next, HandlerStep, InitializePayment, ChargeAccount, RejectCharge,
            RefuseDebit, IssueAndReleaseHolds, CutShort, BuyerPays, Lapse, StartSweep,
            AbandonSweep, vars
  <2> QED
      BY <2>2, <2>3, <2>4, <2>5, <2>6, <2>7, <2>8
<1>2. Spec => [][Settles]_vars
    BY <1>1, Inductive, PTL DEF Spec
<1> QED
    BY <1>2 DEF SettledOnce

-------------------------------------------------------------------------------
(* Checkout implements Inventory.                                          *)

ClaimOf(o) ==
    CASE status[o] = "none" -> "none"
      [] status[o] \in {"EXPIRED", "REFUNDED"} -> "released"
      [] status[o] \in {"PENDING", "PAID"} ->
            IF tickets[o] = "live" THEN "sold" ELSE "reserved"

(* The stock the abstract claims occupy is what the two counters add up to.*)
LEMMA OccupyingDemand ==
    ASSUME IInv, NEW t \in TicketTypes
    PROVE  Stock!Demand(items, Stock!Occupying, t) = held[t] + sold[t]
<1> DEFINE E == Holding \cap Refunded
<1>1. items \in [Orders -> Carts] /\ Holding \in SUBSET Orders /\ Refunded \in SUBSET Orders
    BY SetTypes DEF IInv, TypeOK
<1>2. Stock!Occupying = Valid \cup (Holding \ E)
  <2> SUFFICES ASSUME NEW o \in Orders
               PROVE  Claim[o] \in {"reserved", "sold"} <=> o \in Valid \cup (Holding \ E)
      BY DEF Stock!Occupying, Valid, Holding
  <2>1. PhaseOK(o) /\ status[o] \in Statuses /\ tickets[o] \in {"none", "live", "voided"}
      BY DEF IInv, TypeOK
  <2>2. Claim[o] = ClaimOf(o)
      BY DEF Claim, ClaimOf
  <2> QED
      BY <2>1, <2>2 DEF ClaimOf, PhaseOK, Statuses, Valid, Holding, Refunded
<1>3. Valid \cap (Holding \ E) = {}
    BY DEF Valid, Holding, Refunded, IInv, PhaseOK
<1>4. Valid \in SUBSET Orders /\ Holding \ E \in SUBSET Orders /\ E \in SUBSET Holding
    BY <1>1 DEF Valid
<1>5. Demand(items, Valid, t) = sold[t] + Demand(items, E, t)
    BY ValidDemand
<1> HIDE DEF E
<1>6. Demand(items, Valid \cup (Holding \ E), t)
        = Demand(items, Valid, t) + Demand(items, Holding \ E, t)
    BY <1>1, <1>3, <1>4, DemandUnion
<1>7. Demand(items, Holding \ E, t) = Demand(items, Holding, t) - Demand(items, E, t)
    BY <1>1, <1>4, DemandSplit
<1>8. held[t] = Demand(items, Holding, t)
    BY DEF IInv, CountersExact
<1>9. Demand(items, E, t) \in Nat /\ held[t] \in Int /\ sold[t] \in Int
  <2>1. E \in SUBSET Orders
      BY <1>1, <1>4
  <2> QED
      BY <1>1, <2>1, UnitsFinite DEF IInv, TypeOK
<1>10. Demand(items, Valid \cup (Holding \ E), t) = held[t] + sold[t]
    BY <1>5, <1>6, <1>7, <1>8, <1>9
<1>11. Stock!Demand(items, Stock!Occupying, t) = Demand(items, Stock!Occupying, t)
    BY DEF Stock!Demand, Stock!Units, Demand, Units, Stock!Cardinality, Cardinality, Stock!IsFiniteSet, IsFiniteSet
<1> QED
    BY <1>2, <1>10, <1>11, Zenon

(* A step that leaves statuses and issued tickets alone is a stutter.      *)
LEMMA ClaimKept ==
    ASSUME UNCHANGED <<status, items, tickets>>
    PROVE  UNCHANGED Stock!vars
BY DEF Stock!vars, Claim

(* A step that touches one order moves that order's claim only.            *)
LEMMA ClaimMoved ==
    ASSUME TypeOK, NEW o \in Orders,
           \A p \in Orders \ {o} : status'[p] = status[p] /\ tickets'[p] = tickets[p]
    PROVE  Claim' = [Claim EXCEPT ![o] = ClaimOf(o)'] /\ Claim[o] = ClaimOf(o)
<1>1. Claim = [p \in Orders |-> ClaimOf(p)]
    BY DEF Claim, ClaimOf
<1>2. Claim' = [p \in Orders |-> ClaimOf(p)']
    BY DEF Claim, ClaimOf
<1>3. \A p \in Orders \ {o} : ClaimOf(p)' = ClaimOf(p)
    BY DEF ClaimOf
<1> QED
    BY <1>1, <1>2, <1>3

LEMMA RefinementStep ==
    ASSUME IInv, [Next]_vars
    PROVE  [Stock!Next]_(Stock!vars)
<1>0. TypeOK /\ \A o \in Orders : PhaseOK(o)
    BY DEF IInv
<1>1. ASSUME NEW o \in Orders, CreateOrder(o)
      PROVE  Stock!Reserve(o)
  <2>1. PICK cart \in Carts :
             /\ \A t \in TicketTypes : sold[t] + held[t] + cart[t] <= Capacity[t]
             /\ items' = [items EXCEPT ![o] = cart]
      BY <1>1 DEF CreateOrder
  <2>2. /\ status[o] = "none" /\ status' = [status EXCEPT ![o] = "PENDING"]
        /\ tickets' = tickets /\ tickets[o] = "none"
      BY <1>0, <1>1 DEF CreateOrder, PhaseOK
  <2>3. Claim[o] = "none" /\ Claim' = [Claim EXCEPT ![o] = "reserved"]
    <3>1. \A p \in Orders \ {o} : status'[p] = status[p] /\ tickets'[p] = tickets[p]
        BY <1>0, <2>2 DEF TypeOK
    <3>2. ClaimOf(o) = "none" /\ ClaimOf(o)' = "reserved"
        BY <1>0, <2>2 DEF ClaimOf, TypeOK
    <3> QED
        BY <1>0, <3>1, <3>2, ClaimMoved
  <2>4. \A t \in TicketTypes :
           Stock!Demand(items, Stock!Occupying, t) + cart[t] <= Capacity[t]
    <3> SUFFICES ASSUME NEW t \in TicketTypes
                 PROVE  Stock!Demand(items, Stock!Occupying, t) + cart[t] <= Capacity[t]
        OBVIOUS
    <3>1. Stock!Demand(items, Stock!Occupying, t) = held[t] + sold[t]
        BY OccupyingDemand
    <3>2. /\ sold[t] + held[t] + cart[t] <= Capacity[t]
          /\ sold[t] \in Int /\ held[t] \in Int /\ cart[t] \in Int /\ Capacity[t] \in Int
        BY <1>0, <2>1, CartsAssumption DEF TypeOK, Carts
    <3> QED
        BY <3>1, <3>2
  <2>5. cart \in Stock!Carts
      BY DEF Stock!Carts, Carts
  <2> QED
      BY <2>1, <2>3, <2>4, <2>5 DEF Stock!Reserve
<1>2. ASSUME NEW o \in Orders, status[o] = "PENDING", tickets' = tickets, items' = items,
             status' = [status EXCEPT ![o] = "EXPIRED"]
      PROVE  Stock!Release(o)
  <2>1. \A p \in Orders \ {o} : status'[p] = status[p] /\ tickets'[p] = tickets[p]
      BY <1>0, <1>2 DEF TypeOK
  <2>2. ClaimOf(o) = "reserved" /\ ClaimOf(o)' = "released"
      BY <1>0, <1>2 DEF ClaimOf, TypeOK, PhaseOK
  <2> QED
      BY <1>0, <1>2, <2>1, <2>2, ClaimMoved DEF Stock!Release
<1>3. ASSUME NEW o \in Orders, FinaliseRefund(o)
      PROVE  Stock!Release(o)
  <2>1. \A p \in Orders \ {o} : status'[p] = status[p] /\ tickets'[p] = tickets[p]
      BY <1>0, <1>3 DEF FinaliseRefund, TypeOK
  <2>2. ClaimOf(o) \in {"reserved", "sold"} /\ ClaimOf(o)' = "released"
      BY <1>0, <1>3 DEF FinaliseRefund, ClaimOf, TypeOK, PhaseOK
  <2>3. items' = items
      BY <1>3 DEF FinaliseRefund, requestVars
  <2> QED
      BY <1>0, <2>1, <2>2, <2>3, ClaimMoved DEF Stock!Release
<1>4. ASSUME NEW o \in Orders, ChargeSuccess(o), status[o] = "PENDING"
      PROVE  Stock!Sell(o)
  <2>1. /\ status' = [status EXCEPT ![o] = "PAID"]
        /\ tickets' = [tickets EXCEPT ![o] = "live"]
        /\ items' = items
      BY <1>4 DEF ChargeSuccess, Issue, requestVars
  <2>2. \A p \in Orders \ {o} : status'[p] = status[p] /\ tickets'[p] = tickets[p]
      BY <1>0, <2>1 DEF TypeOK
  <2>3. ClaimOf(o) = "reserved" /\ ClaimOf(o)' = "sold"
      BY <1>0, <1>4, <2>1 DEF ClaimOf, TypeOK, PhaseOK
  <2> QED
      BY <1>0, <2>1, <2>2, <2>3, ClaimMoved DEF Stock!Sell
<1>5. ASSUME NEW o \in Orders, MarkPaid(o)
      PROVE  UNCHANGED Stock!vars
  <2>1. /\ status[o] = "PENDING" \/ channel[o] = "paystack"
        /\ channel[o] # "paystack" /\ tickets[o] = "none"
        /\ status' = [status EXCEPT ![o] = "PAID"]
        /\ tickets' = tickets /\ items' = items
      BY <1>0, <1>5 DEF MarkPaid, PhaseOK, requestVars, stockVars
  <2>2. \A p \in Orders \ {o} : status'[p] = status[p] /\ tickets'[p] = tickets[p]
      BY <1>0, <2>1 DEF TypeOK
  <2>3. ClaimOf(o)' = ClaimOf(o)
      BY <1>0, <2>1 DEF ClaimOf, TypeOK
  <2>4. Claim' = [Claim EXCEPT ![o] = Claim[o]]
      BY <1>0, <2>2, <2>3, ClaimMoved
  <2>5. Claim' = Claim
      BY <2>4 DEF Claim
  <2> QED
      BY <2>1, <2>5 DEF Stock!vars
<1>6. ASSUME NEW o \in Orders, IssueAndReleaseHolds(o)
      PROVE  Stock!Sell(o) \/ UNCHANGED Stock!vars
  <2>1. /\ status[o] \in {"PAID", "REFUNDED"} /\ tickets[o] = "none"
        /\ status' = status /\ items' = items
        /\ tickets' = [tickets EXCEPT ![o] = "live"]
      BY <1>0, <1>6 DEF IssueAndReleaseHolds, Issue, PhaseOK, requestVars
  <2>2. \A p \in Orders \ {o} : status'[p] = status[p] /\ tickets'[p] = tickets[p]
      BY <1>0, <2>1 DEF TypeOK
  <2>3. CASE status[o] = "PAID"
    <3>1. ClaimOf(o) = "reserved" /\ ClaimOf(o)' = "sold"
        BY <1>0, <2>1, <2>3 DEF ClaimOf, TypeOK
    <3> QED
        BY <1>0, <2>1, <2>2, <3>1, ClaimMoved DEF Stock!Sell
  <2>4. CASE status[o] = "REFUNDED"
    <3>1. ClaimOf(o)' = ClaimOf(o)
        BY <2>1, <2>4 DEF ClaimOf
    <3>2. Claim' = [Claim EXCEPT ![o] = Claim[o]]
        BY <1>0, <2>2, <3>1, ClaimMoved
    <3>3. Claim' = Claim
        BY <3>2 DEF Claim
    <3> QED
        BY <2>1, <3>3 DEF Stock!vars
  <2> QED
      BY <2>1, <2>3, <2>4
<1>7. ASSUME NEW o \in Orders, ReleaseRefused(o)
      PROVE  Stock!Release(o)
  <2>1. /\ status[o] = "PENDING" /\ status' = [status EXCEPT ![o] = "EXPIRED"]
        /\ tickets' = tickets /\ items' = items
      BY <1>0, <1>7 DEF ReleaseRefused, PhaseOK, requestVars, TypeOK
  <2> QED
      BY <1>2, <2>1
<1>8. ASSUME NEW c \in Sweepers, NEW o \in Orders, ExpireCandidate(c, o)
      PROVE  Stock!Release(o) \/ UNCHANGED Stock!vars
  <2>1. items' = items /\ tickets' = tickets
      BY <1>8 DEF ExpireCandidate, requestVars
  <2>2. CASE status[o] = "PENDING" /\ o \in overdue
      BY <1>2, <1>8, <2>1, <2>2 DEF ExpireCandidate
  <2>3. CASE ~(status[o] = "PENDING" /\ o \in overdue)
      BY <1>8, <2>1, <2>3, ClaimKept DEF ExpireCandidate
  <2> QED
      BY <2>2, <2>3
<1>9. ASSUME NEW o \in Orders, ChargeSuccess(o), status[o] # "PENDING"
      PROVE  UNCHANGED Stock!vars
    BY <1>9, ClaimKept DEF ChargeSuccess, requestVars, stockVars
<1>10. ASSUME NEW o \in Orders,
             \/ InitializePayment(o) \/ ChargeAccount(o) \/ RejectCharge(o)
             \/ RefuseDebit(o) \/ CutShort(o) \/ BuyerPays(o) \/ Lapse(o)
       PROVE  UNCHANGED Stock!vars
  <2>1. UNCHANGED <<status, items, tickets>>
      BY <1>10 DEF InitializePayment, ChargeAccount, RejectCharge, RefuseDebit,
                   CutShort, BuyerPays, Lapse, requestVars, stockVars
  <2> QED
      BY <2>1, ClaimKept
<1>11. ASSUME NEW c \in Sweepers, StartSweep(c) \/ AbandonSweep(c)
       PROVE  UNCHANGED Stock!vars
  <2>1. UNCHANGED <<status, items, tickets>>
      BY <1>11 DEF StartSweep, AbandonSweep, requestVars, stockVars
  <2> QED
      BY <2>1, ClaimKept
<1>12. CASE UNCHANGED vars
    BY <1>12, ClaimKept DEF vars
<1>13. ASSUME Next
       PROVE  Stock!Next \/ UNCHANGED Stock!vars
    BY <1>1, <1>3, <1>4, <1>5, <1>6, <1>7, <1>8, <1>9, <1>10, <1>11, <1>13
       DEF Next, HandlerStep, Stock!Next
<1> QED
    BY <1>12, <1>13

(* Every behaviour of checkout, seen through Claim, is one of Inventory:   *)
(* carts are reserved only if they fit, sold only if reserved, given back  *)
(* only once.                                                              *)
THEOREM CheckoutImplementsInventory ==
    ASSUME OnTime
    PROVE  Spec => ImplementsInventory
<1>1. Init => Stock!Init
    BY DEF Init, Stock!Init, Claim, EmptyCart, Stock!EmptyCart
<1>2. IInv /\ [Next]_vars => [Stock!Next]_(Stock!vars)
    BY RefinementStep
<1> QED
    BY <1>1, <1>2, Inductive, PTL DEF Spec, ImplementsInventory, Stock!Spec
===============================================================================
