-------------------------------- MODULE SeatMaps --------------------------------
(***************************************************************************)
(* The seat map of a ticket type while it is edited and sold from:         *)
(* SeatingService.setSeatMap against buyers who hold, pay for and give up  *)
(* seats.  A map is edited by deleting every Seat row and creating new     *)
(* ones, so a seat is the edit that made it and its label.  Checkout has   *)
(* the rest of an order's life, over a map that stays as it is.            *)
(***************************************************************************)
EXTENDS Requests

CONSTANTS
    Editors,        \* POST seat-map requests
    Buyers,         \* orders for one ticket of this type
    Labels,         \* names of seats: row and label
    SeatCapacity,   \* TicketType.capacity
    NoSeat          \* a buyer who chose no seat

Seats == Editors \X Labels

ASSUME SeatMapsAssumption ==
    /\ IsFiniteSet(Labels) /\ IsFiniteSet(Editors)
    /\ Editors \cup Buyers \subseteq Calls
    /\ Editors \cap Buyers = {}
    /\ SeatCapacity \in Nat \ {0}
    /\ NoSeat \notin Seats

VARIABLES
    seatRow,        \* the Seat rows: gone, AVAILABLE, or a buyer's
    chosen,         \* chosen[o]: the seat o clicked on in a list of seats
    ticket,         \* Order.status of o
    doomed          \* doomed[e]: the rows that e's deleteMany locked

seatVars == <<seatRow, chosen, ticket, doomed>>

Gone == [state |-> "gone"]
Free == [state |-> "AVAILABLE"]
Taken(state, o) == [state |-> state, order |-> o]

Present == {s \in Seats : seatRow[s] # Gone}
SeatsOf(state, o) == {s \in Seats : seatRow[s] = Taken(state, o)}
Layouts == {L \in SUBSET Labels : Cardinality(L) = SeatCapacity}

SeatMapsTypeOK ==
    /\ seatRow \in [Seats -> {Gone, Free} \cup [state : {"HELD", "SOLD"}, order : Buyers]]
    /\ chosen \in [Buyers -> Seats \cup {NoSeat}]
    /\ ticket \in [Buyers -> {"none", "PENDING", "PAID", "EXPIRED", "REFUNDED"}]
    /\ doomed \in [Editors -> SUBSET Seats]
    /\ \A c \in Editors \cup Buyers : pc[c] \in {"idle", "delete", "create"} \cup Ended

SeatMapsInit ==
    /\ seatRow = [s \in Seats |-> Gone]
    /\ chosen = [o \in Buyers |-> NoSeat]
    /\ ticket = [o \in Buyers |-> "none"]
    /\ doomed = [e \in Editors |-> {}]

(* seatRow with every row of S set to v.                                   *)
Reseat(S, v) == seatRow' = [s \in Seats |-> IF s \in S THEN v ELSE seatRow[s]]

-------------------------------------------------------------------------------
(* setSeatMap.                                                             *)

(* Faulty variant: seats that are held may be replaced.                    *)
ReshapableUnlessSold == \A s \in Present : seatRow[s].state # "SOLD"

Reshapable == \A s \in Present : seatRow[s] = Free

ReadSeats(e) ==
    /\ Begin(e, IF Reshapable THEN "delete" ELSE "refused")
    /\ UNCHANGED seatVars

(* deleteMany: the rows of its snapshot are locked until the commit.       *)
DeleteSeats(e) ==
    /\ pc[e] = "delete"
    /\ doomed' = [doomed EXCEPT ![e] = Present]
    /\ Goto(e, "create")
    /\ UNCHANGED <<seatRow, chosen, ticket>>

(* Faulty variant: the old rows are kept.                                  *)
KeptBesides(e) == Present

(* Rows that another edit created since are not in the snapshot.           *)
Kept(e) == Present \ doomed[e]

(* createMany and the commit, which the unique key on ticket type, row and *)
(* label refuses when a kept row has a label of the new map.               *)
CreateSeats(e) ==
    /\ pc[e] = "create"
    /\ \E L \in Layouts :
        IF \E s \in Kept(e) : s[2] \in L
        THEN Goto(e, "refused") /\ UNCHANGED seatRow
        ELSE /\ Goto(e, "done")
             /\ seatRow' = [s \in Seats |->
                    CASE s \in {e} \X L -> Free
                      [] s \in Kept(e) \ ({e} \X L) -> seatRow[s]
                      [] OTHER -> Gone]
    /\ doomed' = [doomed EXCEPT ![e] = {}]
    /\ UNCHANGED <<chosen, ticket>>

EditCutShort(e) ==
    /\ CutShort(e)
    /\ doomed' = [doomed EXCEPT ![e] = {}]
    /\ UNCHANGED <<seatRow, chosen, ticket>>

-------------------------------------------------------------------------------
(* The seat picker lists the seats and the buyer clicks on a free one; the *)
(* map may change before the order is sent.                                *)
ChooseSeat(o) ==
    /\ pc[o] = "idle"
    /\ \E s \in Present : seatRow[s] = Free /\ chosen' = [chosen EXCEPT ![o] = s]
    /\ UNCHANGED <<requestVars, seatRow, ticket, doomed>>

(* The row an edit has locked is gone by the time the hold gets at it.     *)
Locked(s) == \E e \in Editors : pc[e] = "create" /\ s \in doomed[e]

(* holdSeats in the order's transaction: AVAILABLE, by its id.             *)
HoldSeat(o) ==
    /\ chosen[o] # NoSeat
    /\ ~Locked(chosen[o])
    /\ IF seatRow[chosen[o]] = Free
       THEN /\ Begin(o, "done")
            /\ Reseat({chosen[o]}, Taken("HELD", o))
            /\ ticket' = [ticket EXCEPT ![o] = "PENDING"]
       ELSE Begin(o, "refused") /\ UNCHANGED <<seatRow, ticket>>
    /\ UNCHANGED <<chosen, doomed>>

(* sellHeldSeats: the seats that the order still holds.                    *)
SellSeats(o) ==
    /\ ticket[o] = "PENDING"
    /\ \A s \in SeatsOf("HELD", o) : ~Locked(s)
    /\ ticket' = [ticket EXCEPT ![o] = "PAID"]
    /\ Reseat(SeatsOf("HELD", o), Taken("SOLD", o))
    /\ UNCHANGED <<requestVars, chosen, doomed>>

(* releaseSeatsForOrder.                                                   *)
ReleaseSeats(o) ==
    /\ ticket[o] = "PENDING"
    /\ \A s \in SeatsOf("HELD", o) : ~Locked(s)
    /\ ticket' = [ticket EXCEPT ![o] = "EXPIRED"]
    /\ Reseat(SeatsOf("HELD", o), Free)
    /\ UNCHANGED <<requestVars, chosen, doomed>>

(* voidSeatsForOrder.                                                      *)
VoidSeats(o) ==
    /\ ticket[o] = "PAID"
    /\ \A s \in SeatsOf("SOLD", o) : ~Locked(s)
    /\ ticket' = [ticket EXCEPT ![o] = "REFUNDED"]
    /\ Reseat(SeatsOf("SOLD", o), Free)
    /\ UNCHANGED <<requestVars, chosen, doomed>>

SeatMapsNext ==
    \/ \E e \in Editors : ReadSeats(e) \/ DeleteSeats(e) \/ CreateSeats(e) \/ EditCutShort(e)
    \/ \E o \in Buyers : \/ ChooseSeat(o) \/ HoldSeat(o)
                         \/ SellSeats(o) \/ ReleaseSeats(o) \/ VoidSeats(o)

-------------------------------------------------------------------------------
(* Edits that do not overlap with anything leave exactly one map: as many  *)
(* rows as the ticket type has tickets.  Two edits at once may leave two.  *)
OneMap == overlapped \/ Cardinality(Present) \in {0, SeatCapacity}

(* An order keeps the seat that it chose until it expires or is refunded,  *)
(* whatever edits come after it, unless one of them had read the seats     *)
(* before the order came and deleted them after.                           *)
OrdersKeepSeats ==
    overlapped \/ \A o \in Buyers :
        /\ ticket[o] = "PENDING" => SeatsOf("HELD", o) = {chosen[o]}
        /\ ticket[o] = "PAID" => SeatsOf("SOLD", o) = {chosen[o]}

(* Both: edits that take turns leave one map, with the buyers' seats on it.*)
MapKept == OneMap /\ OrdersKeepSeats
================================================================================
