------------------------------- MODULE Bookings -------------------------------
(***************************************************************************)
(* Hotel and flight bookings: BookingsService.createHotelBooking and       *)
(* createFlightBooking, the payment at Paystack, and charge.success.       *)
(* A flight's seat is claimed before the booking exists and nothing gives  *)
(* it back.                                                                *)
(***************************************************************************)
EXTENDS Requests

CONSTANTS
    Guests,         \* requests to book a night at the hotel
    Passengers,     \* requests to book a seat on the flight
    Deliveries,     \* deliveries of charge.success; each draws its own PNR
    FlightCapacity, \* Flight.capacity
    NoPnr           \* null

Bookers == Guests \cup Passengers

ASSUME BookingsAssumption ==
    /\ IsFiniteSet(Passengers)
    /\ Bookers \cup Deliveries \subseteq Calls
    /\ Guests \cap Passengers = {} /\ Bookers \cap Deliveries = {}
    /\ FlightCapacity \in Nat
    /\ NoPnr \notin Deliveries

VARIABLES
    flightSold,     \* Flight.sold
    seated,         \* history: the requests whose claim of a seat succeeded
    booking,        \* HotelBooking.status or FlightBooking.status
    payment,        \* what Paystack did with the booking's reference
    pnr             \* FlightBooking.pnr: the delivery that drew it

bookingVars == <<flightSold, seated, booking, payment, pnr>>

BookingSteps == {"claim", "insert", "initialize"}

BookingsTypeOK ==
    /\ flightSold \in Nat
    /\ seated \subseteq Passengers
    /\ booking \in [Bookers -> {"none", "PENDING", "PAID"}]
    /\ payment \in [Bookers -> {"none", "open", "charged"}]
    /\ pnr \in [Bookers -> Deliveries \cup {NoPnr}]
    /\ \A c \in Bookers : pc[c] \in BookingSteps \cup Ended \cup {"idle"}

BookingsInit ==
    /\ flightSold = 0
    /\ seated = {}
    /\ booking = [b \in Bookers |-> "none"]
    /\ payment = [b \in Bookers |-> "none"]
    /\ pnr = [b \in Bookers |-> NoPnr]

-------------------------------------------------------------------------------
(* flight.findUnique and the first look at the seats.                      *)
ReadFlight(p) ==
    /\ Begin(p, IF flightSold < FlightCapacity THEN "claim" ELSE "refused")
    /\ UNCHANGED bookingVars

(* Faulty variant: the UPDATE trusts what was read.                        *)
SeatLeftAlways == TRUE

SeatLeft == flightSold < FlightCapacity

(* UPDATE "Flight" SET sold = sold + 1, committed on its own.              *)
ClaimFlightSeat(p) ==
    /\ pc[p] = "claim"
    /\ IF SeatLeft
       THEN /\ flightSold' = flightSold + 1
            /\ seated' = seated \cup {p}
            /\ Goto(p, "insert")
       ELSE /\ UNCHANGED <<flightSold, seated>>
            /\ Goto(p, "refused")
    /\ UNCHANGED <<booking, payment, pnr>>

InsertFlightBooking(p) ==
    /\ pc[p] = "insert"
    /\ booking' = [booking EXCEPT ![p] = "PENDING"]
    /\ Goto(p, "initialize")
    /\ UNCHANGED <<flightSold, seated, payment, pnr>>

(* A hotel has no rooms to count: the booking is made at once.             *)
CreateHotelBooking(g) ==
    /\ Begin(g, "initialize")
    /\ booking' = [booking EXCEPT ![g] = "PENDING"]
    /\ UNCHANGED <<flightSold, seated, payment, pnr>>

(* paystack.initialize: from here on the customer can pay.                 *)
InitializePayment(b) ==
    /\ pc[b] = "initialize"
    /\ payment' = [payment EXCEPT ![b] = "open"]
    /\ Goto(b, "done")
    /\ UNCHANGED <<flightSold, seated, booking, pnr>>

PayBooking(b) ==
    /\ payment[b] = "open"
    /\ payment' = [payment EXCEPT ![b] = "charged"]
    /\ UNCHANGED <<requestVars, flightSold, seated, booking, pnr>>

(* Faulty variant: the UPDATE does not ask for status PENDING.             *)
FinalisableAlways(b) == TRUE

Finalisable(b) == booking[b] = "PENDING"

(* finaliseByReference: one conditional UPDATE; a PNR for a flight.        *)
FinaliseBooking(d, b) ==
    /\ payment[b] = "charged"
    /\ Begin(d, "done")
    /\ IF Finalisable(b)
       THEN /\ booking' = [booking EXCEPT ![b] = "PAID"]
            /\ pnr' = IF b \in Passengers THEN [pnr EXCEPT ![b] = d] ELSE pnr
       ELSE UNCHANGED <<booking, pnr>>
    /\ UNCHANGED <<flightSold, seated, payment>>

(* Faulty variant: whoever fails gives a seat back, claimed or not.        *)
BookingCutShortGivesBack(b) ==
    /\ CutShort(b)
    /\ flightSold' = flightSold - 1
    /\ UNCHANGED <<seated, booking, payment, pnr>>

BookingCutShort(b) == CutShort(b) /\ UNCHANGED bookingVars

BookingsNext ==
    \/ \E p \in Passengers : ReadFlight(p) \/ ClaimFlightSeat(p) \/ InsertFlightBooking(p)
    \/ \E g \in Guests : CreateHotelBooking(g)
    \/ \E b \in Bookers : InitializePayment(b) \/ PayBooking(b) \/ BookingCutShort(b)
    \/ \E d \in Deliveries, b \in Bookers : FinaliseBooking(d, b)

-------------------------------------------------------------------------------
(* The flight is never oversold, and Flight.sold counts one seat for every *)
(* booking, paid or not, and for nobody else but requests under way or cut *)
(* short.                                                                  *)
FlightSeatsAccounted ==
    /\ flightSold = Cardinality(seated) /\ flightSold <= FlightCapacity
    /\ \A p \in Passengers :
        /\ booking[p] # "none" => p \in seated
        /\ p \in seated /\ booking[p] = "none" => pc[p] \in {"insert", "dead"}

(* However often charge.success is delivered: a booking becomes PAID only  *)
(* when its charge was made, stays so, and keeps the PNR it was given.     *)
BookedOnce ==
    [][\A b \in Bookers :
        /\ booking'[b] # booking[b] /\ booking'[b] = "PAID" => payment[b] = "charged"
        /\ booking[b] = "PAID" => booking'[b] = "PAID" /\ pnr'[b] = pnr[b]
      ]_bookingVars

(* Both: seats and payments of bookings are counted once.                  *)
BookingsHold == []FlightSeatsAccounted /\ BookedOnce
================================================================================
