-------------------------------- MODULE Commerce --------------------------------
(***************************************************************************)
(* What is sold besides plain tickets, at what price, what becomes known   *)
(* of it, and the pages it is sold on: the extras of an order, seats of a  *)
(* map that is edited, hotel and flight bookings, the mails of an          *)
(* organizer and its figures, the order form, the search page, and the way *)
(* of a visitor from page to page.  The parts share the requests of one    *)
(* API and no rows.                                                        *)
(***************************************************************************)
EXTENDS OrderExtras, SeatMaps, Bookings, Mailings, Reports, BuyForms, Searches, Site

(* The calls of each part.                                                 *)
ExtrasPart == Orders \cup {Retire, Settle}
SeatPart == Editors \cup Buyers
BookingPart == Bookers \cup Deliveries
BuyPart == Visits \cup Presses \cup AppVisits \cup AppPresses

Parts ==
    <<ExtrasPart, Quotes, SeatPart, BookingPart, Broadcasts, Readers, BuyPart, Fetches,
      Tours>>

ASSUME CommerceAssumption ==
    /\ \A G \in Groups : \E i \in 1..9 : G \subseteq Parts[i]
    /\ \A i, j \in 1..9 : i # j => Parts[i] \cap Parts[j] = {}

clientVars == <<buyVars, searchVars, siteVars>>

vars == <<requestVars, extrasVars, quoteVars, seatVars, bookingVars, mailVars,
          reportVars, clientVars>>

TypeOK ==
    /\ ExtrasTypeOK /\ SeatMapsTypeOK /\ BookingsTypeOK /\ MailingsTypeOK
    /\ BuyFormsTypeOK /\ SearchesTypeOK /\ SiteTypeOK
    /\ failures \in 0..MaxFailures /\ overlapped \in BOOLEAN

Init ==
    /\ RequestsInit /\ ExtrasInit /\ PricingInit /\ SeatMapsInit /\ BookingsInit
    /\ MailingsInit /\ ReportsInit
    /\ BuyFormsInit /\ SearchesInit /\ SiteInit

(* A part acts while no other did, and with its own calls.                 *)
Next ==
    \/ /\ Only(ExtrasPart) /\ ExtrasNext /\ Only(ExtrasPart)'
       /\ UNCHANGED <<quoteVars, seatVars, bookingVars, mailVars, reportVars, clientVars>>
    \/ /\ Only(Quotes) /\ (\E q \in Quotes : Quote(q)) /\ Only(Quotes)'
       /\ UNCHANGED <<extrasVars, seatVars, bookingVars, mailVars, reportVars, clientVars>>
    \/ /\ Only(SeatPart) /\ SeatMapsNext /\ Only(SeatPart)'
       /\ UNCHANGED <<extrasVars, quoteVars, bookingVars, mailVars, reportVars, clientVars>>
    \/ /\ Only(BookingPart) /\ BookingsNext /\ Only(BookingPart)'
       /\ UNCHANGED <<extrasVars, quoteVars, seatVars, mailVars, reportVars, clientVars>>
    \/ /\ Only(Broadcasts) /\ MailingsNext /\ Only(Broadcasts)'
       /\ UNCHANGED <<extrasVars, quoteVars, seatVars, bookingVars, reportVars, clientVars>>
    \/ /\ Only(Readers) /\ ReportsNext /\ Only(Readers)'
       /\ UNCHANGED <<extrasVars, quoteVars, seatVars, bookingVars, mailVars, clientVars>>
    \/ /\ Only(BuyPart) /\ BuyFormsNext /\ Only(BuyPart)'
       /\ UNCHANGED <<extrasVars, quoteVars, seatVars, bookingVars, mailVars, reportVars, searchVars,
                      siteVars>>
    \/ /\ Only(Fetches) /\ SearchesNext /\ Only(Fetches)'
       /\ UNCHANGED <<extrasVars, quoteVars, seatVars, bookingVars, mailVars, reportVars, buyVars,
                      siteVars>>
    \/ /\ Only(Tours) /\ SiteNext /\ Only(Tours)'
       /\ UNCHANGED <<extrasVars, quoteVars, seatVars, bookingVars, mailVars, reportVars, buyVars,
                      searchVars>>

Spec == Init /\ [][Next]_vars

(* Types and extras: the state is well formed and the extras of its orders *)
(* are accounted for.                                                      *)
SoldAsCounted == TypeOK /\ ExtrasAccounted
================================================================================
