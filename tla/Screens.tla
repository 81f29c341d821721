--------------------------------- MODULE Screens ---------------------------------
(***************************************************************************)
(* What the staff at the door see: the scanner of the web application and  *)
(* the one of the mobile application, both over TicketsService.scan.       *)
(* Answers may come late, in another order, or not at all, and a ticket    *)
(* may be refunded, or a member leave the team, while a request is under   *)
(* way.  The staff stay signed in.                                         *)
(***************************************************************************)
EXTENDS Requests

CONSTANTS
    WebScanners, AppScanners,
    Codes, Tickets, \* what scanners read, and those that are codes of tickets
    Scans,          \* scan requests of any scanner
    Nothing         \* nothing scanned or shown

Scanners == WebScanners \cup AppScanners

ASSUME ScreensAssumption ==
    /\ IsFiniteSet(Scans)
    /\ Scans \subseteq Calls
    /\ WebScanners \cap AppScanners = {}
    /\ Tickets \subseteq Codes
    /\ Nothing \notin Codes \cup Scanners

VARIABLES
    status,         \* Ticket.status
    staff,          \* scanners whose user has a role that may scan
    last,           \* last[s]: the code s submitted last
    scan,           \* scan[c]: scanner, code, status read, outcome of request c
    shown,          \* shown[s]: the code first in Recent scans, or of _lastResult
    failed,         \* failed[s]: the code that the app's _error is about
    admitted,       \* history: admitted[k]: requests that displayed "admit" for k
    denied,         \* history: codes a scanner called used or voided
    crossed         \* history: scanners with two requests under way at once

screenVars == <<status, staff, last, scan, shown, failed, admitted, denied, crossed>>

Statuses == {"ISSUED", "SCANNED", "VOIDED"}
AtApi == {"server", "claim", "answer"}

NoScan == [by |-> Nothing, code |-> Nothing, read |-> "none", says |-> "none"]
ScanOf(s, k) == [NoScan EXCEPT !.by = s, !.code = k]

ScreensTypeOK ==
    /\ status \in [Tickets -> Statuses]
    /\ staff \subseteq Scanners
    /\ last \in [Scanners -> Codes \cup {Nothing}]
    /\ scan \in [Scans -> [by : Scanners \cup {Nothing}, code : Codes \cup {Nothing},
                           read : Statuses \cup {"none"},
                           says : {"none", "admit", "used", "voided", "error"}]]
    /\ shown \in [Scanners -> Codes \cup {Nothing}]
    /\ failed \in [Scanners -> Codes \cup {Nothing}]
    /\ admitted \in [Codes -> SUBSET Scans]
    /\ denied \subseteq Codes
    /\ crossed \subseteq Scanners
    /\ \A c \in Scans : pc[c] \in {"idle"} \cup AtApi \cup Ended

ScreensInit ==
    /\ status = [k \in Tickets |-> "ISSUED"]
    /\ staff = Scanners
    /\ last = [s \in Scanners |-> Nothing]
    /\ scan = [c \in Scans |-> NoScan]
    /\ shown = [s \in Scanners |-> Nothing]
    /\ failed = [s \in Scanners |-> Nothing]
    /\ admitted = [k \in Codes |-> {}]
    /\ denied = {}
    /\ crossed = {}

-------------------------------------------------------------------------------
(* Scanners.                                                               *)

Waiting(s) == {c \in Busy \cap Scans : scan[c].by = s}

(* Faulty variant: the app, too, scans on while it waits for an answer.    *)
ReadyAlways(s) == TRUE

(* The app ignores the camera while a request is under way; the web page   *)
(* has no such guard.                                                      *)
Ready(s) == s \in WebScanners \/ Waiting(s) = {}

(* handleCode and _onDetect.  The same code again is ignored for two to    *)
(* three seconds; these may be over at any time, so that it may be read    *)
(* again in any state.  The app forgets its last error.                    *)
DetectCode(c, s) ==
    \E k \in Codes :
        /\ Ready(s)
        /\ Begin(c, "server")
        /\ scan' = [scan EXCEPT ![c] = ScanOf(s, k)]
        /\ last' = [last EXCEPT ![s] = k]
        /\ failed' = [failed EXCEPT ![s] = Nothing]
        /\ crossed' = IF Waiting(s) = {} THEN crossed ELSE crossed \cup {s}
        /\ UNCHANGED <<status, staff, shown, admitted, denied>>

-------------------------------------------------------------------------------
(* TicketsService.scan, a transaction: the ticket is read, ...             *)
ReadTicket(c) ==
    LET k == scan[c].code
    IN  /\ pc[c] = "server"
        /\ \/ /\ k \in Tickets
              /\ scan' = [scan EXCEPT ![c].read = status[k]]
              /\ Goto(c, "claim")
           \/ /\ k \notin Tickets
              /\ scan' = [scan EXCEPT ![c].says = "error"]
              /\ Goto(c, "answer")
        /\ UNCHANGED <<status, staff, last, shown, failed, admitted, denied, crossed>>

(* Faulty variant: the status that was read is not compared again.         *)
FirstScanAsRead(c) == scan[c].read = "ISSUED"

FirstScan(c) == status[scan[c].code] = "ISSUED"

(* What is told to whoever may not scan, and of a ticket read as void.     *)
Refusal(c) ==
    IF scan[c].by \notin staff THEN "error"
    ELSE IF scan[c].read = "VOIDED" THEN "voided"
    ELSE "none"

(* ... the membership of who scans it is checked, which no other step of   *)
(* the request depends on, and one conditional updateMany claims it.       *)
ScanTicket(c) ==
    LET k == scan[c].code
        claimed == Refusal(c) = "none" /\ FirstScan(c)
        says == IF Refusal(c) # "none" THEN Refusal(c)
                ELSE IF claimed THEN "admit" ELSE "used"
    IN  /\ pc[c] = "claim"
        /\ status' = IF claimed THEN [status EXCEPT ![k] = "SCANNED"] ELSE status
        /\ scan' = [scan EXCEPT ![c].says = says]
        /\ Goto(c, "answer")
        /\ UNCHANGED <<staff, last, shown, failed, admitted, denied, crossed>>

(* Meanwhile RefundsService voids the tickets of an order, scanned or not, *)
(* and TeamService removes a member or gives it another role.  Both are of *)
(* interest only while a request is under way: what precedes its first     *)
(* read may as well come right before it.                                  *)
VoidTicket(k) ==
    /\ Busy \cap Scans # {}
    /\ status[k] \in {"ISSUED", "SCANNED"}
    /\ status' = [status EXCEPT ![k] = "VOIDED"]
    /\ UNCHANGED <<requestVars, staff, last, scan, shown, failed, admitted, denied,
                   crossed>>

LosesRole(s) ==
    /\ s \in staff /\ Waiting(s) # {}
    /\ staff' = staff \ {s}
    /\ UNCHANGED <<requestVars, status, last, scan, shown, failed, admitted, denied,
                   crossed>>

-------------------------------------------------------------------------------
(* The web page puts every outcome first in Recent scans; the app keeps    *)
(* an error apart from its last result.                                    *)
Shows(c, error) ==
    LET s == scan[c].by
        apart == error /\ s \in AppScanners
    IN  /\ shown' = IF apart THEN shown ELSE [shown EXCEPT ![s] = scan[c].code]
        /\ failed' = IF apart THEN [failed EXCEPT ![s] = scan[c].code] ELSE failed

(* setRecent and setState with the answer.                                 *)
ShowOutcome(c) ==
    LET k == scan[c].code
        says == scan[c].says
    IN  /\ pc[c] = "answer"
        /\ Shows(c, says = "error")
        /\ admitted' = IF says = "admit" THEN [admitted EXCEPT ![k] = @ \cup {c}] ELSE admitted
        /\ denied' = IF says \in {"used", "voided"} THEN denied \cup {k} ELSE denied
        /\ scan' = [scan EXCEPT ![c] = NoScan]
        /\ Goto(c, "done")
        /\ UNCHANGED <<status, staff, last, crossed>>

(* The request or its answer is lost: the screen shows an error.           *)
ScanLost(c) ==
    /\ pc[c] \in AtApi
    /\ CutShort(c)
    /\ Shows(c, TRUE)
    /\ scan' = [scan EXCEPT ![c] = NoScan]
    /\ UNCHANGED <<status, staff, last, admitted, denied, crossed>>

ScreensNext ==
    \/ \E c \in Scans :
        \/ \E s \in Scanners : DetectCode(c, s)
        \/ ReadTicket(c) \/ ScanTicket(c) \/ ShowOutcome(c) \/ ScanLost(c)
    \/ \E s \in Scanners : LosesRole(s)
    \/ \E k \in Tickets : VoidTicket(k)

-------------------------------------------------------------------------------
(* Whatever the scanners do at once and however often a ticket is held up, *)
(* one screen at most says to admit it, ...                                *)
OneAdmission == \A k \in Codes : Cardinality(admitted[k]) <= 1

(* ... and a refund that races with a scan is not undone by it.            *)
VoidedForGood ==
    [][\A k \in Tickets : status[k] = "VOIDED" => status'[k] = "VOIDED"]_screenVars

AdmittedOnce == []OneAdmission /\ VoidedForGood

(* What the page or the app has on show: an error goes before a result.    *)
OnShow(s) == IF failed[s] # Nothing THEN failed[s] ELSE shown[s]

(* When a scanner waits for nothing, the last code it read is the first of *)
(* Recent scans, or what the panel of the app is about, unless a web page  *)
(* had two requests under way; nobody is turned away with a ticket that is *)
(* still good; and when no answer was lost, some screen said to admit      *)
(* whoever holds a ticket that counts as scanned.                          *)
ScreenShowsLast ==
    /\ \A s \in Scanners :
        Waiting(s) = {} => OnShow(s) = last[s] \/ s \in crossed \cap WebScanners
    /\ \A k \in denied : status[k] # "ISSUED"
    /\ failures = 0 /\ Busy = {} =>
        \A k \in Tickets : status[k] = "SCANNED" => admitted[k] # {}
================================================================================
