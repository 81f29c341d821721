-------------------------------- MODULE Refunds --------------------------------
(***************************************************************************)
(* Refund requests for one paid order: RefundsService.refund, run by       *)
(* several organizer requests at once, the wallet or Paystack as the way   *)
(* the money goes back, and Paystack's asynchronous refund.processed.      *)
(*                                                                         *)
(* A request reads the order once, records a Refund row, gives the money   *)
(* back, records the outcome, and only then claims its amount on the order *)
(* in a conditional UPDATE.  Each of these is an await and an action.      *)
(***************************************************************************)
EXTENDS Integers, FiniteSets

CONSTANTS
    Requests,       \* refund requests that may run for the order
    Total,          \* Order.totalKobo
    MaxFailures     \* bound: requests cut short and answers lost

ASSUME RefundsAssumption ==
    /\ IsFiniteSet(Requests)
    /\ Total \in Nat \ {0}
    /\ MaxFailures \in Nat

VARIABLES
    guest,          \* Order.userId is null
    status,         \* Order.status: "PAID" or "REFUNDED"
    refunded,       \* Order.refundedKobo
    sold,           \* 1 while TicketType.sold counts the order's items
    tickets,        \* the order's tickets: "live" or "voided"
    pc,             \* where a request is between two awaits
    seen,           \* refundedKobo as the request read it
    amount,         \* what the request refunds
    toWallet,       \* the request's destination
    row,            \* Refund.status of the request's row
    linked,         \* rows that carry their paystackRefundId
    credited,       \* requests whose wallet credit is committed
    gateway,        \* what became of the request's refund at Paystack
    notified,       \* refunds whose refund.processed was delivered
    failures,       \* requests cut short and answers lost so far
    overlapped      \* two requests have run at the same time

vars == <<guest, status, refunded, sold, tickets, pc, seen, amount, toWallet,
          row, linked, credited, gateway, notified, failures, overlapped>>

order == <<guest, status, refunded, sold, tickets>>
request == <<seen, amount, toWallet>>

(* Not called; row created; wallet credited; Paystack answered pending or  *)
(* processed, answered failed; an exception is on its way to the catch;    *)
(* the final transaction is next; then how the request ended.              *)
Steps == {"idle", "created", "credited", "accepted", "declined", "caught", "commit"}
Ended == {"claimed", "lost", "failed", "dead"}

TypeOK ==
    /\ guest \in BOOLEAN
    /\ status \in {"PAID", "REFUNDED"}
    /\ refunded \in Nat
    /\ sold \in Int
    /\ tickets \in {"live", "voided"}
    /\ pc \in [Requests -> Steps \cup Ended]
    /\ seen \in [Requests -> Nat]
    /\ amount \in [Requests -> Nat]
    /\ toWallet \in [Requests -> BOOLEAN]
    /\ row \in [Requests -> {"none", "PENDING", "PROCESSED", "FAILED"}]
    /\ linked \subseteq Requests
    /\ credited \subseteq Requests
    /\ gateway \in [Requests -> {"none", "pending", "processed", "failed"}]
    /\ notified \subseteq Requests
    /\ failures \in 0..MaxFailures
    /\ overlapped \in BOOLEAN

Init ==
    /\ guest \in BOOLEAN
    /\ status = "PAID"
    /\ refunded = 0
    /\ sold = 1
    /\ tickets = "live"
    /\ pc = [r \in Requests |-> "idle"]
    /\ seen = [r \in Requests |-> 0]
    /\ amount = [r \in Requests |-> 0]
    /\ toWallet = [r \in Requests |-> FALSE]
    /\ row = [r \in Requests |-> "none"]
    /\ linked = {}
    /\ credited = {}
    /\ gateway = [r \in Requests |-> "none"]
    /\ notified = {}
    /\ failures = 0
    /\ overlapped = FALSE

Goto(r, step) == pc' = [pc EXCEPT ![r] = step]
SetRow(r, state) == row' = [row EXCEPT ![r] = state]

(* What requests refund together, counted kobo by kobo.                    *)
Kobo(of, some) == {k \in some \X (1 .. Total) : k[2] <= of[k[1]]}
SumOf(of, some) == Cardinality(Kobo(of, some))

(* Money that left for the buyer: wallet credits, and refunds Paystack     *)
(* took on and has not failed.                                             *)
AtGateway == {r \in Requests : gateway[r] \in {"pending", "processed"}}
MoneyBack == SumOf(amount, credited \cup AtGateway)
RefundedAtGateway == SumOf(amount, AtGateway)

-------------------------------------------------------------------------------
(* Faulty variant: the limit is the total, not what remains of it.         *)
BeginIgnoringPartials(r) ==
    /\ pc[r] = "idle"
    /\ status = "PAID"
    /\ \E a \in 1 .. Total, w \in BOOLEAN :
        /\ amount' = [amount EXCEPT ![r] = a]
        /\ toWallet' = [toWallet EXCEPT ![r] = w]
    /\ seen' = [seen EXCEPT ![r] = refunded]
    /\ overlapped' = (overlapped \/ \E q \in Requests : pc[q] \in Steps \ {"idle"})
    /\ SetRow(r, "PENDING")
    /\ Goto(r, "created")
    /\ UNCHANGED <<order, linked, credited, gateway, notified, failures>>

(* The request reads the order, passes the checks and records its row.     *)
(* Orders that are not PAID are refused, or answered alreadyRefunded.      *)
Begin(r) ==
    /\ pc[r] = "idle"
    /\ status = "PAID"
    /\ \E a \in 1 .. Total - refunded, w \in BOOLEAN :
        /\ amount' = [amount EXCEPT ![r] = a]
        /\ toWallet' = [toWallet EXCEPT ![r] = w]
    /\ seen' = [seen EXCEPT ![r] = refunded]
    /\ overlapped' = (overlapped \/ \E q \in Requests : pc[q] \in Steps \ {"idle"})
    /\ SetRow(r, "PENDING")
    /\ Goto(r, "created")
    /\ UNCHANGED <<order, linked, credited, gateway, notified, failures>>

(* Faulty variant: a full refund comes in one piece.                       *)
IsFinalInOnePiece(r) == amount[r] = Total

(* isFinal, decided from what the request read.                            *)
IsFinal(r) == amount[r] = Total - seen[r]

(* A refund to the wallet of a guest throws; the row stays PENDING.        *)
RejectGuest(r) ==
    /\ pc[r] = "created"
    /\ toWallet[r] /\ guest
    /\ Goto(r, "failed")
    /\ UNCHANGED <<order, request, row, linked, credited, gateway, notified, failures, overlapped>>

CreditWallet(r) ==
    /\ pc[r] = "created"
    /\ toWallet[r] /\ ~guest
    /\ credited' = credited \cup {r}
    /\ Goto(r, "credited")
    /\ UNCHANGED <<order, request, row, linked, gateway, notified, failures, overlapped>>

RecordCredit(r) ==
    /\ pc[r] = "credited"
    /\ SetRow(r, "PROCESSED")
    /\ Goto(r, "commit")
    /\ UNCHANGED <<order, request, linked, credited, gateway, notified, failures, overlapped>>

(* One more thing goes wrong.                                              *)
Fail ==
    /\ failures < MaxFailures
    /\ failures' = failures + 1

(* Paystack takes the refund on, within what was paid.                     *)
AtGatewayNow(r) ==
    /\ pc[r] = "created"
    /\ ~toWallet[r]
    /\ RefundedAtGateway + amount[r] <= Total
    /\ \E state \in {"pending", "processed"} : gateway' = [gateway EXCEPT ![r] = state]

GatewayAccepts(r) ==
    /\ AtGatewayNow(r)
    /\ Goto(r, "accepted")
    /\ UNCHANGED <<order, request, row, linked, credited, notified, failures, overlapped>>

(* The same, but the answer is lost: fetch throws with the money under way.*)
AnswerLost(r) ==
    /\ AtGatewayNow(r)
    /\ Fail
    /\ Goto(r, "caught")
    /\ UNCHANGED <<order, request, row, linked, credited, notified, overlapped>>

(* Paystack answers with status failed, or with an HTTP error.             *)
GatewayDeclines(r) ==
    /\ pc[r] = "created"
    /\ ~toWallet[r]
    /\ Goto(r, "declined") \/ Goto(r, "caught")
    /\ UNCHANGED <<order, request, row, linked, credited, gateway, notified, failures, overlapped>>

(* A refund that is still pending counts as PROCESSED.                     *)
RecordAccepted(r) ==
    /\ pc[r] = "accepted"
    /\ SetRow(r, "PROCESSED")
    /\ linked' = linked \cup {r}
    /\ Goto(r, "commit")
    /\ UNCHANGED <<order, request, credited, gateway, notified, failures, overlapped>>

(* Faulty variant: a declined refund is recorded but not thrown.           *)
RecordDeclinedAndGoOn(r) ==
    /\ pc[r] = "declined"
    /\ SetRow(r, "FAILED")
    /\ linked' = linked \cup {r}
    /\ Goto(r, "commit")
    /\ UNCHANGED <<order, request, credited, gateway, notified, failures, overlapped>>

RecordDeclined(r) ==
    /\ pc[r] = "declined"
    /\ SetRow(r, "FAILED")
    /\ linked' = linked \cup {r}
    /\ Goto(r, "caught")
    /\ UNCHANGED <<order, request, credited, gateway, notified, failures, overlapped>>

(* The update of the row throws, before or after it took effect.           *)
RecordingThrows(r) ==
    /\ pc[r] = "accepted"
    /\ Fail
    /\ \/ SetRow(r, "PROCESSED") /\ linked' = linked \cup {r}
       \/ UNCHANGED <<row, linked>>
    /\ Goto(r, "caught")
    /\ UNCHANGED <<order, request, credited, gateway, notified, overlapped>>

(* Faulty variant: a status of its own for what was thrown.                *)
RecordFailureAsError(r) ==
    /\ pc[r] = "caught"
    /\ SetRow(r, "ERROR")
    /\ Goto(r, "failed")
    /\ UNCHANGED <<order, request, linked, credited, gateway, notified, failures, overlapped>>

(* The catch: whatever was thrown, the row is FAILED and the error goes on.*)
RecordFailure(r) ==
    /\ pc[r] = "caught"
    /\ SetRow(r, "FAILED")
    /\ Goto(r, "failed")
    /\ UNCHANGED <<order, request, linked, credited, gateway, notified, failures, overlapped>>

(* Faulty variant: the amount is added without the claim.                  *)
CommitUnclaimed(r) ==
    /\ pc[r] = "commit"
    /\ refunded' = refunded + amount[r]
    /\ Goto(r, "claimed")
    /\ IF IsFinal(r)
       THEN /\ status' = "REFUNDED"
            /\ sold' = sold - 1
            /\ tickets' = "voided"
       ELSE UNCHANGED <<status, sold, tickets>>
    /\ UNCHANGED <<guest, request, row, linked, credited, gateway, notified, failures, overlapped>>

(* The final transaction: claim the amount; a lost race is only logged; a  *)
(* final refund gives the stock back and voids the tickets.                *)
Commit(r) ==
    /\ pc[r] = "commit"
    /\ IF refunded <= Total - amount[r]
       THEN /\ refunded' = refunded + amount[r]
            /\ Goto(r, "claimed")
            /\ IF IsFinal(r)
               THEN /\ status' = "REFUNDED"
                    /\ sold' = sold - 1
                    /\ tickets' = "voided"
               ELSE UNCHANGED <<status, sold, tickets>>
       ELSE /\ Goto(r, "lost")
            /\ UNCHANGED <<status, refunded, sold, tickets>>
    /\ UNCHANGED <<guest, request, row, linked, credited, gateway, notified, failures, overlapped>>

(* The process dies, or a statement throws, between two awaits.            *)
CutShort(r) ==
    /\ pc[r] \in Steps \ {"idle"}
    /\ Fail
    /\ Goto(r, "dead")
    /\ UNCHANGED <<order, request, row, linked, credited, gateway, notified, overlapped>>

-------------------------------------------------------------------------------
(* A pending refund succeeds or fails at Paystack later.                   *)
GatewaySettles(r) ==
    /\ gateway[r] = "pending"
    /\ \E state \in {"processed", "failed"} : gateway' = [gateway EXCEPT ![r] = state]
    /\ UNCHANGED <<order, pc, request, row, linked, credited, notified, failures, overlapped>>

(* refund.processed finds its row by paystackRefundId; refund.failed is    *)
(* ignored as an unsupported event.                                        *)
RefundProcessed(r) ==
    /\ gateway[r] = "processed"
    /\ notified' = notified \cup {r}
    /\ IF r \in linked /\ row[r] # "PROCESSED"
       THEN SetRow(r, "PROCESSED")
       ELSE UNCHANGED row
    /\ UNCHANGED <<order, pc, request, linked, credited, gateway, failures, overlapped>>

Step(r) ==
    \/ Begin(r)
    \/ RejectGuest(r)
    \/ CreditWallet(r)
    \/ RecordCredit(r)
    \/ GatewayAccepts(r)
    \/ AnswerLost(r)
    \/ GatewayDeclines(r)
    \/ RecordAccepted(r)
    \/ RecordingThrows(r)
    \/ RecordDeclined(r)
    \/ RecordFailure(r)
    \/ Commit(r)

Next == \E r \in Requests :
    \/ Step(r)
    \/ CutShort(r)
    \/ GatewaySettles(r)
    \/ RefundProcessed(r)

Spec == Init /\ [][Next]_vars

--------------------------------------------------------------------------------
(* Properties.                                                             *)

Claimed == {r \in Requests : pc[r] = "claimed"}

(* However requests overlap and fail, the order's books never show more    *)
(* refunded than was paid, and the stock, the tickets and the status       *)
(* change together, once, when the books show everything refunded          *)
(* (refunds.service.ts, the final transaction).                            *)
BooksStayWhole ==
    /\ refunded <= Total
    /\ (status = "REFUNDED") <=> (sold = 0)
    /\ (status = "REFUNDED") <=> (tickets = "voided")
    /\ status = "REFUNDED" => refunded = Total
    /\ sold \in {0, 1}

(* What that rests on: what a request decided from a read stays within     *)
(* what was left then, and what the books show has only grown since.       *)
ReadsAreOld ==
    \A r \in Requests : pc[r] \in Steps \ {"idle"} =>
        /\ seen[r] <= refunded
        /\ amount[r] >= 1
        /\ seen[r] + amount[r] <= Total

BooksFit == TypeOK /\ BooksStayWhole /\ ReadsAreOld

(* What the books show was sent: refundedKobo is the sum of what the       *)
(* requests that won their claim gave to the wallet or to Paystack.        *)
BooksWereSent ==
    /\ refunded = SumOf(amount, Claimed)
    /\ \A r \in Claimed : row[r] = "PROCESSED" /\ (r \in credited \/ gateway[r] # "none")

(* A refund is never taken back: status, refundedKobo and a claimed        *)
(* request's outcome only move one way, and only a final request that      *)
(* read the latest refundedKobo makes the order REFUNDED.                  *)
RefundsAdvance ==
    [][/\ refunded' >= refunded
       /\ status = "REFUNDED" => UNCHANGED <<status, refunded, sold>>
       /\ status' # status =>
            \E r \in Requests : seen[r] = refunded /\ seen[r] + amount[r] = Total]_vars

(* No more money leaves than was paid (refunds.service.ts: "so concurrent  *)
(* partials never over-refund").                                           *)
NoOverRefund == MoneyBack <= Total

(* That holds as long as requests take turns and nothing fails: the amount *)
(* is then checked against everything that left before.                    *)
NoOverRefundInTurn == ~overlapped /\ failures = 0 => NoOverRefund

(* Once requests that took turns are answered, even with failures, an      *)
(* order whose books show everything refunded is REFUNDED, its tickets     *)
(* void and its stock given back, although it came back in parts.          *)
FullRefundIsFinal ==
    ~overlapped /\ (\A r \in Requests : pc[r] \in {"idle"} \cup Ended)
        => (refunded = Total => status = "REFUNDED")

(* Books and money agree: what the books show was sent and, while requests *)
(* take turns, what was sent is within what was paid and a full refund     *)
(* settles the order.                                                      *)
BooksFollowMoney == BooksWereSent /\ NoOverRefundInTurn /\ FullRefundIsFinal

(* What that rests on: the step a request is at tells what it has sent, as *)
(* long as requests take turns and nothing fails the other way round too;  *)
(* while they take turns there is one under way and its read is fresh.     *)
StepsTell ==
    \A r \in Requests :
        /\ amount[r] <= Total
        /\ pc[r] = "credited" => r \in credited
        /\ pc[r] = "accepted" => gateway[r] # "none"
        /\ pc[r] \in {"commit", "claimed"} =>
               row[r] = "PROCESSED" /\ (r \in credited \/ gateway[r] # "none")
        /\ ~overlapped /\ failures = 0 /\ r \in credited \cup AtGateway =>
               pc[r] \in {"credited", "accepted", "commit", "claimed"}

ReadsAreFresh ==
    ~overlapped =>
        /\ \A q, r \in Requests :
               pc[q] \in Steps \ {"idle"} /\ pc[r] \in Steps \ {"idle"} => q = r
        /\ \A r \in Requests : pc[r] \in Steps \ {"idle"} => seen[r] = refunded
        /\ refunded = Total => status = "REFUNDED"

(* The inductive invariant.                                                *)
IInv == BooksFit /\ StepsTell /\ ReadsAreFresh /\ refunded = SumOf(amount, Claimed)
================================================================================
