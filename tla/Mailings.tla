-------------------------------- MODULE Mailings --------------------------------
(***************************************************************************)
(* BroadcastsService.send: a mail to everybody who paid for an event, sent *)
(* one after the other while orders are paid and refunded.  The row of the *)
(* broadcast is written first with a count of 0, and again at the end.     *)
(***************************************************************************)
EXTENDS Requests

CONSTANTS
    Broadcasts,     \* POST broadcasts requests
    Sales,          \* orders of the event
    BuyerOf         \* BuyerOf[s]: Order.buyerEmail

ASSUME MailingsAssumption ==
    /\ Broadcasts \subseteq Calls
    /\ IsFiniteSet(Sales)

VARIABLES
    sale,           \* Order.status of a sale
    todo,           \* todo[c]: the sales whose buyers c has still to write to
    sent,           \* sent[c]: the variable of that name
    sentCount,      \* Broadcast.sentCount; -1 before the row exists
    eligible,       \* history: buyers with a PAID order when c looked
    inbox,          \* history: inbox[c][b]: mails of c that reached b
    thrown          \* history: thrown[c]: buyers for whom the send threw

mailVars == <<sale, todo, sent, sentCount, eligible, inbox, thrown>>

Mailers == {BuyerOf[s] : s \in Sales}
Before(old) == {s \in Sales : sale[s] = old}

MailingsTypeOK ==
    /\ sale \in [Sales -> {"PENDING", "PAID", "REFUNDED"}]
    /\ todo \in [Broadcasts -> SUBSET Sales]
    /\ sent \in [Broadcasts -> Nat]
    /\ sentCount \in [Broadcasts -> Nat \cup {-1}]
    /\ eligible \in [Broadcasts -> SUBSET Mailers]
    /\ inbox \in [Broadcasts -> [Mailers -> Nat]]
    /\ thrown \in [Broadcasts -> SUBSET Mailers]
    /\ \A c \in Broadcasts : pc[c] \in {"idle", "create", "mail"} \cup Ended

MailingsInit ==
    /\ sale = [s \in Sales |-> "PENDING"]
    /\ todo = [c \in Broadcasts |-> {}]
    /\ sent = [c \in Broadcasts |-> 0]
    /\ sentCount = [c \in Broadcasts |-> -1]
    /\ eligible = [c \in Broadcasts |-> {}]
    /\ inbox = [c \in Broadcasts |-> [b \in Mailers |-> 0]]
    /\ thrown = [c \in Broadcasts |-> {}]

-------------------------------------------------------------------------------
(* Faulty variant: one mail per order.                                     *)
RecipientsOfOrders(R, paid) == R = paid

(* distinct buyerEmail: one of the paid orders of each buyer.              *)
Recipients(R, paid) ==
    /\ R \subseteq paid
    /\ \A s \in paid : Cardinality({r \in R : BuyerOf[r] = BuyerOf[s]}) = 1

(* Any of the orders may have been paid by then.                           *)
ReadRecipients(c) ==
    \E new \in SUBSET Before("PENDING") :
        LET paid == Before("PAID") \cup new
        IN  /\ Begin(c, "create")
            /\ sale' = [s \in Sales |-> IF s \in new THEN "PAID" ELSE sale[s]]
            /\ \E R \in SUBSET paid : Recipients(R, paid) /\ todo' = [todo EXCEPT ![c] = R]
            /\ eligible' = [eligible EXCEPT ![c] = {BuyerOf[s] : s \in paid}]
            /\ UNCHANGED <<sent, sentCount, inbox, thrown>>

CreateBroadcast(c) ==
    /\ pc[c] = "create"
    /\ sentCount' = [sentCount EXCEPT ![c] = 0]
    /\ Goto(c, "mail")
    /\ UNCHANGED <<sale, todo, sent, eligible, inbox, thrown>>

(* sendBroadcast of the mailer: a refusal by Postmark is only logged there.*)
PostmarkOutcomes == {"delivered", "refused", "thrown"}

MailOne(c, s, outcome) ==
    /\ pc[c] = "mail" /\ s \in todo[c]
    /\ todo' = [todo EXCEPT ![c] = @ \ {s}]
    /\ inbox' = IF outcome = "delivered" THEN [inbox EXCEPT ![c][BuyerOf[s]] = @ + 1] ELSE inbox
    /\ sent' = IF outcome # "thrown" THEN [sent EXCEPT ![c] = @ + 1] ELSE sent
    /\ thrown' = IF outcome = "thrown" THEN [thrown EXCEPT ![c] = @ \cup {BuyerOf[s]}] ELSE thrown
    /\ UNCHANGED <<requestVars, sale, sentCount, eligible>>

StoreCount(c) ==
    /\ pc[c] = "mail" /\ todo[c] = {}
    /\ sentCount' = [sentCount EXCEPT ![c] = sent[c]]
    /\ Goto(c, "done")
    /\ UNCHANGED <<sale, todo, sent, eligible, inbox, thrown>>

BroadcastCutShort(c) == CutShort(c) /\ UNCHANGED mailVars

(* Orders are paid and refunded while a broadcast is sent.                 *)
SaleMoves(s) ==
    /\ \E from, to \in {"PENDING", "PAID", "REFUNDED"} :
        /\ <<from, to>> \in {<<"PENDING", "PAID">>, <<"PAID", "REFUNDED">>}
        /\ sale[s] = from /\ sale' = [sale EXCEPT ![s] = to]
    /\ Busy \cap Broadcasts # {}
    /\ UNCHANGED <<requestVars, todo, sent, sentCount, eligible, inbox, thrown>>

MailingsNext ==
    \/ \E c \in Broadcasts :
        \/ ReadRecipients(c) \/ CreateBroadcast(c) \/ StoreCount(c) \/ BroadcastCutShort(c)
        \/ \E s \in Sales, outcome \in PostmarkOutcomes : MailOne(c, s, outcome)
    \/ \E s \in Sales : SaleMoves(s)

-------------------------------------------------------------------------------
(* A broadcast writes once to everybody who had paid when it began, however*)
(* many orders he has, and to nobody else; its row counts the mails that   *)
(* Postmark was given when it ends, and none when it dies on the way.      *)
BroadcastCounts ==
    \A c \in Broadcasts :
        /\ \A b \in Mailers : inbox[c][b] <= (IF b \in eligible[c] THEN 1 ELSE 0)
        /\ pc[c] = "done" => sentCount[c] = Cardinality(eligible[c] \ thrown[c])
        /\ pc[c] # "done" => sentCount[c] <= 0
================================================================================
