---------------------------- MODULE TicketOwnership ----------------------------
(***************************************************************************)
(* Who holds one paid ticket: transfer links (TicketTransfersService), the *)
(* resale marketplace (ResaleService), the collectible bound to the holder *)
(* (NftService.claim), scanning at the gate and the final refund.          *)
(*                                                                         *)
(* A call checks what it has read and writes later; a transaction that     *)
(* reads first and writes conditionally is two actions.  Calls that are    *)
(* refused by their first checks change nothing and are left out.  Wallets *)
(* are kept as the set of calls that debited or credited them.             *)
(***************************************************************************)
EXTENDS Integers, FiniteSets, TLC

CONSTANTS
    Users,
    Nobody,         \* not a user
    Shares,         \* calls of transfers.create; each makes one TicketTransfer
    Claims,         \* calls of transfers.claim
    Withdrawals,    \* calls of transfers.cancel
    Offers,         \* calls of createListing; each makes one TicketListing
    Purchases,      \* calls of buyListing
    Collects,       \* calls of the collectible's claim
    MaxAtOnce,      \* bound: calls under way at the same time
    MaxFailures     \* bound: calls cut short and wallet credits that throw

Calls == UNION {Shares, Claims, Withdrawals, Offers, Purchases, Collects}

ASSUME OwnershipAssumption ==
    /\ Nobody \notin Users \cup Purchases
    /\ Shares \cap (Claims \cup Withdrawals \cup Offers \cup Purchases \cup Collects) = {}
    /\ Claims \cap (Withdrawals \cup Offers \cup Purchases \cup Collects) = {}
    /\ Withdrawals \cap (Offers \cup Purchases \cup Collects) = {}
    /\ Offers \cap (Purchases \cup Collects) = {}
    /\ Purchases \cap Collects = {}
    /\ MaxAtOnce \in Nat
    /\ MaxFailures \in Nat

VARIABLES
    status,         \* Ticket.status
    owner,          \* Ticket.ownerUserId
    collectible,    \* whose EVM wallet is bound to the ticket
    link,           \* a transfer's state
    listing,        \* a listing's state
    sale,           \* the purchase a SOLD listing went to
    pc,             \* where a call is between two awaits
    by,             \* the user who makes the call
    target,         \* the transfer or the listing a call is about
    visible,        \* open transfers a share's transaction found to cancel
    paid,           \* purchases that debited the buyer
    returned,       \* purchases that gave the buyer the money back
    proceeds,       \* purchases that credited the seller
    failures,       \* calls cut short and wallet credits that threw so far
    overlapped      \* two calls have been under way at the same time

vars == <<status, owner, collectible, link, listing, sale, pc, by, target,
          visible, paid, returned, proceeds, failures, overlapped>>

ticket == <<status, owner, collectible>>
market == <<listing, sale>>
money == <<paid, returned, proceeds>>

(* A link that expired stays open here: it is one that nobody claims.      *)
LinkStates == {"none", "open", "claimed", "cancelled"}
ListingStates == {"none", "LISTED", "SOLD", "CANCELLED"}
UnderWay == {"checked", "swept", "clear", "paid", "taken", "undo"}
Ended == {"done", "refused", "dead"}

TypeOK ==
    /\ status \in {"ISSUED", "SCANNED", "VOIDED"}
    /\ owner \in Users
    /\ collectible \in Users \cup {Nobody}
    /\ link \in [Shares -> LinkStates]
    /\ listing \in [Offers -> ListingStates]
    /\ sale \in [Offers -> Purchases \cup {Nobody}]
    /\ pc \in [Calls -> {"idle"} \cup UnderWay \cup Ended]
    /\ by \in [Calls -> Users \cup {Nobody}]
    /\ target \in [Claims \cup Purchases -> Shares \cup Offers \cup {Nobody}]
    /\ visible \in [Shares -> SUBSET Shares]
    /\ paid \subseteq Purchases
    /\ returned \subseteq Purchases
    /\ proceeds \subseteq Purchases
    /\ failures \in 0..MaxFailures
    /\ overlapped \in BOOLEAN

(* The ticket of a signed-in buyer, just issued.                           *)
Init ==
    /\ status = "ISSUED"
    /\ owner \in Users
    /\ collectible = Nobody
    /\ link = [s \in Shares |-> "none"]
    /\ listing = [o \in Offers |-> "none"]
    /\ sale = [o \in Offers |-> Nobody]
    /\ pc = [c \in Calls |-> "idle"]
    /\ by = [c \in Calls |-> Nobody]
    /\ target = [c \in Claims \cup Purchases |-> Nobody]
    /\ visible = [s \in Shares |-> {}]
    /\ paid = {}
    /\ returned = {}
    /\ proceeds = {}
    /\ failures = 0
    /\ overlapped = FALSE

Busy == {c \in Calls : pc[c] \in UnderWay}
NoteOverlap == overlapped' = (overlapped \/ Busy # {})
Goto(c, step) == pc' = [pc EXCEPT ![c] = step]

Start(c, u) ==
    /\ pc[c] = "idle"
    /\ Cardinality(Busy) < MaxAtOnce
    /\ NoteOverlap
    /\ by' = [by EXCEPT ![c] = u]
    /\ Goto(c, "checked")

CancelLinks(some) ==
    [s \in Shares |-> IF s \in some /\ link[s] = "open" THEN "cancelled" ELSE link[s]]

-------------------------------------------------------------------------------
(* Transfers                                                               *)

(* Faulty variant: anybody may share the ticket.                           *)
ShareAnyTicket(s, u) ==
    /\ status = "ISSUED"
    /\ Start(s, u)
    /\ UNCHANGED <<ticket, link, market, target, visible, money, failures>>

Share(s, u) ==
    /\ owner = u
    /\ status = "ISSUED"
    /\ Start(s, u)
    /\ UNCHANGED <<ticket, link, market, target, visible, money, failures>>

(* The transaction's updateMany cancels the open transfers it can see...   *)
ShareSweep(s) ==
    /\ pc[s] = "checked"
    /\ visible' = [visible EXCEPT ![s] = {t \in Shares : link[t] = "open"}]
    /\ Goto(s, "swept")
    /\ UNCHANGED <<ticket, link, market, by, target, money, failures, overlapped>>

(* Faulty variant: the earlier links are left open.                        *)
ShareCommitOnly(s) ==
    /\ pc[s] = "swept"
    /\ link' = [link EXCEPT ![s] = "open"]
    /\ Goto(s, "done")
    /\ UNCHANGED <<ticket, market, by, target, visible, money, failures, overlapped>>

(* ... and commits with a new one.                                         *)
ShareCommit(s) ==
    /\ pc[s] = "swept"
    /\ link' = [CancelLinks(visible[s]) EXCEPT ![s] = "open"]
    /\ Goto(s, "done")
    /\ UNCHANGED <<ticket, market, by, target, visible, money, failures, overlapped>>

(* Faulty variant: a voided or scanned ticket is accepted.                 *)
ClaimAnyStatus(c, u, s) ==
    /\ link[s] = "open"
    /\ by[s] # u
    /\ Start(c, u)
    /\ target' = [target EXCEPT ![c] = s]
    /\ UNCHANGED <<ticket, link, market, visible, money, failures>>

Claim(c, u, s) ==
    /\ link[s] = "open"
    /\ by[s] # u
    /\ status = "ISSUED"
    /\ Start(c, u)
    /\ target' = [target EXCEPT ![c] = s]
    /\ UNCHANGED <<ticket, link, market, visible, money, failures>>

(* Faulty variant: the transfer is not claimed conditionally.              *)
ClaimCommitBlind(c) ==
    /\ c \in Claims
    /\ pc[c] = "checked"
    /\ link' = [CancelLinks(Shares) EXCEPT ![target[c]] = "claimed"]
    /\ owner' = by[c]
    /\ collectible' = Nobody
    /\ Goto(c, "done")
    /\ UNCHANGED <<status, market, by, target, visible, money, failures, overlapped>>

(* Faulty variant: the collectible stays with the former holder.           *)
ClaimCommitKeepingCollectible(c) ==
    /\ c \in Claims
    /\ pc[c] = "checked"
    /\ IF link[target[c]] = "open"
       THEN /\ link' = [CancelLinks(Shares) EXCEPT ![target[c]] = "claimed"]
            /\ owner' = by[c]
            /\ Goto(c, "done")
       ELSE /\ Goto(c, "refused")
            /\ UNCHANGED <<link, owner>>
    /\ UNCHANGED <<status, collectible, market, by, target, visible, money, failures, overlapped>>

(* The conditional claim, the new owner, and the other links cancelled.    *)
ClaimCommit(c) ==
    /\ c \in Claims
    /\ pc[c] = "checked"
    /\ IF link[target[c]] = "open"
       THEN /\ link' = [CancelLinks(Shares) EXCEPT ![target[c]] = "claimed"]
            /\ owner' = by[c]
            /\ collectible' = Nobody
            /\ Goto(c, "done")
       ELSE /\ Goto(c, "refused")
            /\ UNCHANGED <<link, owner, collectible>>
    /\ UNCHANGED <<status, market, by, target, visible, money, failures, overlapped>>

Withdraw(w, u) ==
    /\ owner = u
    /\ Start(w, u)
    /\ UNCHANGED <<ticket, link, market, target, visible, money, failures>>

WithdrawCommit(w) ==
    /\ w \in Withdrawals
    /\ pc[w] = "checked"
    /\ link' = CancelLinks(Shares)
    /\ Goto(w, "done")
    /\ UNCHANGED <<ticket, market, by, target, visible, money, failures, overlapped>>

-------------------------------------------------------------------------------
(* Resale                                                                  *)

(* Faulty variant: anybody may list the ticket.                            *)
OfferAnyTicket(o, u) ==
    /\ status = "ISSUED"
    /\ Start(o, u)
    /\ UNCHANGED <<ticket, link, market, target, visible, money, failures>>

Offer(o, u) ==
    /\ owner = u
    /\ status = "ISSUED"
    /\ Start(o, u)
    /\ UNCHANGED <<ticket, link, market, target, visible, money, failures>>

(* Faulty variant: the look for an active listing is left out.             *)
OfferDoNotLook(o) ==
    /\ o \in Offers
    /\ pc[o] = "checked"
    /\ Goto(o, "clear")
    /\ UNCHANGED <<ticket, link, market, by, target, visible, money, failures, overlapped>>

OfferLook(o) ==
    /\ o \in Offers
    /\ pc[o] = "checked"
    /\ IF \E q \in Offers : listing[q] = "LISTED" THEN Goto(o, "refused") ELSE Goto(o, "clear")
    /\ UNCHANGED <<ticket, link, market, by, target, visible, money, failures, overlapped>>

OfferCreate(o) ==
    /\ pc[o] = "clear"
    /\ listing' = [listing EXCEPT ![o] = "LISTED"]
    /\ Goto(o, "done")
    /\ UNCHANGED <<ticket, link, sale, by, target, visible, money, failures, overlapped>>

CancelListing(o) ==
    /\ listing[o] = "LISTED"
    /\ listing' = [listing EXCEPT ![o] = "CANCELLED"]
    /\ UNCHANGED <<ticket, link, sale, pc, by, target, visible, money, failures, overlapped>>

Buy(p, u, o) ==
    /\ listing[o] = "LISTED"
    /\ by[o] # u
    /\ Start(p, u)
    /\ target' = [target EXCEPT ![p] = o]
    /\ UNCHANGED <<ticket, link, market, visible, money, failures>>

(* The wallet debit, or its refusal.                                       *)
Debit(p) ==
    /\ p \in Purchases
    /\ pc[p] = "checked"
    /\ \/ paid' = paid \cup {p} /\ Goto(p, "paid")
       \/ Goto(p, "refused") /\ UNCHANGED paid
    /\ UNCHANGED <<ticket, link, market, by, target, visible, returned, proceeds, failures, overlapped>>

(* Faulty variant: the listing is not claimed conditionally.               *)
TakeUnclaimed(p) ==
    /\ pc[p] = "paid"
    /\ listing' = [listing EXCEPT ![target[p]] = "SOLD"]
    /\ sale' = [sale EXCEPT ![target[p]] = p]
    /\ owner' = by[p]
    /\ Goto(p, "taken")
    /\ UNCHANGED <<status, collectible, link, by, target, visible, money, failures, overlapped>>

(* The transaction claims the listing and moves the ticket, or throws.     *)
Take(p) ==
    /\ pc[p] = "paid"
    /\ IF listing[target[p]] = "LISTED"
       THEN /\ listing' = [listing EXCEPT ![target[p]] = "SOLD"]
            /\ sale' = [sale EXCEPT ![target[p]] = p]
            /\ owner' = by[p]
            /\ Goto(p, "taken")
       ELSE /\ Goto(p, "undo")
            /\ UNCHANGED <<listing, sale, owner>>
    /\ UNCHANGED <<status, collectible, link, by, target, visible, money, failures, overlapped>>

PaySeller(p) ==
    /\ pc[p] = "taken"
    /\ proceeds' = proceeds \cup {p}
    /\ Goto(p, "done")
    /\ UNCHANGED <<ticket, link, market, by, target, visible, paid, returned, failures, overlapped>>

Fail ==
    /\ failures < MaxFailures
    /\ failures' = failures + 1

(* The transaction or the seller's credit throws: on to the catch.         *)
TakeOrPayThrows(p) ==
    /\ pc[p] \in {"paid", "taken"}
    /\ Fail
    /\ Goto(p, "undo")
    /\ UNCHANGED <<ticket, link, market, by, target, visible, money, overlapped>>

(* Faulty variant: the catch throws without the buyer's refund.            *)
UndoNothing(p) ==
    /\ pc[p] = "undo"
    /\ Goto(p, "refused")
    /\ UNCHANGED <<ticket, link, market, by, target, visible, money, failures, overlapped>>

(* The catch gives the buyer the money back, whatever was thrown.          *)
Undo(p) ==
    /\ pc[p] = "undo"
    /\ returned' = returned \cup {p}
    /\ Goto(p, "refused")
    /\ UNCHANGED <<ticket, link, market, by, target, visible, paid, proceeds, failures, overlapped>>

-------------------------------------------------------------------------------
(* The collectible, the gate, the refund                                   *)

Collect(n, u) ==
    /\ owner = u
    /\ status # "VOIDED"
    /\ Start(n, u)
    /\ UNCHANGED <<ticket, link, market, target, visible, money, failures>>

(* ensureTokenId is an await; the wallet is bound without another look.    *)
CollectBind(n) ==
    /\ n \in Collects
    /\ pc[n] = "checked"
    /\ collectible' = by[n]
    /\ Goto(n, "done")
    /\ UNCHANGED <<status, owner, link, market, by, target, visible, money, failures, overlapped>>

Scan ==
    /\ NoteOverlap
    /\ status = "ISSUED"
    /\ status' = "SCANNED"
    /\ UNCHANGED <<owner, collectible, link, market, pc, by, target, visible, money, failures>>

(* Faulty variant: the order's status instead of the ticket's.             *)
VoidTicketAsRefunded ==
    /\ NoteOverlap
    /\ status \in {"ISSUED", "SCANNED"}
    /\ status' = "REFUNDED"
    /\ UNCHANGED <<owner, collectible, link, market, pc, by, target, visible, money, failures>>

(* The final refund voids the order's tickets, scanned ones too.           *)
VoidTicket ==
    /\ NoteOverlap
    /\ status \in {"ISSUED", "SCANNED"}
    /\ status' = "VOIDED"
    /\ UNCHANGED <<owner, collectible, link, market, pc, by, target, visible, money, failures>>

(* The process dies, or a statement throws, between two awaits; a          *)
(* transaction that did not commit leaves nothing.                         *)
CutShort(c) ==
    /\ pc[c] \in UnderWay
    /\ Fail
    /\ Goto(c, "dead")
    /\ UNCHANGED <<ticket, link, market, by, target, visible, money, overlapped>>

TransferStep ==
    \/ \E s \in Shares : ShareSweep(s) \/ ShareCommit(s)
    \/ \E s \in Shares, u \in Users : Share(s, u)
    \/ \E c \in Claims, u \in Users, s \in Shares : Claim(c, u, s)
    \/ \E c \in Claims : ClaimCommit(c)
    \/ \E w \in Withdrawals, u \in Users : Withdraw(w, u)
    \/ \E w \in Withdrawals : WithdrawCommit(w)

ResaleStep ==
    \/ \E o \in Offers, u \in Users : Offer(o, u)
    \/ \E o \in Offers : OfferLook(o) \/ OfferCreate(o) \/ CancelListing(o)
    \/ \E p \in Purchases, u \in Users, o \in Offers : Buy(p, u, o)
    \/ \E p \in Purchases : Debit(p) \/ Take(p) \/ PaySeller(p) \/ Undo(p)
    \/ \E p \in Purchases : TakeOrPayThrows(p)

Next ==
    \/ TransferStep
    \/ ResaleStep
    \/ \E n \in Collects, u \in Users : Collect(n, u)
    \/ \E n \in Collects : CollectBind(n)
    \/ Scan
    \/ VoidTicket
    \/ \E c \in Calls : CutShort(c)

Spec == Init /\ [][Next]_vars

-------------------------------------------------------------------------------
(* Properties.                                                             *)

(* The ticket changes hands only by a transfer that was claimed or a       *)
(* listing that was sold in the same step, to the user who claimed or paid *)
(* for it; and neither a claimed transfer nor a sold listing is ever used  *)
(* again (the conditional claims in claim and buyListing).                 *)
GrantsUsedOnce ==
    [][/\ owner' # owner =>
            \/ \E s \in Shares, c \in Claims :
                  /\ link[s] = "open" /\ link'[s] = "claimed"
                  /\ target[c] = s /\ by[c] = owner'
            \/ \E o \in Offers, p \in Purchases :
                  /\ listing[o] = "LISTED" /\ listing'[o] = "SOLD"
                  /\ sale'[o] = p /\ by[p] = owner' /\ p \in paid
       /\ \A s \in Shares : link[s] = "claimed" => link'[s] = "claimed"
       /\ \A o \in Offers : listing[o] = "SOLD" =>
            listing'[o] = "SOLD" /\ sale'[o] = sale[o]]_vars

(* Two buyers race for one listing and calls fail: only the one who took   *)
(* it pays the seller, and only the others are refunded, at most what they *)
(* paid (buyListing and its catch).                                        *)
PurchasesSettle ==
    /\ returned \subseteq paid
    /\ proceeds \subseteq paid \ returned
    /\ \A p \in proceeds : listing[target[p]] = "SOLD" /\ sale[target[p]] = p
    /\ \A p \in Purchases :
        /\ pc[p] = "done" => p \in proceeds
        /\ pc[p] = "refused" => (p \in paid => p \in returned)

(* A purchase that has ended is all or nothing: the buyer paid, the seller *)
(* was paid and the listing went to this buyer, or none of it happened     *)
(* (resale.service.ts: "All-or-nothing atomic").                           *)
AllOrNothing ==
    \A p \in Purchases : pc[p] \in Ended =>
        \/ /\ p \in paid \ returned
           /\ p \in proceeds
           /\ sale[target[p]] = p
        \/ /\ p \notin paid \ returned
           /\ p \notin proceeds
           /\ \A o \in Offers : sale[o] # p

(* That holds in every race of buyers as long as nothing fails.            *)
RacesAreAllOrNothing == failures = 0 => AllOrNothing

Unsold == \A o \in Offers : listing[o] # "SOLD"
NeverClaimed == \A s \in Shares : link[s] # "claimed"

(* While calls take turns a second share replaces the first: there is one  *)
(* open link at a time (the comment on create).                            *)
OneOpenLink ==
    ~overlapped => \A s, t \in Shares : link[s] = "open" /\ link[t] = "open" => s = t

(* While calls take turns and nothing is resold, an open link was made by  *)
(* the present holder: a former holder cannot claw the ticket back (the    *)
(* comment in claim).                                                      *)
LinksAreOwners ==
    ~overlapped /\ Unsold => \A s \in Shares : link[s] = "open" => by[s] = owner

(* ... and the collectible is bound to the holder or to nobody, whatever   *)
(* transfers there were (schema.prisma on nftClaimedWallet).               *)
CollectibleFollowsOwner == ~overlapped /\ Unsold => collectible \in {Nobody, owner}

(* ... and a ticket that was scanned or voided stays with its holder.      *)
UsedTicketsStay ==
    [][~overlapped /\ Unsold' /\ status # "ISSUED" => owner' = owner]_vars

(* While calls take turns a ticket is listed once at a time, and the       *)
(* seller of an active listing holds it unless it was transferred          *)
(* ("Ticket already listed", "Not your ticket").                           *)
OneListingByHolder ==
    ~overlapped =>
        /\ \A o, q \in Offers : listing[o] = "LISTED" /\ listing[q] = "LISTED" => o = q
        /\ NeverClaimed => \A o \in Offers : listing[o] = "LISTED" => by[o] = owner

(* Together: calls that take turns leave one open link and one listing,    *)
(* both of the holder, and a used ticket where it was.                     *)
TurnsKeepOrder == []OneOpenLink /\ []OneListingByHolder /\ UsedTicketsStay

--------------------------------------------------------------------------------
(* What the properties that hold under every interleaving rest on: rows    *)
(* appear only at the end of their call, and the step a purchase is at     *)
(* tells what it has paid, taken and given back.                           *)

RowsComeLast ==
    /\ \A s \in Shares : pc[s] \in {"idle", "checked", "swept"} => link[s] = "none"
    /\ \A o \in Offers : pc[o] \in {"idle", "checked", "clear"} => listing[o] = "none"

CallersKnown == \A c \in Calls : pc[c] # "idle" => by[c] \in Users

TargetsExist ==
    /\ \A c \in Claims : pc[c] # "idle" => target[c] \in Shares
    /\ \A p \in Purchases : pc[p] # "idle" => target[p] \in Offers

Took(p) == listing[target[p]] = "SOLD" /\ sale[target[p]] = p

PurchasePhase(p) ==
    /\ pc[p] \in {"idle", "checked"} => p \notin paid
    /\ pc[p] \in {"paid", "taken", "undo", "done"} => p \in paid
    /\ pc[p] \in {"taken", "done"} => Took(p)
    /\ pc[p] = "refused" => (p \in paid => p \in returned)
    /\ (p \in proceeds) <=> (pc[p] = "done")
    /\ p \in returned => pc[p] = "refused" /\ p \in paid

CallsFit ==
    /\ TypeOK
    /\ RowsComeLast
    /\ CallersKnown
    /\ TargetsExist
    /\ \A p \in Purchases : PurchasePhase(p)

(* As long as nothing fails, whoever took a listing goes on to pay for it. *)
TakersPay ==
    failures = 0 =>
        /\ \A c \in Calls : pc[c] # "dead"
        /\ \A o \in Offers : sale[o] # Nobody => pc[sale[o]] \in {"taken", "done"}

(* While calls take turns, what a call has read still holds when it        *)
(* writes: the links it will cancel, the ticket's status, no listing yet,  *)
(* and the holder, unless the ticket was transferred.                      *)
ReadsStillHold ==
    ~overlapped =>
        /\ \A c, d \in Calls : pc[c] \in UnderWay /\ pc[d] \in UnderWay => c = d
        /\ \A s \in Shares : pc[s] = "swept" => {t \in Shares : link[t] = "open"} \subseteq visible[s]
        /\ \A s, t \in Shares : link[s] = "open" /\ link[t] = "open" => s = t
        /\ \A c \in Claims : pc[c] = "checked" => status = "ISSUED"
        /\ \A o, q \in Offers : pc[o] = "clear" => listing[q] # "LISTED"
        /\ \A o, q \in Offers : listing[o] = "LISTED" /\ listing[q] = "LISTED" => o = q
        /\ NeverClaimed =>
               \A o \in Offers : pc[o] \in UnderWay \/ listing[o] = "LISTED" => by[o] = owner

(* The inductive invariant.                                                *)
IInv == CallsFit /\ TakersPay /\ ReadsStillHold

(* What the properties of transfers rest on: while calls take turns, the   *)
(* one call under way knows the present holder and the links there are.    *)
InTurn ==
    ~overlapped /\ Unsold =>
        /\ \A c, d \in Calls : pc[c] \in UnderWay /\ pc[d] \in UnderWay => c = d
        /\ \A s \in Shares : pc[s] \in UnderWay => by[s] = owner
        /\ \A s \in Shares : pc[s] = "swept" => {t \in Shares : link[t] = "open"} \subseteq visible[s]
        /\ \A s \in Shares : link[s] = "open" => by[s] = owner
        /\ \A s, t \in Shares : link[s] = "open" /\ link[t] = "open" => s = t
        /\ \A n \in Collects : pc[n] \in UnderWay => by[n] = owner
        /\ collectible \in {Nobody, owner}

(* Users, and calls of one kind, are interchangeable.                      *)
CallSymmetry ==
    UNION {Permutations(Users), Permutations(Shares), Permutations(Claims),
           Permutations(Offers), Permutations(Purchases), Permutations(Collects)}
================================================================================
