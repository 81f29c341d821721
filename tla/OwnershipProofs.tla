---------------------------- MODULE OwnershipProofs ----------------------------
(***************************************************************************)
(* Proofs about TicketOwnership, for any sets of users and calls, however  *)
(* they overlap, and any number of failures.                               *)
(***************************************************************************)
EXTENDS TicketOwnership, TLAPS

LEMMA InitCallsFit == Init => CallsFit
<1> SUFFICES ASSUME Init PROVE CallsFit
    OBVIOUS
<1>1. overlapped \in BOOLEAN
    BY Zenon DEF Init
<1>2. TypeOK
    BY <1>1, OwnershipAssumption
       DEF Init, TypeOK, Calls, LinkStates, ListingStates, UnderWay, Ended
<1>3. RowsComeLast /\ CallersKnown /\ TargetsExist /\ \A p \in Purchases : PurchasePhase(p)
    BY OwnershipAssumption
       DEF Init, RowsComeLast, CallersKnown, TargetsExist, PurchasePhase, Calls
<1> QED
    BY <1>2, <1>3 DEF CallsFit

LEMMA LinksStayTyped ==
    ASSUME TypeOK, NEW some
    PROVE  CancelLinks(some) \in [Shares -> LinkStates]
BY DEF CancelLinks, TypeOK, LinkStates

-------------------------------------------------------------------------------
(* Type correctness.                                                       *)

LEMMA TypeStep ==
    ASSUME CallsFit, [Next]_vars
    PROVE  TypeOK'
<1> USE OwnershipAssumption
    DEF TypeOK, ticket, market, money, Goto, Start, NoteOverlap, Fail, UnderWay, Ended, Calls
<1>0. TypeOK /\ CallersKnown /\ TargetsExist
    BY DEF CallsFit
<1>1. ASSUME NEW s \in Shares, ShareSweep(s) \/ ShareCommit(s)
      PROVE  TypeOK'
    BY <1>0, <1>1, LinksStayTyped DEF ShareSweep, ShareCommit, LinkStates
<1>2. ASSUME NEW s \in Shares, NEW u \in Users, Share(s, u)
      PROVE  TypeOK'
    BY <1>0, <1>2 DEF Share
<1>3. ASSUME NEW c \in Claims, NEW u \in Users, NEW s \in Shares, Claim(c, u, s)
      PROVE  TypeOK'
    BY <1>0, <1>3 DEF Claim
<1>4. ASSUME NEW c \in Claims, ClaimCommit(c)
      PROVE  TypeOK'
    BY <1>0, <1>4, LinksStayTyped DEF ClaimCommit, LinkStates, CallersKnown
<1>5. ASSUME NEW w \in Withdrawals, NEW u \in Users, Withdraw(w, u)
      PROVE  TypeOK'
    BY <1>0, <1>5 DEF Withdraw
<1>6. ASSUME NEW w \in Withdrawals, WithdrawCommit(w)
      PROVE  TypeOK'
    BY <1>0, <1>6, LinksStayTyped DEF WithdrawCommit
<1>7. ASSUME NEW o \in Offers, NEW u \in Users, Offer(o, u)
      PROVE  TypeOK'
    BY <1>0, <1>7 DEF Offer
<1>8. ASSUME NEW o \in Offers, OfferLook(o) \/ OfferCreate(o) \/ CancelListing(o)
      PROVE  TypeOK'
    BY <1>0, <1>8 DEF OfferLook, OfferCreate, CancelListing, ListingStates
<1>9. ASSUME NEW p \in Purchases, NEW u \in Users, NEW o \in Offers, Buy(p, u, o)
      PROVE  TypeOK'
    BY <1>0, <1>9 DEF Buy
<1>10. ASSUME NEW p \in Purchases, Take(p)
       PROVE  TypeOK'
    BY <1>0, <1>10 DEF Take, ListingStates, CallersKnown
<1>11. ASSUME NEW p \in Purchases, Debit(p) \/ PaySeller(p) \/ Undo(p) \/ TakeOrPayThrows(p)
       PROVE  TypeOK'
    BY <1>0, <1>11 DEF Debit, PaySeller, Undo, TakeOrPayThrows
<1>12. ASSUME NEW n \in Collects, NEW u \in Users, Collect(n, u)
       PROVE  TypeOK'
    BY <1>0, <1>12 DEF Collect
<1>13. ASSUME NEW n \in Collects, CollectBind(n)
       PROVE  TypeOK'
    BY <1>0, <1>13 DEF CollectBind, CallersKnown
<1>14. CASE Scan \/ VoidTicket
    BY <1>0, <1>14 DEF Scan, VoidTicket
<1>15. ASSUME NEW c \in Calls, CutShort(c)
       PROVE  TypeOK'
    BY <1>0, <1>15 DEF CutShort
<1>16. CASE UNCHANGED vars
    BY <1>0, <1>16 DEF vars
<1> QED
    BY <1>1, <1>2, <1>3, <1>4, <1>5, <1>6, <1>7, <1>8, <1>9, <1>10, <1>11, <1>12,
       <1>13, <1>14, <1>15, <1>16
       DEF Next, TransferStep, ResaleStep

-------------------------------------------------------------------------------
(* A call's own step is its only change of pc, by and target.              *)

LEMMA CallersStep ==
    ASSUME CallsFit, [Next]_vars
    PROVE  CallersKnown' /\ TargetsExist'
<1> USE OwnershipAssumption
    DEF CallsFit, TypeOK, CallersKnown, TargetsExist, Goto, Start, UnderWay, Ended, Calls
<1>1. ASSUME NEW s \in Shares,
             ShareSweep(s) \/ ShareCommit(s) \/ \E u \in Users : Share(s, u)
      PROVE  CallersKnown' /\ TargetsExist'
    BY <1>1 DEF ShareSweep, ShareCommit, Share
<1>2. ASSUME NEW c \in Claims,
             ClaimCommit(c) \/ \E u \in Users, s \in Shares : Claim(c, u, s)
      PROVE  CallersKnown' /\ TargetsExist'
    BY <1>2 DEF ClaimCommit, Claim
<1>3. ASSUME NEW w \in Withdrawals, WithdrawCommit(w) \/ \E u \in Users : Withdraw(w, u)
      PROVE  CallersKnown' /\ TargetsExist'
    BY <1>3 DEF WithdrawCommit, Withdraw
<1>4. ASSUME NEW o \in Offers,
             OfferLook(o) \/ OfferCreate(o) \/ CancelListing(o) \/ \E u \in Users : Offer(o, u)
      PROVE  CallersKnown' /\ TargetsExist'
    BY <1>4 DEF OfferLook, OfferCreate, CancelListing, Offer
<1>5. ASSUME NEW p \in Purchases,
             \/ Debit(p) \/ Take(p) \/ PaySeller(p) \/ Undo(p) \/ TakeOrPayThrows(p)
             \/ \E u \in Users, o \in Offers : Buy(p, u, o)
      PROVE  CallersKnown' /\ TargetsExist'
    BY <1>5 DEF Debit, Take, PaySeller, Undo, TakeOrPayThrows, Buy
<1>6. ASSUME NEW n \in Collects, CollectBind(n) \/ \E u \in Users : Collect(n, u)
      PROVE  CallersKnown' /\ TargetsExist'
    BY <1>6 DEF CollectBind, Collect
<1>7. ASSUME NEW c \in Calls, CutShort(c)
      PROVE  CallersKnown' /\ TargetsExist'
    BY <1>7 DEF CutShort
<1>8. CASE Scan \/ VoidTicket \/ UNCHANGED vars
    BY <1>8 DEF Scan, VoidTicket, vars
<1> QED
    BY <1>1, <1>2, <1>3, <1>4, <1>5, <1>6, <1>7, <1>8 DEF Next, TransferStep, ResaleStep

LEMMA NoneStays ==
    ASSUME TypeOK, NEW some, NEW s \in Shares, link[s] = "none"
    PROVE  CancelLinks(some)[s] = "none"
BY DEF CancelLinks

LEMMA RowsStep ==
    ASSUME CallsFit, [Next]_vars
    PROVE  RowsComeLast'
<1> USE OwnershipAssumption
    DEF CallsFit, TypeOK, RowsComeLast, TargetsExist, market, Goto, Start, UnderWay, Ended, Calls
<1>1. ASSUME NEW s \in Shares,
             ShareSweep(s) \/ ShareCommit(s) \/ \E u \in Users : Share(s, u)
      PROVE  RowsComeLast'
  <2>1. CASE ShareSweep(s) \/ \E u \in Users : Share(s, u)
      BY <2>1 DEF ShareSweep, Share
  <2>2. CASE ShareCommit(s)
    <3>1. /\ pc' = [pc EXCEPT ![s] = "done"]
          /\ \A t \in Shares \ {s} : link'[t] = CancelLinks(visible[s])[t]
          /\ UNCHANGED listing
        BY <2>2, LinksStayTyped DEF ShareCommit
    <3> QED
        BY <3>1, NoneStays
  <2> QED
      BY <1>1, <2>1, <2>2
<1>2. ASSUME NEW c \in Claims,
             ClaimCommit(c) \/ \E u \in Users, s \in Shares : Claim(c, u, s)
      PROVE  RowsComeLast'
  <2>1. CASE \E u \in Users, s \in Shares : Claim(c, u, s)
      BY <2>1 DEF Claim
  <2>2. CASE ClaimCommit(c) /\ link[target[c]] = "open"
    <3>1. /\ pc' = [pc EXCEPT ![c] = "done"]
          /\ \A t \in Shares \ {target[c]} : link'[t] = CancelLinks(Shares)[t]
          /\ UNCHANGED listing
        BY <2>2, LinksStayTyped DEF ClaimCommit
    <3>2. link[target[c]] # "none"
        BY <2>2
    <3> QED
        BY <3>1, <3>2, NoneStays
  <2>3. CASE ClaimCommit(c) /\ link[target[c]] # "open"
      BY <2>3 DEF ClaimCommit
  <2> QED
      BY <1>2, <2>1, <2>2, <2>3
<1>3. ASSUME NEW w \in Withdrawals, WithdrawCommit(w) \/ \E u \in Users : Withdraw(w, u)
      PROVE  RowsComeLast'
    BY <1>3, NoneStays DEF WithdrawCommit, Withdraw
<1>4. ASSUME NEW o \in Offers,
             OfferLook(o) \/ OfferCreate(o) \/ CancelListing(o) \/ \E u \in Users : Offer(o, u)
      PROVE  RowsComeLast'
    BY <1>4 DEF OfferLook, OfferCreate, CancelListing, Offer
<1>5. ASSUME NEW p \in Purchases,
             \/ Debit(p) \/ Take(p) \/ PaySeller(p) \/ Undo(p) \/ TakeOrPayThrows(p)
             \/ \E u \in Users, o \in Offers : Buy(p, u, o)
      PROVE  RowsComeLast'
    BY <1>5 DEF Debit, Take, PaySeller, Undo, TakeOrPayThrows, Buy
<1>6. ASSUME NEW n \in Collects, CollectBind(n) \/ \E u \in Users : Collect(n, u)
      PROVE  RowsComeLast'
    BY <1>6 DEF CollectBind, Collect
<1>7. ASSUME NEW c \in Calls, CutShort(c)
      PROVE  RowsComeLast'
    BY <1>7 DEF CutShort
<1>8. CASE Scan \/ VoidTicket \/ UNCHANGED vars
    BY <1>8 DEF Scan, VoidTicket, vars
<1> QED
    BY <1>1, <1>2, <1>3, <1>4, <1>5, <1>6, <1>7, <1>8 DEF Next, TransferStep, ResaleStep

-------------------------------------------------------------------------------
(* The money of a purchase.                                                *)

(* A sold listing stays with the purchase it went to.                      *)
LEMMA SoldForGood ==
    ASSUME CallsFit, [Next]_vars, NEW o \in Offers, listing[o] = "SOLD"
    PROVE  listing'[o] = "SOLD" /\ sale'[o] = sale[o]
<1> USE OwnershipAssumption DEF CallsFit, TypeOK, market, ListingStates
<1>1. ASSUME NEW q \in Offers, OfferCreate(q)
      PROVE  listing'[o] = "SOLD" /\ sale'[o] = sale[o]
    BY <1>1 DEF OfferCreate, RowsComeLast
<1>2. ASSUME NEW p \in Purchases, Take(p)
      PROVE  listing'[o] = "SOLD" /\ sale'[o] = sale[o]
    BY <1>2 DEF Take
<1>3. CASE TransferStep
    BY <1>3 DEF TransferStep, ShareSweep, ShareCommit, Share, ClaimCommit, Claim,
                WithdrawCommit, Withdraw
<1>4. ASSUME NEW q \in Offers, OfferLook(q) \/ CancelListing(q) \/ \E u \in Users : Offer(q, u)
      PROVE  listing'[o] = "SOLD" /\ sale'[o] = sale[o]
    BY <1>4 DEF OfferLook, CancelListing, Offer
<1>5. ASSUME NEW p \in Purchases,
             \/ Debit(p) \/ PaySeller(p) \/ Undo(p) \/ TakeOrPayThrows(p)
             \/ \E u \in Users, q \in Offers : Buy(p, u, q)
      PROVE  listing'[o] = "SOLD" /\ sale'[o] = sale[o]
    BY <1>5 DEF Debit, PaySeller, Undo, TakeOrPayThrows, Buy
<1>6. CASE \/ \E n \in Collects, u \in Users : Collect(n, u)
           \/ \E n \in Collects : CollectBind(n)
           \/ Scan \/ VoidTicket \/ (\E c \in Calls : CutShort(c)) \/ UNCHANGED vars
    BY <1>6 DEF Collect, CollectBind, Scan, VoidTicket, CutShort, vars
<1> QED
    BY <1>1, <1>2, <1>3, <1>4, <1>5, <1>6 DEF Next, ResaleStep

(* A step that is not the purchase's own.                                  *)
LEMMA PhaseKept ==
    ASSUME CallsFit, [Next]_vars, NEW p \in Purchases, pc'[p] = pc[p],
           (p \in paid') <=> (p \in paid), (p \in returned') <=> (p \in returned),
           (p \in proceeds') <=> (p \in proceeds), target'[p] = target[p]
    PROVE  PurchasePhase(p)'
<1>1. PurchasePhase(p) /\ (pc[p] # "idle" => target[p] \in Offers)
    BY DEF CallsFit, TargetsExist
<1>2. pc[p] \in {"taken", "done"} => listing'[target[p]] = "SOLD" /\ sale'[target[p]] = p
    BY <1>1, SoldForGood DEF PurchasePhase, Took
<1> QED
    BY <1>1, <1>2 DEF PurchasePhase, Took

LEMMA PhasesStep ==
    ASSUME CallsFit, [Next]_vars, NEW p \in Purchases
    PROVE  PurchasePhase(p)'
<1> DEFINE Same == /\ pc'[p] = pc[p]
                   /\ target'[p] = target[p]
                   /\ (p \in paid') <=> (p \in paid)
                   /\ (p \in returned') <=> (p \in returned)
                   /\ (p \in proceeds') <=> (p \in proceeds)
<1>0. Same => PurchasePhase(p)'
    BY PhaseKept
<1> USE OwnershipAssumption DEF CallsFit, TypeOK, market, money, Goto, Start, Calls
<1>1. CASE TransferStep
    BY <1>0, <1>1 DEF TransferStep, ShareSweep, ShareCommit, Share, ClaimCommit,
                      Claim, WithdrawCommit, Withdraw
<1>2. ASSUME NEW o \in Offers,
             OfferLook(o) \/ OfferCreate(o) \/ CancelListing(o) \/ \E u \in Users : Offer(o, u)
      PROVE  PurchasePhase(p)'
    BY <1>0, <1>2 DEF OfferLook, OfferCreate, CancelListing, Offer
<1>3. ASSUME NEW q \in Purchases \ {p},
             \/ Debit(q) \/ Take(q) \/ PaySeller(q) \/ Undo(q) \/ TakeOrPayThrows(q)
             \/ \E u \in Users, o \in Offers : Buy(q, u, o)
      PROVE  PurchasePhase(p)'
    BY <1>0, <1>3 DEF Debit, Take, PaySeller, Undo, TakeOrPayThrows, Buy
<1>4. CASE \E u \in Users, o \in Offers : Buy(p, u, o)
    BY <1>4 DEF Buy, PurchasePhase, Took
<1>5. CASE Debit(p)
    BY <1>5 DEF Debit, PurchasePhase, Took
<1>6. CASE Take(p)
    BY <1>6 DEF Take, PurchasePhase, Took, TargetsExist
<1>7. CASE PaySeller(p)
    BY <1>7 DEF PaySeller, PurchasePhase, Took
<1>8. CASE Undo(p)
    BY <1>8 DEF Undo, PurchasePhase, Took
<1>9. CASE TakeOrPayThrows(p)
    BY <1>9 DEF TakeOrPayThrows, PurchasePhase, Took
<1>10. ASSUME NEW n \in Collects, CollectBind(n) \/ \E u \in Users : Collect(n, u)
       PROVE  PurchasePhase(p)'
    BY <1>0, <1>10 DEF CollectBind, Collect
<1>11. ASSUME NEW c \in Calls, CutShort(c)
       PROVE  PurchasePhase(p)'
  <2>1. CASE c = p
      BY <1>11, <2>1 DEF CutShort, PurchasePhase, Took, UnderWay
  <2>2. CASE c # p
      BY <1>0, <1>11, <2>2 DEF CutShort
  <2> QED
      BY <2>1, <2>2
<1>12. CASE Scan \/ VoidTicket \/ UNCHANGED vars
    BY <1>0, <1>12 DEF Scan, VoidTicket, vars
<1> QED
    BY <1>1, <1>2, <1>3, <1>4, <1>5, <1>6, <1>7, <1>8, <1>9, <1>10, <1>11, <1>12
       DEF Next, ResaleStep

-------------------------------------------------------------------------------
LEMMA CallsFitStep == CallsFit /\ [Next]_vars => CallsFit'
BY TypeStep, CallersStep, RowsStep, PhasesStep DEF CallsFit

LEMMA CallsAlwaysFit == Spec => []CallsFit
<1>1. Init => CallsFit
    BY InitCallsFit
<1>2. CallsFit /\ [Next]_vars => CallsFit'
    BY CallsFitStep
<1> QED
    BY <1>1, <1>2, PTL DEF Spec

(* Every variable keeps its type.                                          *)
THEOREM TypeCorrect == Spec => []TypeOK
<1>1. CallsFit => TypeOK
    BY DEF CallsFit
<1> QED
    BY <1>1, CallsAlwaysFit, PTL

(* However buyers race and calls fail, only the purchase that took the     *)
(* listing pays its seller, once, and the others get their money back.     *)
THEOREM PurchasesAlwaysSettle == Spec => []PurchasesSettle
<1>1. CallsFit => PurchasesSettle
    BY DEF CallsFit, TypeOK, PurchasePhase, PurchasesSettle, Took
<1> QED
    BY <1>1, CallsAlwaysFit, PTL

(* The ticket changes hands only by a transfer claimed or a listing sold   *)
(* in the same step, and neither is ever used again.                       *)
LEMMA GrantStep ==
    ASSUME CallsFit, [Next]_vars, owner' # owner
    PROVE  \/ \E s \in Shares, c \in Claims :
                 /\ link[s] = "open" /\ link'[s] = "claimed"
                 /\ target[c] = s /\ by[c] = owner'
           \/ \E o \in Offers, p \in Purchases :
                 /\ listing[o] = "LISTED" /\ listing'[o] = "SOLD"
                 /\ sale'[o] = p /\ by[p] = owner' /\ p \in paid
<1>1. \/ \E c \in Claims : ClaimCommit(c)
      \/ \E p \in Purchases : Take(p)
    BY DEF Next, TransferStep, ResaleStep, ShareSweep, ShareCommit, Share, Claim,
           Withdraw, WithdrawCommit, Offer, OfferLook, OfferCreate, CancelListing, Buy,
           Debit, PaySeller, Undo, TakeOrPayThrows, Collect, CollectBind, Scan, VoidTicket,
           CutShort, ticket, vars
<1>2. ASSUME NEW c \in Claims, ClaimCommit(c)
      PROVE  /\ target[c] \in Shares
             /\ link[target[c]] = "open" /\ link'[target[c]] = "claimed"
             /\ by[c] = owner'
  <2>1. target[c] \in Shares
      BY <1>2 DEF CallsFit, TargetsExist, ClaimCommit
  <2> QED
      BY <1>2, <2>1 DEF ClaimCommit, CancelLinks
<1>3. ASSUME NEW p \in Purchases, Take(p)
      PROVE  /\ target[p] \in Offers
             /\ listing[target[p]] = "LISTED" /\ listing'[target[p]] = "SOLD"
             /\ sale'[target[p]] = p /\ by[p] = owner' /\ p \in paid
  <2>1. target[p] \in Offers /\ p \in paid
      BY <1>3 DEF CallsFit, TargetsExist, PurchasePhase, Take
  <2> QED
      BY <1>3, <2>1 DEF Take, CallsFit, TypeOK
<1> QED
    BY <1>1, <1>2, <1>3

LEMMA ClaimedForGood ==
    ASSUME CallsFit, [Next]_vars, NEW s \in Shares, link[s] = "claimed"
    PROVE  link'[s] = "claimed"
<1> USE OwnershipAssumption DEF CallsFit, TypeOK, LinkStates, CancelLinks
<1>1. ASSUME NEW t \in Shares, ShareCommit(t)
      PROVE  link'[s] = "claimed"
    BY <1>1 DEF ShareCommit, RowsComeLast
<1>2. ASSUME NEW c \in Claims, ClaimCommit(c)
      PROVE  link'[s] = "claimed"
    BY <1>2 DEF ClaimCommit
<1>3. ASSUME NEW w \in Withdrawals, WithdrawCommit(w)
      PROVE  link'[s] = "claimed"
    BY <1>3 DEF WithdrawCommit
<1>4. CASE UNCHANGED link
    BY <1>4
<1> QED
    BY <1>1, <1>2, <1>3, <1>4
       DEF Next, TransferStep, ResaleStep, ShareSweep, Share, Claim, Withdraw, Offer,
           OfferLook, OfferCreate, CancelListing, Buy, Debit, Take, PaySeller, Undo,
           TakeOrPayThrows, Collect, CollectBind, Scan, VoidTicket, CutShort, vars

THEOREM GrantsAreUsedOnce == Spec => GrantsUsedOnce
<1>1. CallsFit /\ [Next]_vars =>
        [/\ owner' # owner =>
              \/ \E s \in Shares, c \in Claims :
                    /\ link[s] = "open" /\ link'[s] = "claimed"
                    /\ target[c] = s /\ by[c] = owner'
              \/ \E o \in Offers, p \in Purchases :
                    /\ listing[o] = "LISTED" /\ listing'[o] = "SOLD"
                    /\ sale'[o] = p /\ by[p] = owner' /\ p \in paid
         /\ \A s \in Shares : link[s] = "claimed" => link'[s] = "claimed"
         /\ \A o \in Offers : listing[o] = "SOLD" =>
              listing'[o] = "SOLD" /\ sale'[o] = sale[o]]_vars
    BY GrantStep, ClaimedForGood, SoldForGood
<1> QED
    BY <1>1, CallsAlwaysFit, PTL DEF Spec, GrantsUsedOnce

-------------------------------------------------------------------------------
(* While calls take turns and nothing is resold.                           *)

LEMMA InitInTurn == Init => InTurn
BY OwnershipAssumption DEF Init, InTurn, UnderWay, Calls

(* A step that takes its turn found no call under way but the one it is of.*)
LEMMA TurnsStep ==
    ASSUME CallsFit, [Next]_vars, ~overlapped', Unsold'
    PROVE  ~overlapped /\ Unsold
<1>1. Unsold
    BY SoldForGood DEF Unsold
<1>2. ~overlapped
    BY DEF Next, TransferStep, ResaleStep, ShareSweep, ShareCommit, Share, Claim,
           ClaimCommit, Withdraw, WithdrawCommit, Offer, OfferLook, OfferCreate,
           CancelListing, Buy, Debit, Take, PaySeller, Undo, TakeOrPayThrows, Collect,
           CollectBind, Scan, VoidTicket, CutShort, Start, NoteOverlap, vars
<1> QED
    BY <1>1, <1>2

(* A step of a call that shares and collects nothing, which may cancel     *)
(* links but moves no ticket.                                              *)
LEMMA OtherCallStep ==
    ASSUME CallsFit, InTurn, ~overlapped, Unsold, NEW c \in Calls \ (Shares \cup Collects),
           pc[c] \in UnderWay \/ Busy = {},
           NEW step, pc' = [pc EXCEPT ![c] = step],
           \A d \in Calls \ {c} : by'[d] = by[d],
           UNCHANGED <<owner, collectible, visible>>,
           \A s \in Shares : link'[s] = "open" => link[s] = "open"
    PROVE  InTurn'
<1>1. /\ \A d, e \in Calls : pc[d] \in UnderWay /\ pc[e] \in UnderWay => d = e
      /\ \A s \in Shares : pc[s] \in UnderWay => by[s] = owner
      /\ \A s \in Shares : pc[s] = "swept" => {t \in Shares : link[t] = "open"} \subseteq visible[s]
      /\ \A s \in Shares : link[s] = "open" => by[s] = owner
      /\ \A s, t \in Shares : link[s] = "open" /\ link[t] = "open" => s = t
      /\ \A n \in Collects : pc[n] \in UnderWay => by[n] = owner
      /\ collectible \in {Nobody, owner}
    BY DEF InTurn
<1>2. /\ \A d \in Calls \ {c} : pc'[d] = pc[d]
      /\ \A d \in Calls \ {c} : pc[d] \notin UnderWay
    BY <1>1 DEF Busy, CallsFit, TypeOK
<1>3. \A s \in Shares \cup Collects : s \in Calls \ {c}
    BY DEF Calls
<1> QED
    BY <1>1, <1>2, <1>3 DEF InTurn, UnderWay

LEMMA InTurnStep ==
    ASSUME CallsFit, InTurn, [Next]_vars
    PROVE  InTurn'
<1> SUFFICES ASSUME ~overlapped', Unsold'
             PROVE  InTurn'
    BY DEF InTurn
<1>0. ~overlapped /\ Unsold
    BY TurnsStep
<1> USE <1>0, OwnershipAssumption
    DEF CallsFit, TypeOK, ticket, Goto, Start, NoteOverlap, Busy, UnderWay, Calls
<1>1. ASSUME NEW s \in Shares, ShareSweep(s)
      PROVE  InTurn'
    BY <1>1 DEF ShareSweep, InTurn
<1>2. ASSUME NEW s \in Shares, ShareCommit(s)
      PROVE  InTurn'
    BY <1>2 DEF ShareCommit, InTurn, CancelLinks
<1>4. ASSUME NEW s \in Shares, NEW u \in Users, Share(s, u)
      PROVE  InTurn'
    BY <1>4 DEF Share, InTurn, RowsComeLast
<1>5. ASSUME NEW c \in Claims, NEW u \in Users, NEW s \in Shares, Claim(c, u, s)
      PROVE  InTurn'
  <2>1. /\ c \in Calls \ (Shares \cup Collects)
        /\ Busy = {}
        /\ pc' = [pc EXCEPT ![c] = "checked"]
      BY <1>5 DEF Claim
  <2>2. /\ \A d \in Calls \ {c} : by'[d] = by[d]
        /\ UNCHANGED <<owner, collectible, visible, link>>
      BY <1>5 DEF Claim
  <2> QED
      BY <2>1, <2>2, OtherCallStep
<1>6. ASSUME NEW c \in Claims, ClaimCommit(c)
      PROVE  InTurn'
  <2>1. CASE link[target[c]] = "open"
    <3>1. target[c] \in Shares /\ pc' = [pc EXCEPT ![c] = "done"]
        BY <1>6, <2>1 DEF ClaimCommit, TargetsExist
    <3>2. link' = [CancelLinks(Shares) EXCEPT ![target[c]] = "claimed"] /\ collectible' = Nobody
        BY <1>6, <2>1 DEF ClaimCommit
    <3>3. \A s \in Shares : link'[s] # "open"
        BY <3>1, <3>2 DEF CancelLinks
    <3>4. \A d \in Calls : pc'[d] \notin UnderWay
        BY <1>6, <3>1 DEF ClaimCommit, InTurn
    <3> QED
        BY <3>2, <3>3, <3>4 DEF InTurn
  <2>2. CASE link[target[c]] # "open"
      BY <1>6, <2>2 DEF ClaimCommit, InTurn
  <2> QED
      BY <2>1, <2>2
<1>7. ASSUME NEW w \in Withdrawals, WithdrawCommit(w) \/ \E u \in Users : Withdraw(w, u)
      PROVE  InTurn'
  <2>1. /\ w \in Calls \ (Shares \cup Collects)
        /\ pc[w] \in UnderWay \/ Busy = {}
        /\ \E step : pc' = [pc EXCEPT ![w] = step]
      BY <1>7 DEF WithdrawCommit, Withdraw
  <2>2. /\ \A d \in Calls \ {w} : by'[d] = by[d]
        /\ UNCHANGED <<owner, collectible, visible>>
        /\ \A s \in Shares : link'[s] = "open" => link[s] = "open"
      BY <1>7 DEF WithdrawCommit, Withdraw, CancelLinks
  <2> QED
      BY <2>1, <2>2, OtherCallStep
<1>8. ASSUME NEW o \in Offers, OfferLook(o) \/ OfferCreate(o) \/ \E u \in Users : Offer(o, u)
      PROVE  InTurn'
  <2>1. /\ o \in Calls \ (Shares \cup Collects)
        /\ pc[o] \in UnderWay \/ Busy = {}
        /\ \E step : pc' = [pc EXCEPT ![o] = step]
      BY <1>8 DEF OfferLook, OfferCreate, Offer
  <2>2. /\ \A d \in Calls \ {o} : by'[d] = by[d]
        /\ UNCHANGED <<owner, collectible, visible, link>>
      BY <1>8 DEF OfferLook, OfferCreate, Offer
  <2> QED
      BY <2>1, <2>2, OtherCallStep
<1>13. ASSUME NEW p \in Purchases,
              \/ Debit(p) \/ PaySeller(p) \/ Undo(p) \/ TakeOrPayThrows(p)
              \/ \E u \in Users, o \in Offers : Buy(p, u, o)
       PROVE  InTurn'
  <2>1. /\ p \in Calls \ (Shares \cup Collects)
        /\ pc[p] \in UnderWay \/ Busy = {}
        /\ \E step : pc' = [pc EXCEPT ![p] = step]
      BY <1>13 DEF Debit, PaySeller, Undo, TakeOrPayThrows, Buy
  <2>2. /\ \A d \in Calls \ {p} : by'[d] = by[d]
        /\ UNCHANGED <<owner, collectible, visible, link>>
      BY <1>13 DEF Debit, PaySeller, Undo, TakeOrPayThrows, Buy
  <2> QED
      BY <2>1, <2>2, OtherCallStep
<1>14. ASSUME NEW p \in Purchases, Take(p)
       PROVE  InTurn'
  <2>1. target[p] \in Offers /\ listing'[target[p]] # "SOLD"
      BY <1>14 DEF Take, TargetsExist, Unsold
  <2>2. UNCHANGED <<owner, ticket, link, by, visible, overlapped>> /\ pc' = [pc EXCEPT ![p] = "undo"]
      BY <1>14, <2>1 DEF Take
  <2> QED
      BY <1>14, <2>2 DEF Take, InTurn
<1>9. ASSUME NEW n \in Collects, NEW u \in Users, Collect(n, u)
      PROVE  InTurn'
    BY <1>9 DEF Collect, InTurn
<1>10. ASSUME NEW n \in Collects, CollectBind(n)
       PROVE  InTurn'
    BY <1>10 DEF CollectBind, InTurn
<1>11. ASSUME NEW c \in Calls, CutShort(c)
       PROVE  InTurn'
    BY <1>11 DEF CutShort, InTurn
<1>12. CASE Scan \/ VoidTicket \/ (\E o \in Offers : CancelListing(o)) \/ UNCHANGED vars
    BY <1>12 DEF Scan, VoidTicket, CancelListing, vars, InTurn
<1> QED
    BY <1>1, <1>2, <1>4, <1>5, <1>6, <1>7, <1>8, <1>9, <1>10, <1>11, <1>12, <1>13, <1>14
       DEF Next, TransferStep, ResaleStep

(* While calls take turns and nothing is resold, the call under way knows  *)
(* the present holder and the links there are.                             *)
THEOREM InTurnAlways == Spec => []InTurn
<1>1. Init => InTurn
    BY InitInTurn
<1>2. CallsFit /\ InTurn /\ [Next]_vars => InTurn'
    BY InTurnStep
<1> QED
    BY <1>1, <1>2, CallsAlwaysFit, PTL DEF Spec

(* A former holder cannot claw the ticket back, as long as calls take      *)
(* turns and nothing is resold.                                            *)
THEOREM NoClawBack == Spec => []LinksAreOwners
<1>1. InTurn => LinksAreOwners
    BY DEF InTurn, LinksAreOwners
<1> QED
    BY <1>1, InTurnAlways, PTL

(* ... and the collectible stays with the holder.                          *)
THEOREM CollectibleStays == Spec => []CollectibleFollowsOwner
<1>1. InTurn => CollectibleFollowsOwner
    BY DEF InTurn, CollectibleFollowsOwner
<1> QED
    BY <1>1, InTurnAlways, PTL

-------------------------------------------------------------------------------
(* Purchases as long as nothing fails.                                     *)

LEMMA InitTakersPay == Init => TakersPay
BY DEF Init, TakersPay

LEMMA TakersPayStep ==
    ASSUME CallsFit, TakersPay, [Next]_vars
    PROVE  TakersPay'
<1> USE OwnershipAssumption
    DEF CallsFit, TypeOK, TakersPay, ticket, market, money, Goto, Start, Fail, Calls
<1>1. CASE TransferStep
    BY <1>1 DEF TransferStep, ShareSweep, ShareCommit, Share, ClaimCommit, Claim,
                WithdrawCommit, Withdraw
<1>2. ASSUME NEW o \in Offers,
             OfferLook(o) \/ OfferCreate(o) \/ CancelListing(o) \/ \E u \in Users : Offer(o, u)
      PROVE  TakersPay'
    BY <1>2 DEF OfferLook, OfferCreate, CancelListing, Offer
<1>3. ASSUME NEW p \in Purchases,
             \/ Debit(p) \/ Undo(p) \/ TakeOrPayThrows(p)
             \/ \E u \in Users, o \in Offers : Buy(p, u, o)
      PROVE  TakersPay'
    BY <1>3 DEF Debit, Undo, TakeOrPayThrows, Buy
<1>4. ASSUME NEW p \in Purchases, Take(p) \/ PaySeller(p)
      PROVE  TakersPay'
    BY <1>4 DEF Take, PaySeller, TargetsExist
<1>5. ASSUME NEW n \in Collects, CollectBind(n) \/ \E u \in Users : Collect(n, u)
      PROVE  TakersPay'
    BY <1>5 DEF CollectBind, Collect
<1>6. CASE Scan \/ VoidTicket \/ (\E c \in Calls : CutShort(c)) \/ UNCHANGED vars
    BY <1>6 DEF Scan, VoidTicket, CutShort, vars
<1> QED
    BY <1>1, <1>2, <1>3, <1>4, <1>5, <1>6 DEF Next, ResaleStep

-------------------------------------------------------------------------------
(* While calls take turns.                                                 *)

LEMMA InitReadsHold == Init => ReadsStillHold
BY OwnershipAssumption DEF Init, ReadsStillHold, UnderWay, Calls

(* A step of the one call under way, or of one that starts alone, which    *)
(* opens no link and lists nothing: what it has read itself must hold.     *)
LEMMA ReaderStep ==
    ASSUME CallsFit, ReadsStillHold, ~overlapped, NEW c \in Calls,
           pc[c] \in UnderWay \/ Busy = {},
           NEW step, pc' = [pc EXCEPT ![c] = step],
           \A d \in Calls : by'[d] = by[d] \/ (d = c /\ pc[c] = "idle"),
           c \in Shares /\ step = "swept" =>
               {t \in Shares : link'[t] = "open"} \subseteq visible'[c],
           \A s \in Shares : link'[s] = "open" => link[s] = "open",
           c \in Claims /\ step = "checked" => status' = "ISSUED",
           c \in Offers /\ step = "clear" => \A q \in Offers : listing'[q] # "LISTED",
           \A q \in Offers : listing'[q] = "LISTED" => listing[q] = "LISTED",
           NeverClaimed' => NeverClaimed /\ owner' = owner,
           c \in Offers /\ step \in UnderWay /\ NeverClaimed' => by'[c] = owner'
    PROVE  ReadsStillHold'
<1>1. /\ \A d, e \in Calls : pc[d] \in UnderWay /\ pc[e] \in UnderWay => d = e
      /\ \A s, t \in Shares : link[s] = "open" /\ link[t] = "open" => s = t
      /\ \A o, q \in Offers : listing[o] = "LISTED" /\ listing[q] = "LISTED" => o = q
      /\ NeverClaimed => \A o \in Offers : listing[o] = "LISTED" => by[o] = owner
    BY DEF ReadsStillHold
<1>2. /\ \A d \in Calls \ {c} : pc'[d] = pc[d]
      /\ \A d \in Calls \ {c} : pc[d] \notin UnderWay
      /\ pc'[c] = step
    BY <1>1 DEF Busy, CallsFit, TypeOK
<1>3. \A d, e \in Calls : pc'[d] \in UnderWay /\ pc'[e] \in UnderWay => d = e
    BY <1>2
<1>4. \A s \in Shares : pc'[s] = "swept" => {t \in Shares : link'[t] = "open"} \subseteq visible'[s]
    BY <1>2 DEF Calls, UnderWay
<1>5. /\ \A s, t \in Shares : link'[s] = "open" /\ link'[t] = "open" => s = t
      /\ \A o, q \in Offers : listing'[o] = "LISTED" /\ listing'[q] = "LISTED" => o = q
    BY <1>1
<1>6. \A d \in Claims : pc'[d] = "checked" => status' = "ISSUED"
    BY <1>2 DEF Calls, UnderWay
<1>7. \A o, q \in Offers : pc'[o] = "clear" => listing'[q] # "LISTED"
    BY <1>2 DEF Calls, UnderWay
<1>8. ASSUME NeverClaimed', NEW o \in Offers, pc'[o] \in UnderWay \/ listing'[o] = "LISTED"
      PROVE  by'[o] = owner'
  <2>1. CASE listing'[o] = "LISTED"
    <3>1. listing[o] = "LISTED" /\ by[o] = owner
        BY <1>1, <1>8, <2>1
    <3>2. pc[o] # "idle"
        BY <3>1 DEF CallsFit, RowsComeLast
    <3> QED
        BY <1>8, <3>1, <3>2 DEF Calls
  <2>2. CASE pc'[o] \in UnderWay
      BY <1>2, <1>8, <2>2 DEF Calls
  <2> QED
      BY <1>8, <2>1, <2>2
<1> QED
    BY <1>3, <1>4, <1>5, <1>6, <1>7, <1>8 DEF ReadsStillHold

LEMMA ReadsHoldStep ==
    ASSUME CallsFit, ReadsStillHold, [Next]_vars
    PROVE  ReadsStillHold'
<1> SUFFICES ASSUME ~overlapped'
             PROVE  ReadsStillHold'
    BY DEF ReadsStillHold
<1>0. /\ ~overlapped
      /\ NeverClaimed' => NeverClaimed
    <2>1. ~overlapped
        BY DEF Next, TransferStep, ResaleStep, ShareSweep, ShareCommit, Share, Claim,
               ClaimCommit, Withdraw, WithdrawCommit, Offer, OfferLook, OfferCreate,
               CancelListing, Buy, Debit, Take, PaySeller, Undo, TakeOrPayThrows, Collect,
               CollectBind, Scan, VoidTicket, CutShort, Start, NoteOverlap, vars
    <2> QED
        BY <2>1, ClaimedForGood DEF NeverClaimed
<1> USE <1>0, OwnershipAssumption
    DEF CallsFit, TypeOK, ticket, market, money, Goto, Start, NoteOverlap, Busy, UnderWay, Calls
<1>1. ASSUME NEW s \in Shares, ShareSweep(s) \/ \E u \in Users : Share(s, u)
      PROVE  ReadsStillHold'
  <2>1. CASE ShareSweep(s)
    <3>1. /\ pc[s] \in UnderWay
          /\ pc' = [pc EXCEPT ![s] = "swept"]
          /\ {t \in Shares : link[t] = "open"} \subseteq visible'[s]
          /\ UNCHANGED <<status, owner, link, listing, by>>
        BY <2>1 DEF ShareSweep
    <3> QED
        BY <3>1, ReaderStep DEF NeverClaimed
  <2>2. CASE \E u \in Users : Share(s, u)
    <3>1. /\ Busy = {} /\ pc[s] = "idle"
          /\ pc' = [pc EXCEPT ![s] = "checked"]
          /\ \A d \in Calls : by'[d] = by[d] \/ d = s
          /\ UNCHANGED <<status, owner, link, listing>>
        BY <2>2 DEF Share
    <3> QED
        BY <3>1, ReaderStep DEF NeverClaimed
  <2> QED
      BY <1>1, <2>1, <2>2
<1>2. ASSUME NEW s \in Shares, ShareCommit(s)
      PROVE  ReadsStillHold'
    BY <1>2 DEF ShareCommit, CancelLinks, ReadsStillHold
<1>3. ASSUME NEW c \in Claims, NEW u \in Users, NEW s \in Shares, Claim(c, u, s)
      PROVE  ReadsStillHold'
  <2>1. /\ Busy = {} /\ pc[c] = "idle" /\ status' = "ISSUED"
        /\ pc' = [pc EXCEPT ![c] = "checked"]
        /\ \A d \in Calls : by'[d] = by[d] \/ d = c
        /\ UNCHANGED <<owner, link, listing>>
      BY <1>3 DEF Claim
  <2> QED
      BY <2>1, ReaderStep DEF NeverClaimed
<1>4. ASSUME NEW c \in Claims, ClaimCommit(c)
      PROVE  ReadsStillHold'
  <2>1. CASE link[target[c]] = "open"
    <3>1. target[c] \in Shares
        BY <1>4 DEF ClaimCommit, TargetsExist
    <3>2. /\ pc[c] \in UnderWay
          /\ pc' = [pc EXCEPT ![c] = "done"]
          /\ link' = [CancelLinks(Shares) EXCEPT ![target[c]] = "claimed"]
          /\ UNCHANGED <<listing, by>>
        BY <1>4, <2>1 DEF ClaimCommit
    <3>3. /\ link'[target[c]] = "claimed"
          /\ \A s \in Shares : link'[s] # "open"
        BY <3>1, <3>2 DEF CancelLinks
    <3>4. ~NeverClaimed'
        BY <3>1, <3>3 DEF NeverClaimed
    <3> QED
        BY <3>2, <3>3, <3>4, ReaderStep
  <2>2. CASE link[target[c]] # "open"
    <3>1. /\ pc[c] \in UnderWay
          /\ pc' = [pc EXCEPT ![c] = "refused"]
          /\ UNCHANGED <<owner, link, listing, by>>
        BY <1>4, <2>2 DEF ClaimCommit
    <3> QED
        BY <3>1, ReaderStep DEF NeverClaimed
  <2> QED
      BY <2>1, <2>2
<1>5. ASSUME NEW w \in Withdrawals, WithdrawCommit(w) \/ \E u \in Users : Withdraw(w, u)
      PROVE  ReadsStillHold'
  <2>1. /\ pc[w] \in UnderWay \/ Busy = {}
        /\ \E step : pc' = [pc EXCEPT ![w] = step]
        /\ \A d \in Calls : by'[d] = by[d] \/ (d = w /\ pc[w] = "idle")
        /\ \A s \in Shares : link'[s] = "open" => link[s] = "open"
        /\ UNCHANGED <<owner, listing>>
      BY <1>5 DEF WithdrawCommit, Withdraw, CancelLinks
  <2> QED
      BY <2>1, ReaderStep
<1>6. ASSUME NEW o \in Offers, \E u \in Users : Offer(o, u)
      PROVE  ReadsStillHold'
  <2>1. /\ Busy = {} /\ pc[o] = "idle" /\ by'[o] = owner
        /\ pc' = [pc EXCEPT ![o] = "checked"]
        /\ \A d \in Calls : by'[d] = by[d] \/ d = o
        /\ UNCHANGED <<owner, link, listing>>
      BY <1>6 DEF Offer
  <2> QED
      BY <2>1, ReaderStep DEF NeverClaimed
<1>7. ASSUME NEW o \in Offers, OfferLook(o)
      PROVE  ReadsStillHold'
  <2>1. NeverClaimed => by[o] = owner
      BY <1>7 DEF OfferLook, ReadsStillHold
  <2>2. PICK step : /\ pc' = [pc EXCEPT ![o] = step]
                    /\ step = "clear" => \A q \in Offers : listing[q] # "LISTED"
      BY <1>7 DEF OfferLook
  <2>3. pc[o] \in UnderWay /\ UNCHANGED <<owner, link, listing, by>>
      BY <1>7 DEF OfferLook
  <2> QED
      BY <2>1, <2>2, <2>3, ReaderStep DEF NeverClaimed
<1>8. ASSUME NEW o \in Offers, OfferCreate(o)
      PROVE  ReadsStillHold'
    BY <1>8 DEF OfferCreate, ReadsStillHold, NeverClaimed
<1>9. ASSUME NEW o \in Offers, CancelListing(o)
      PROVE  ReadsStillHold'
    BY <1>9 DEF CancelListing, ReadsStillHold, NeverClaimed
<1>10. ASSUME NEW p \in Purchases, Take(p)
       PROVE  ReadsStillHold'
    BY <1>10 DEF Take, TargetsExist, ReadsStillHold, NeverClaimed
<1>11. ASSUME NEW p \in Purchases,
              \/ Debit(p) \/ PaySeller(p) \/ Undo(p) \/ TakeOrPayThrows(p)
              \/ \E u \in Users, o \in Offers : Buy(p, u, o)
       PROVE  ReadsStillHold'
  <2>1. /\ pc[p] \in UnderWay \/ Busy = {}
        /\ \E step : pc' = [pc EXCEPT ![p] = step]
        /\ \A d \in Calls : by'[d] = by[d] \/ (d = p /\ pc[p] = "idle")
        /\ UNCHANGED <<owner, link, listing>>
      BY <1>11 DEF Debit, PaySeller, Undo, TakeOrPayThrows, Buy
  <2> QED
      BY <2>1, ReaderStep DEF NeverClaimed
<1>12. ASSUME NEW n \in Collects, CollectBind(n) \/ \E u \in Users : Collect(n, u)
       PROVE  ReadsStillHold'
  <2>1. /\ pc[n] \in UnderWay \/ Busy = {}
        /\ \E step : pc' = [pc EXCEPT ![n] = step]
        /\ \A d \in Calls : by'[d] = by[d] \/ (d = n /\ pc[n] = "idle")
        /\ UNCHANGED <<owner, link, listing>>
      BY <1>12 DEF CollectBind, Collect
  <2> QED
      BY <2>1, ReaderStep DEF NeverClaimed
<1>13. ASSUME NEW c \in Calls, CutShort(c)
       PROVE  ReadsStillHold'
    BY <1>13, ReaderStep DEF CutShort, NeverClaimed
<1>14. CASE Scan \/ VoidTicket \/ UNCHANGED vars
    BY <1>14 DEF Scan, VoidTicket, vars, ReadsStillHold, NeverClaimed
<1> QED
    BY <1>1, <1>2, <1>3, <1>4, <1>5, <1>6, <1>7, <1>8, <1>9, <1>10, <1>11, <1>12, <1>13, <1>14
       DEF Next, TransferStep, ResaleStep

-------------------------------------------------------------------------------
(* The strengthened invariant holds in every reachable state.              *)
THEOREM Inductive == Spec => []IInv
<1>1. Init => IInv
    BY InitCallsFit, InitTakersPay, InitReadsHold DEF IInv
<1>2. IInv /\ [Next]_vars => IInv'
    BY CallsFitStep, TakersPayStep, ReadsHoldStep DEF IInv
<1> QED
    BY <1>1, <1>2, PTL DEF Spec

(* Whatever the order in which buyers of one listing come, as long as      *)
(* nothing fails each of them has ticket, debit and payout or none.        *)
THEOREM RacesSettle == Spec => []RacesAreAllOrNothing
<1>1. IInv => RacesAreAllOrNothing
    <2> SUFFICES ASSUME IInv, failures = 0, NEW p \in Purchases, pc[p] \in Ended
                 PROVE  \/ /\ p \in paid \ returned
                           /\ p \in proceeds
                           /\ sale[target[p]] = p
                        \/ /\ p \notin paid \ returned
                           /\ p \notin proceeds
                           /\ \A o \in Offers : sale[o] # p
        BY DEF RacesAreAllOrNothing, AllOrNothing
    <2>1. pc[p] # "dead"
        BY DEF IInv, TakersPay, Calls
    <2>2. PurchasePhase(p)
        BY DEF IInv, CallsFit
    <2>3. CASE pc[p] = "done"
        BY <2>2, <2>3 DEF PurchasePhase, Took
    <2>4. CASE pc[p] = "refused"
        <3>1. \A o \in Offers : sale[o] # p
            BY <2>4, OwnershipAssumption DEF IInv, TakersPay
        <3> QED
            BY <2>2, <2>4, <3>1 DEF PurchasePhase
    <2> QED
        BY <2>1, <2>3, <2>4 DEF Ended
<1> QED
    BY <1>1, Inductive, PTL

(* A used ticket is not moved by a claim that takes its turn.              *)
LEMMA UsedTicketStep ==
    ASSUME IInv, [Next]_vars, ~overlapped, Unsold', status # "ISSUED"
    PROVE  owner' = owner
<1> SUFFICES ASSUME owner' # owner PROVE FALSE
    OBVIOUS
<1>1. \/ \E c \in Claims : ClaimCommit(c)
      \/ \E p \in Purchases : Take(p)
    BY DEF Next, TransferStep, ResaleStep, ShareSweep, ShareCommit, Share, Claim,
           Withdraw, WithdrawCommit, Offer, OfferLook, OfferCreate, CancelListing, Buy,
           Debit, PaySeller, Undo, TakeOrPayThrows, Collect, CollectBind, Scan, VoidTicket,
           CutShort, ticket, vars
<1>2. ASSUME NEW c \in Claims, ClaimCommit(c) PROVE FALSE
    BY <1>2 DEF ClaimCommit, IInv, ReadsStillHold
<1>3. ASSUME NEW p \in Purchases, Take(p) PROVE FALSE
    BY <1>3 DEF Take, IInv, CallsFit, TypeOK, TargetsExist, Unsold
<1> QED
    BY <1>1, <1>2, <1>3

(* Calls that take turns leave one open link, one listing by its holder    *)
(* and a used ticket where it was, however many of them there are.         *)
THEOREM TurnsAlwaysKeepOrder == Spec => TurnsKeepOrder
<1>1. IInv => OneOpenLink /\ OneListingByHolder
    BY DEF IInv, ReadsStillHold, OneOpenLink, OneListingByHolder
<1>2. IInv /\ [Next]_vars =>
        [~overlapped /\ Unsold' /\ status # "ISSUED" => owner' = owner]_vars
    BY UsedTicketStep
<1> QED
    BY <1>1, <1>2, Inductive, PTL DEF Spec, TurnsKeepOrder, UsedTicketsStay
================================================================================
