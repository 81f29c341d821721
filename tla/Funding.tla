-------------------------------- MODULE Funding --------------------------------
(***************************************************************************)
(* How money enters and leaves a wallet: top-ups that Paystack's           *)
(* charge.success finalises, vouchers redeemed for credit, and orders paid *)
(* from the balance.                                                       *)
(*                                                                         *)
(* The claim that entitles a call to a credit is awaited before the credit *)
(* and commits on its own: other calls, or a crash, may come between.      *)
(***************************************************************************)
EXTENDS Ledger, FiniteSets

CONSTANTS
    Nobody,         \* null
    TopUps,         \* WalletTopUp rows
    Vouchers,       \* the vouchers of one batch
    Deliveries,     \* deliveries of charge.success for top-ups
    Redemptions,    \* POST vouchers/redeem requests
    Purchases,      \* orders to be paid from a wallet
    By,             \* the user of each top-up, redemption and purchase
    TopUpKobo, DenominationKobo, PurchaseKobo

Calls == Deliveries \cup Redemptions \cup Purchases
TopUpCause(t) == <<"topUp", t>>
VoucherCause(v) == <<"voucher", v>>
PurchaseCause(p) == <<"purchase", p>>

ASSUME FundingAssumption ==
    /\ IsFiniteSet(Vouchers)
    /\ Nobody \notin Users \cup TopUps \cup Vouchers
    /\ By \in [TopUps \cup Redemptions \cup Purchases -> Users]
    /\ Deliveries \cap Redemptions = {}
    /\ Deliveries \cap Purchases = {}
    /\ Redemptions \cap Purchases = {}
    /\ TopUpKobo \in Nat /\ DenominationKobo \in Nat /\ PurchaseKobo \in Nat
    /\ MaxFailures \in Nat
    /\ \A t \in TopUps : TopUpCause(t) \in Causes
    /\ \A v \in Vouchers : VoucherCause(v) \in Causes
    /\ \A p \in Purchases : PurchaseCause(p) \in Causes

VARIABLES
    topUp,          \* WalletTopUp.status; "none" before the row exists
    charge,         \* what the buyer paid at Paystack for the top-up
    redeemedBy,     \* Voucher.redeemedById
    redeemedCount,  \* VoucherBatch.redeemedCount
    pc,             \* where a call is between two awaits
    on              \* the top-up or voucher a call works on

topUps == <<topUp, charge>>
vouchers == <<redeemedBy, redeemedCount>>
calls == <<pc, on>>
fundingVars == <<topUps, vouchers, calls>>

(* After the read; after a voucher's claim; entitled to the credit.        *)
Busy == {"claim", "count", "credit"}
Active == {c \in Calls : pc[c] \in Busy}

FundingTypeOK ==
    /\ topUp \in [TopUps -> {"none", "PENDING", "PROCESSED"}]
    /\ charge \in [TopUps -> {"none", "exact", "other"}]
    /\ redeemedBy \in [Vouchers -> Users \cup {Nobody}]
    /\ redeemedCount \in Nat
    /\ pc \in [Calls -> Busy \cup {"idle", "done", "dead"}]
    /\ on \in [Calls -> TopUps \cup Vouchers \cup {Nobody}]
    /\ failures \in 0 .. MaxFailures

FundingInit ==
    /\ topUp = [t \in TopUps |-> "none"]
    /\ charge = [t \in TopUps |-> "none"]
    /\ redeemedBy = [v \in Vouchers |-> Nobody]
    /\ redeemedCount = 0
    /\ pc = [c \in Calls |-> "idle"]
    /\ on = [c \in Calls |-> Nobody]
    /\ failures = 0

Goto(c, step) == pc' = [pc EXCEPT ![c] = step]

-------------------------------------------------------------------------------
(* initiateTopUp: the row first, then paystack.initialize.  When that call *)
(* fails the row stays PENDING and nobody can pay for it.                  *)
InitiateTopUp(t) ==
    /\ topUp[t] = "none"
    /\ topUp' = [topUp EXCEPT ![t] = "PENDING"]
    /\ UNCHANGED <<accounts, charge, vouchers, calls, failures>>

(* The buyer pays at Paystack, the amount asked or another one.            *)
PayTopUp(t) ==
    /\ topUp[t] # "none" /\ charge[t] = "none"
    /\ \E sum \in {"exact", "other"} : charge' = [charge EXCEPT ![t] = sum]
    /\ UNCHANGED <<accounts, topUp, vouchers, calls, failures>>

(* charge.success reaches finaliseTopUp, which reads the row: a processed  *)
(* one or another amount ends the call.  Paystack may deliver it again.    *)
ReadTopUp(d, t) ==
    /\ pc[d] = "idle"
    /\ charge[t] # "none"
    /\ on' = [on EXCEPT ![d] = t]
    /\ Goto(d, IF topUp[t] = "PENDING" /\ charge[t] = "exact" THEN "claim" ELSE "done")
    /\ UNCHANGED <<accounts, topUps, vouchers, failures>>

(* Faulty variant: the UPDATE does not ask for status PENDING.             *)
TopUpClaimableAlways(t) == TRUE

TopUpClaimable(t) == topUp[t] = "PENDING"

(* Of the deliveries that read PENDING, one wins the transition.           *)
ClaimTopUp(d) ==
    /\ pc[d] = "claim"
    /\ IF TopUpClaimable(on[d])
       THEN /\ topUp' = [topUp EXCEPT ![on[d]] = "PROCESSED"]
            /\ Goto(d, "credit")
       ELSE /\ UNCHANGED topUp
            /\ Goto(d, "done")
    /\ UNCHANGED <<accounts, charge, vouchers, on, failures>>

CreditTopUp(d) ==
    /\ pc[d] = "credit"
    /\ Credit(By[on[d]], TopUpKobo, TopUpCause(on[d]))
    /\ Goto(d, "done")
    /\ UNCHANGED <<topUps, vouchers, on, failures>>

-------------------------------------------------------------------------------
(* redeem reads the voucher and its batch.  A redeemed voucher is refused,  *)
(* and an expired one, which is as if it had not been presented.           *)
ReadVoucher(r, v) ==
    /\ pc[r] = "idle"
    /\ redeemedBy[v] = Nobody
    /\ on' = [on EXCEPT ![r] = v]
    /\ Goto(r, "claim")
    /\ UNCHANGED <<accounts, topUps, vouchers, failures>>

(* Faulty variant: the UPDATE does not ask for redeemedById null.          *)
VoucherClaimableAlways(v) == TRUE

VoucherClaimable(v) == redeemedBy[v] = Nobody

ClaimVoucher(r) ==
    /\ pc[r] = "claim"
    /\ IF VoucherClaimable(on[r])
       THEN /\ redeemedBy' = [redeemedBy EXCEPT ![on[r]] = By[r]]
            /\ Goto(r, "count")
       ELSE /\ UNCHANGED redeemedBy
            /\ Goto(r, "done")
    /\ UNCHANGED <<accounts, topUps, redeemedCount, on, failures>>

(* Faulty variant: the counter goes down.                                  *)
CountVoucherDown(r) ==
    /\ pc[r] = "count"
    /\ redeemedCount' = redeemedCount - 1
    /\ Goto(r, "credit")
    /\ UNCHANGED <<accounts, topUps, redeemedBy, on, failures>>

(* Faulty variant: the counter is bumped and the request is answered.      *)
CountVoucherOnly(r) ==
    /\ pc[r] = "count"
    /\ redeemedCount' = redeemedCount + 1
    /\ Goto(r, "done")
    /\ UNCHANGED <<accounts, topUps, redeemedBy, on, failures>>

CountVoucher(r) ==
    /\ pc[r] = "count"
    /\ redeemedCount' = redeemedCount + 1
    /\ Goto(r, "credit")
    /\ UNCHANGED <<accounts, topUps, redeemedBy, on, failures>>

CreditVoucher(r) ==
    /\ pc[r] = "credit"
    /\ Credit(By[r], DenominationKobo, VoucherCause(on[r]))
    /\ Goto(r, "done")
    /\ UNCHANGED <<topUps, vouchers, on, failures>>

-------------------------------------------------------------------------------
(* The wallet path of OrdersService.create; without the money the order    *)
(* fails and the request ends.                                             *)
Purchase(p) ==
    /\ pc[p] = "idle"
    /\ \/ Debit(By[p], PurchaseKobo, PurchaseCause(p))
       \/ ~CanDebit(By[p], PurchaseKobo) /\ UNCHANGED accounts
    /\ Goto(p, "done")
    /\ UNCHANGED <<topUps, vouchers, on, failures>>

(* A crash or a database error ends a call between two awaits.  Nothing    *)
(* resumes it; a new delivery or request may come.                         *)
CutShort(c) ==
    /\ pc[c] \in Busy
    /\ failures < MaxFailures
    /\ failures' = failures + 1
    /\ Goto(c, "dead")
    /\ UNCHANGED <<accounts, topUps, vouchers, on>>

Start ==
    \/ \E d \in Deliveries, t \in TopUps : ReadTopUp(d, t)
    \/ \E r \in Redemptions, v \in Vouchers : ReadVoucher(r, v)

Continue ==
    \/ \E t \in TopUps : InitiateTopUp(t) \/ PayTopUp(t)
    \/ \E d \in Deliveries : ClaimTopUp(d) \/ CreditTopUp(d)
    \/ \E r \in Redemptions : ClaimVoucher(r) \/ CountVoucher(r) \/ CreditVoucher(r)
    \/ \E p \in Purchases : Purchase(p)
    \/ \E c \in Calls : CutShort(c)

-------------------------------------------------------------------------------
Redeemed == {v \in Vouchers : redeemedBy[v] # Nobody}

(* A wallet is credited for a top-up or voucher only once the row records  *)
(* it, in favour of the user it belongs to, and for a top-up only when the *)
(* charge was for the amount asked.                                        *)
CreditsAreClaimed ==
    \A u \in Users : \A i \in DOMAIN ledger[u] :
        /\ \A t \in TopUps : ledger[u][i].cause = TopUpCause(t) =>
            topUp[t] = "PROCESSED" /\ By[t] = u /\ charge[t] = "exact"
        /\ \A v \in Vouchers : ledger[u][i].cause = VoucherCause(v) => redeemedBy[v] = u

(* redeemedCount, bumped on its own, never exceeds the vouchers redeemed;  *)
(* and when nothing failed and every call has ended, a claimed top-up or   *)
(* voucher is in the ledger and the batch counts what was redeemed: no     *)
(* loser of a race took the claim with it.                                 *)
FundingSettles ==
    /\ redeemedCount <= Cardinality(Redeemed)
    /\ failures = 0 /\ Active = {} =>
        /\ \A t \in TopUps : topUp[t] = "PROCESSED" => Recorded(TopUpCause(t))
        /\ \A v \in Redeemed : Recorded(VoucherCause(v))
        /\ redeemedCount = Cardinality(Redeemed)

-------------------------------------------------------------------------------
(* A call entitled to a credit is the only one for its row, which is       *)
(* claimed and not yet credited.                                           *)
TopUpPhase ==
    /\ \A d \in Deliveries : pc[d] \in Busy =>
        pc[d] # "count" /\ on[d] \in TopUps /\ charge[on[d]] = "exact"
    /\ \A d \in Deliveries : pc[d] = "credit" =>
        topUp[on[d]] = "PROCESSED" /\ ~Recorded(TopUpCause(on[d]))
    /\ \A d, e \in Deliveries :
        pc[d] = "credit" /\ pc[e] = "credit" /\ on[d] = on[e] => d = e
    /\ \A t \in TopUps : Recorded(TopUpCause(t)) => topUp[t] = "PROCESSED"

VoucherPhase ==
    /\ \A r \in Redemptions : pc[r] \in Busy => on[r] \in Vouchers
    /\ \A r \in Redemptions : pc[r] \in {"count", "credit"} =>
        redeemedBy[on[r]] = By[r] /\ ~Recorded(VoucherCause(on[r]))
    /\ \A r, q \in Redemptions :
        pc[r] \in {"count", "credit"} /\ pc[q] \in {"count", "credit"} /\ on[r] = on[q] => r = q
    /\ \A v \in Vouchers : Recorded(VoucherCause(v)) => redeemedBy[v] # Nobody

PurchasePhase ==
    \A p \in Purchases :
        /\ pc[p] \in {"idle", "done"}
        /\ Recorded(PurchaseCause(p)) => pc[p] = "done"

(* As long as nothing failed, what was claimed is credited or still being  *)
(* worked on.                                                              *)
TopUpsUnderWay ==
    failures = 0 =>
        \A t \in TopUps : topUp[t] = "PROCESSED" =>
            Recorded(TopUpCause(t)) \/ \E d \in Deliveries : pc[d] = "credit" /\ on[d] = t

VouchersUnderWay ==
    failures = 0 =>
        \A v \in Redeemed :
            \/ Recorded(VoucherCause(v))
            \/ \E r \in Redemptions : pc[r] \in {"count", "credit"} /\ on[r] = v

(* The batch counts what was redeemed but for the redemptions that have    *)
(* yet to bump it, or died before they did.                                *)
AboutToCount == {v \in Vouchers : \E r \in Redemptions : pc[r] = "count" /\ on[r] = v}

VouchersCounted ==
    /\ redeemedCount <= Cardinality(Redeemed \ AboutToCount)
    /\ failures = 0 => redeemedCount = Cardinality(Redeemed \ AboutToCount)
================================================================================
