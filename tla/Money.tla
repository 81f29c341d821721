--------------------------------- MODULE Money ----------------------------------
(***************************************************************************)
(* Everything that pays into wallets at the same time: top-ups, vouchers   *)
(* and purchases (Funding) and the rewards of paid orders (Rewards), over  *)
(* one ledger.                                                             *)
(***************************************************************************)
EXTENDS Funding, Rewards

vars == <<accounts, fundingVars, rewardVars, failures>>

TypeOK == LedgerTypeOK /\ FundingTypeOK /\ RewardsTypeOK

Init == LedgerInit /\ FundingInit /\ RewardsInit

(* Calls that may begin while others are under way.                        *)
Room == Cardinality(Active) + Cardinality(InProgress) < MaxAtOnce

Next ==
    \/ Start /\ Room /\ UNCHANGED rewardVars
    \/ Continue /\ UNCHANGED rewardVars
    \/ (\E n \in Notices : (Room /\ Notify(n)) \/ RewardStep(n)) /\ UNCHANGED fundingVars

(* The ledger is exact, nothing was credited twice or without a claim, and *)
(* every call fits the rows it works on.                                   *)
CreditsFit ==
    /\ TypeOK
    /\ LedgerExact
    /\ OncePerCause
    /\ CreditsAreClaimed
    /\ TopUpPhase
    /\ VoucherPhase
    /\ PurchasePhase
    /\ CommissionPhase
    /\ ReferralPhase

(* The inductive invariant.                                                *)
IInv ==
    /\ CreditsFit
    /\ TopUpsUnderWay /\ VouchersUnderWay /\ VouchersCounted
    /\ RewardsAreEarned /\ PointsPhase
    /\ PointsUnderWay /\ CommissionsUnderWay /\ ReferralUnderWay

(* Every call that ended without a failure did all of its work: what was   *)
(* claimed was credited, and what was rewarded was earned.                 *)
MoneySettles == FundingSettles /\ RewardsAreEarned /\ RewardsSettle

Spec == Init /\ [][Next]_vars
================================================================================
