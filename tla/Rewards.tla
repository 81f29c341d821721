-------------------------------- MODULE Rewards --------------------------------
(***************************************************************************)
(* What a paid order earns other people: after charge.success issued the   *)
(* tickets, WebhooksService.handleChargeSuccess rewards the buyer's        *)
(* referrer, credits the buyer's loyalty points and pays the agent, each   *)
(* after an await of its own and each only on the delivery that issued.    *)
(*                                                                         *)
(* The orders are those of guests and of one buyer, who signed up with a   *)
(* referral code, and are paid at Paystack.  Without a code the referral   *)
(* is skipped, as it is once it is rewarded.                               *)
(***************************************************************************)
EXTENDS Ledger, FiniteSets

CONSTANTS
    Orders, NoOrder,    \* orders, and null
    GuestOrders,        \* those with userId null
    AgentOrders,        \* those with an agentCode and a commission
    Copies,             \* deliveries of each order's charge.success
    Referrer, Agent,    \* the users who may be rewarded
    RewardKobo, CommissionKobo,
    Points              \* pointsForSpend(totalKobo) of each order

ReferralCause == <<"referral", NoOrder>>
CommissionCause(o) == <<"commission", o>>

ASSUME RewardsAssumption ==
    /\ IsFiniteSet(Orders) /\ NoOrder \notin Orders
    /\ GuestOrders \subseteq Orders /\ AgentOrders \subseteq Orders
    /\ Referrer \in Users /\ Agent \in Users
    /\ RewardKobo \in Nat /\ CommissionKobo \in Nat
    /\ Points \in [Orders -> Nat]
    /\ MaxFailures \in Nat
    /\ ReferralCause \in Causes
    /\ \A o \in Orders : CommissionCause(o) \in Causes

VARIABLES
    orderStatus,    \* Order.status
    earned,         \* orders with loyaltyPointsEarned set
    points,         \* the buyer's User.loyaltyPoints
    referral,       \* Referral.status of the buyer
    referralOrder,  \* Referral.orderId
    stage           \* where a delivery is between two awaits

Notices == Orders \X Copies
Of(n) == n[1]
BuyerOrders == Orders \ GuestOrders

rewardVars == <<orderStatus, earned, points, referral, referralOrder, stage>>

AfterIssue == {"referral", "claimReferral", "creditReferral", "loyalty", "commission"}
Stages == {"issue"} \cup AfterIssue
InProgress == {n \in Notices : stage[n] \in Stages}

RewardsTypeOK ==
    /\ orderStatus \in [Orders -> {"PENDING", "PAID"}]
    /\ earned \subseteq Orders
    /\ points \in Nat
    /\ referral \in {"PENDING", "REWARDED"}
    /\ referralOrder \in Orders \cup {NoOrder}
    /\ stage \in [Notices -> Stages \cup {"idle", "done", "dead"}]
    /\ failures \in 0 .. MaxFailures

RewardsInit ==
    /\ orderStatus = [o \in Orders |-> "PENDING"]
    /\ earned = {}
    /\ points = 0
    /\ referral = "PENDING"
    /\ referralOrder = NoOrder
    /\ stage = [n \in Notices |-> "idle"]
    /\ failures = 0

To(n, step) == stage' = [stage EXCEPT ![n] = step]

-------------------------------------------------------------------------------
(* charge.success reaches the order.  One for another amount, or for an    *)
(* order that has expired, changes nothing, as if it had not come.         *)
Notify(n) ==
    /\ stage[n] = "idle"
    /\ To(n, "issue")
    /\ UNCHANGED <<accounts, orderStatus, earned, points, referral, referralOrder, failures>>

(* Guests have nobody to reward but an agent.                              *)
FirstReward(o) == IF o \in GuestOrders THEN "commission" ELSE "referral"

(* Faulty variant: the rewards do not ask whether this delivery issued.    *)
IssueAndRewardAlways(n) ==
    /\ stage[n] = "issue"
    /\ orderStatus' = [orderStatus EXCEPT ![Of(n)] = "PAID"]
    /\ To(n, FirstReward(Of(n)))
    /\ UNCHANGED <<accounts, earned, points, referral, referralOrder, failures>>

(* issueForOrder: only the delivery that moves PENDING to PAID goes on.    *)
Issue(n) ==
    /\ stage[n] = "issue"
    /\ IF orderStatus[Of(n)] = "PENDING"
       THEN /\ orderStatus' = [orderStatus EXCEPT ![Of(n)] = "PAID"]
            /\ To(n, FirstReward(Of(n)))
       ELSE /\ UNCHANGED orderStatus
            /\ To(n, "done")
    /\ UNCHANGED <<accounts, earned, points, referral, referralOrder, failures>>

-------------------------------------------------------------------------------
ReadReferral(n) ==
    /\ stage[n] = "referral"
    /\ To(n, IF referral = "PENDING" THEN "claimReferral" ELSE "loyalty")
    /\ UNCHANGED <<accounts, orderStatus, earned, points, referral, referralOrder, failures>>

ReferralClaimable == referral = "PENDING"

ClaimReferral(n) ==
    /\ stage[n] = "claimReferral"
    /\ IF ReferralClaimable
       THEN /\ referral' = "REWARDED"
            /\ referralOrder' = Of(n)
            /\ To(n, "creditReferral")
       ELSE /\ UNCHANGED <<referral, referralOrder>>
            /\ To(n, "loyalty")
    /\ UNCHANGED <<accounts, orderStatus, earned, points, failures>>

CreditReferral(n) ==
    /\ stage[n] = "creditReferral"
    /\ Credit(Referrer, RewardKobo, ReferralCause)
    /\ To(n, "loyalty")
    /\ UNCHANGED <<orderStatus, earned, points, referral, referralOrder, failures>>

(* An error on the way is logged and swallowed.                            *)
ReferralThrows(n) ==
    /\ stage[n] \in {"referral", "claimReferral", "creditReferral"}
    /\ failures < MaxFailures
    /\ failures' = failures + 1
    /\ To(n, "loyalty")
    /\ UNCHANGED <<accounts, orderStatus, earned, points, referral, referralOrder>>

-------------------------------------------------------------------------------
(* Faulty variant: the call returns after the points.                      *)
EarnPointsAndReturn(n) ==
    /\ stage[n] = "loyalty"
    /\ IF Points[Of(n)] > 0
       THEN /\ points' = points + Points[Of(n)]
            /\ earned' = earned \cup {Of(n)}
       ELSE UNCHANGED <<points, earned>>
    /\ To(n, "done")
    /\ UNCHANGED <<accounts, orderStatus, referral, referralOrder, failures>>

(* The buyer's points and Order.loyaltyPointsEarned, in one transaction.   *)
EarnPoints(n) ==
    /\ stage[n] = "loyalty"
    /\ IF Points[Of(n)] > 0
       THEN /\ points' = points + Points[Of(n)]
            /\ earned' = earned \cup {Of(n)}
       ELSE UNCHANGED <<points, earned>>
    /\ To(n, "commission")
    /\ UNCHANGED <<accounts, orderStatus, referral, referralOrder, failures>>

PayAgent(n) ==
    /\ stage[n] = "commission"
    /\ IF Of(n) \in AgentOrders
       THEN Credit(Agent, CommissionKobo, CommissionCause(Of(n)))
       ELSE UNCHANGED accounts
    /\ To(n, "done")
    /\ UNCHANGED <<orderStatus, earned, points, referral, referralOrder, failures>>

(* A crash, or an error outside the referral, ends the delivery.  Paystack *)
(* delivers again, but then the order is PAID and nothing is made up for.  *)
NoticeCutShort(n) ==
    /\ stage[n] \in Stages
    /\ failures < MaxFailures
    /\ failures' = failures + 1
    /\ To(n, "dead")
    /\ UNCHANGED <<accounts, orderStatus, earned, points, referral, referralOrder>>

RewardStep(n) ==
    \/ Issue(n) \/ ReadReferral(n) \/ ClaimReferral(n) \/ CreditReferral(n)
    \/ ReferralThrows(n) \/ EarnPoints(n) \/ PayAgent(n) \/ NoticeCutShort(n)

-------------------------------------------------------------------------------
(* The points of some orders, one element per point, so that adding an     *)
(* order to them adds its points.                                          *)
PointsOf(some) == UNION {{o} \X (1 .. Points[o]) : o \in some}

(* Replayed, concurrent and failing deliveries never reward twice or for   *)
(* nothing: the points are those of the orders that say they earned them,  *)
(* the commissions those of PAID agent orders, and the referrer is paid    *)
(* only for a REWARDED referral that names a paid order of the buyer.      *)
RewardsAreEarned ==
    /\ points = Cardinality(PointsOf(earned))
    /\ \A o \in earned : o \in BuyerOrders /\ orderStatus[o] = "PAID"
    /\ \A o \in Orders : Recorded(CommissionCause(o)) =>
        o \in AgentOrders /\ orderStatus[o] = "PAID"
    /\ Recorded(ReferralCause) => referral = "REWARDED"
    /\ referral = "REWARDED" =>
        referralOrder \in BuyerOrders /\ orderStatus[referralOrder] = "PAID"

(* When nothing failed and no delivery is under way, every paid order has  *)
(* earned its points and commission, and the buyer's first one rewarded    *)
(* the referral: a delivery that lost a race left nothing undone.          *)
RewardsSettle ==
    failures = 0 /\ InProgress = {} =>
        /\ \A o \in Orders : orderStatus[o] = "PAID" =>
            /\ o \in BuyerOrders /\ Points[o] > 0 => o \in earned
            /\ o \in AgentOrders => Recorded(CommissionCause(o))
            /\ o \in BuyerOrders => referral # "PENDING"
        /\ referral = "REWARDED" => Recorded(ReferralCause)

-------------------------------------------------------------------------------
(* The delivery that issued an order is the only one past that step, and   *)
(* has not credited what it is still to credit.                            *)
CommissionPhase ==
    /\ \A n \in Notices : stage[n] \in AfterIssue =>
        orderStatus[Of(n)] = "PAID" /\ ~Recorded(CommissionCause(Of(n)))
    /\ \A n, m \in Notices :
        stage[n] \in AfterIssue /\ stage[m] \in AfterIssue /\ Of(n) = Of(m) => n = m
    /\ \A o \in Orders : Recorded(CommissionCause(o)) => orderStatus[o] = "PAID"

ReferralPhase ==
    /\ \A n \in Notices : stage[n] = "creditReferral" =>
        referral = "REWARDED" /\ ~Recorded(ReferralCause)
    /\ \A n, m \in Notices :
        stage[n] = "creditReferral" /\ stage[m] = "creditReferral" => n = m
    /\ Recorded(ReferralCause) => referral = "REWARDED"

(* A delivery on its way to the points is of an order of the buyer that    *)
(* has not earned any.                                                     *)
PointsPhase ==
    \A n \in Notices : stage[n] \in AfterIssue \ {"commission"} =>
        Of(n) \in BuyerOrders /\ Of(n) \notin earned

(* As long as nothing failed, what a paid order owes is given or still     *)
(* ahead of the delivery that issued it.                                   *)
At(o, stages) == \E n \in Notices : Of(n) = o /\ stage[n] \in stages

PointsUnderWay ==
    failures = 0 =>
        \A o \in BuyerOrders : orderStatus[o] = "PAID" /\ Points[o] > 0 =>
            o \in earned \/ At(o, AfterIssue \ {"commission"})

CommissionsUnderWay ==
    failures = 0 =>
        \A o \in AgentOrders : orderStatus[o] = "PAID" =>
            Recorded(CommissionCause(o)) \/ At(o, AfterIssue)

ReferralUnderWay ==
    failures = 0 =>
        /\ \A o \in BuyerOrders : orderStatus[o] = "PAID" =>
            referral # "PENDING" \/ At(o, {"referral", "claimReferral"})
        /\ referral = "REWARDED" =>
            Recorded(ReferralCause) \/ \E n \in Notices : stage[n] = "creditReferral"
================================================================================
