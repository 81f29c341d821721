-------------------------------- MODULE MCMoney ---------------------------------
(***************************************************************************)
(* A small instance of Money for TLC.                                      *)
(***************************************************************************)
EXTENDS Money, TLC

MCCauses ==
    ({"topUp"} \X TopUps) \cup ({"voucher"} \X Vouchers) \cup ({"purchase"} \X Purchases)
        \cup {<<"referral", NoOrder>>} \cup ({"commission"} \X Orders)

MCPoints == [o \in Orders |-> IF o \in AgentOrders THEN 1 ELSE 2]

(* The first redemption is the agent's, everything else the referrer's.    *)
MCBy ==
    [c \in TopUps \cup Redemptions \cup Purchases |->
        IF c = CHOOSE r \in Redemptions : TRUE THEN Agent ELSE Referrer]

CallSymmetry == Permutations(Deliveries) \cup Permutations(Copies)
================================================================================
