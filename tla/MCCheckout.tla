------------------------------ MODULE MCCheckout ------------------------------
(***************************************************************************)
(* Small instances of Checkout for TLC.                                    *)
(***************************************************************************)
EXTENDS Checkout, TLC

CONSTANTS ga, stalls, s1, s2

(* One unseated ticket type, two tickets.                                  *)
GA == {ga}
GACapacity == (ga :> 2)
GASeats == (ga :> {})

(* A seated and an unseated type, so that one cart spans both.             *)
Mixed == {ga, stalls}
MixedCapacity == (ga :> 2) @@ (stalls :> 2)
MixedSeats == (ga :> {}) @@ (stalls :> {s1, s2})

OrderSymmetry == Permutations(Orders)
===============================================================================
