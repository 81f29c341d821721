------------------------------ MODULE RefundsProofs ------------------------------
(***************************************************************************)
(* Proofs about Refunds, for any number of overlapping requests, any total *)
(* and any number of failures.                                             *)
(***************************************************************************)
EXTENDS Refunds, FiniteSetTheorems, TLAPS

LEMMA InitBooksFit == Init => BooksFit
<1> SUFFICES ASSUME Init PROVE BooksFit
    OBVIOUS
<1>1. TypeOK
  <2>1. overlapped \in BOOLEAN /\ guest \in BOOLEAN
      BY Zenon DEF Init
  <2>2. failures \in 0..MaxFailures
      BY RefundsAssumption DEF Init
  <2> QED
      BY <2>1, <2>2 DEF Init, TypeOK, Steps, Ended
<1>2. BooksStayWhole /\ ReadsAreOld
    BY RefundsAssumption DEF Init, BooksStayWhole, ReadsAreOld, Steps
<1> QED
    BY <1>1, <1>2 DEF BooksFit

LEMMA TypeStep ==
    ASSUME TypeOK, [Next]_vars
    PROVE  TypeOK'
<1> USE RefundsAssumption DEF TypeOK, order, request, Goto, SetRow, Fail, Steps, Ended
<1>1. ASSUME NEW r \in Requests, Begin(r)
      PROVE  TypeOK'
    BY <1>1 DEF Begin
<1>2. ASSUME NEW r \in Requests,
             RejectGuest(r) \/ CreditWallet(r) \/ RecordCredit(r) \/ GatewayDeclines(r)
      PROVE  TypeOK'
    BY <1>2 DEF RejectGuest, CreditWallet, RecordCredit, GatewayDeclines
<1>3. ASSUME NEW r \in Requests, GatewayAccepts(r) \/ AnswerLost(r)
      PROVE  TypeOK'
    BY <1>3 DEF GatewayAccepts, AnswerLost, AtGatewayNow
<1>4. ASSUME NEW r \in Requests,
             RecordAccepted(r) \/ RecordDeclined(r) \/ RecordFailure(r) \/ RecordingThrows(r)
      PROVE  TypeOK'
    BY <1>4 DEF RecordAccepted, RecordDeclined, RecordFailure, RecordingThrows
<1>5. ASSUME NEW r \in Requests, Commit(r)
      PROVE  TypeOK'
    BY <1>5 DEF Commit
<1>6. ASSUME NEW r \in Requests, CutShort(r) \/ GatewaySettles(r) \/ RefundProcessed(r)
      PROVE  TypeOK'
    BY <1>6 DEF CutShort, GatewaySettles, RefundProcessed
<1>7. CASE UNCHANGED vars
    BY <1>7 DEF vars
<1> QED
    BY <1>1, <1>2, <1>3, <1>4, <1>5, <1>6, <1>7 DEF Next, Step

(* A step that leaves the books alone and starts no request.               *)
LEMMA BooksKept ==
    ASSUME BooksFit, TypeOK', UNCHANGED <<order, request>>, NEW r \in Requests,
           pc[r] \in Steps \ {"idle"} \/ pc' = pc,
           \A q \in Requests \ {r} : pc'[q] = pc[q]
    PROVE  (BooksStayWhole /\ ReadsAreOld)'
BY DEF BooksFit, BooksStayWhole, ReadsAreOld, order, request, TypeOK

LEMMA CommitStep ==
    ASSUME BooksFit, TypeOK', NEW r \in Requests, Commit(r)
    PROVE  /\ (BooksStayWhole /\ ReadsAreOld)'
           /\ refunded' >= refunded
           /\ status # "REFUNDED" \/ UNCHANGED <<status, refunded, sold>>
           /\ status' # status => seen[r] = refunded /\ seen[r] + amount[r] = Total
<1>1. /\ pc[r] \in Steps \ {"idle"}
      /\ UNCHANGED request
      /\ \A q \in Requests \ {r} : pc'[q] = pc[q]
      /\ pc'[r] \in {"claimed", "lost"}
    BY DEF Commit, Steps, Goto, BooksFit, TypeOK
<1>2. /\ seen[r] <= refunded /\ amount[r] >= 1 /\ seen[r] + amount[r] <= Total
      /\ seen[r] \in Nat /\ amount[r] \in Nat /\ refunded \in Nat /\ Total \in Nat
    BY <1>1, RefundsAssumption DEF BooksFit, ReadsAreOld, TypeOK
<1>3. CASE refunded <= Total - amount[r]
  <2>1. refunded' = refunded + amount[r] /\ status # "REFUNDED"
      BY <1>2, <1>3 DEF Commit, BooksFit, BooksStayWhole
  <2>2. refunded' <= Total /\ refunded' >= refunded
      BY <1>2, <1>3, <2>1
  <2>3. ReadsAreOld'
      BY <1>1, <1>2, <2>1, <2>2, RefundsAssumption
         DEF ReadsAreOld, BooksFit, TypeOK, request, Steps
  <2>4. CASE IsFinal(r)
    <3>1. seen[r] = refunded /\ refunded' = Total
        <4>1. seen[r] + amount[r] = Total
            BY <1>2, <2>4 DEF IsFinal
        <4> QED
            BY <1>2, <1>3, <2>1, <4>1
    <3>2. status' = "REFUNDED" /\ sold' = sold - 1 /\ tickets' = "voided"
        BY <1>3, <2>4 DEF Commit
    <3>3. BooksStayWhole'
        BY <2>1, <3>1, <3>2, RefundsAssumption DEF BooksStayWhole, BooksFit, TypeOK
    <3> QED
        BY <1>2, <2>1, <2>2, <2>3, <2>4, <3>1, <3>3 DEF IsFinal
  <2>5. CASE ~IsFinal(r)
    <3>1. UNCHANGED <<status, sold, tickets>>
        BY <1>3, <2>5 DEF Commit
    <3> QED
        BY <2>1, <2>2, <2>3, <3>1 DEF BooksStayWhole, BooksFit
  <2> QED
      BY <2>4, <2>5
<1>4. CASE ~(refunded <= Total - amount[r])
  <2>1. UNCHANGED <<status, refunded, sold, tickets>>
      BY <1>4 DEF Commit
  <2> QED
      BY <1>1, <1>2, <2>1 DEF BooksFit, BooksStayWhole, ReadsAreOld, request, Steps
<1> QED
    BY <1>3, <1>4

(* The steps other than Begin and Commit.                                  *)
LEMMA QuietStep ==
    ASSUME BooksFit, TypeOK', NEW r \in Requests,
           \/ RejectGuest(r) \/ CreditWallet(r) \/ RecordCredit(r) \/ GatewayDeclines(r)
           \/ GatewayAccepts(r) \/ AnswerLost(r) \/ RecordAccepted(r) \/ RecordDeclined(r)
           \/ RecordFailure(r) \/ RecordingThrows(r) \/ CutShort(r) \/ GatewaySettles(r)
           \/ RefundProcessed(r)
    PROVE  (BooksStayWhole /\ ReadsAreOld)' /\ UNCHANGED order
<1>1. /\ UNCHANGED <<order, request>>
      /\ pc[r] \in Steps \ {"idle"} \/ pc' = pc
      /\ \A q \in Requests \ {r} : pc'[q] = pc[q]
    BY DEF BooksFit, TypeOK, Steps, Goto, RejectGuest, CreditWallet, RecordCredit,
           GatewayDeclines, GatewayAccepts, AnswerLost, AtGatewayNow, RecordAccepted,
           RecordDeclined, RecordFailure, RecordingThrows, CutShort, GatewaySettles,
           RefundProcessed
<1> QED
    BY <1>1, BooksKept

LEMMA BeginStep ==
    ASSUME BooksFit, TypeOK', NEW r \in Requests, Begin(r)
    PROVE  (BooksStayWhole /\ ReadsAreOld)' /\ UNCHANGED order
<1>1. PICK a \in 1 .. Total - refunded : amount' = [amount EXCEPT ![r] = a]
    BY DEF Begin
<1>2. /\ UNCHANGED order
      /\ seen' = [seen EXCEPT ![r] = refunded]
      /\ pc' = [pc EXCEPT ![r] = "created"]
    BY DEF Begin, Goto
<1>3. ReadsAreOld'
    BY <1>1, <1>2, RefundsAssumption DEF BooksFit, TypeOK, ReadsAreOld, order
<1> QED
    BY <1>2, <1>3 DEF BooksFit, BooksStayWhole, order

LEMMA BooksFitStep ==
    ASSUME BooksFit, [Next]_vars
    PROVE  BooksFit'
<1>1. TypeOK'
    BY TypeStep DEF BooksFit
<1>2. CASE UNCHANGED vars
    BY <1>1, <1>2 DEF BooksFit, vars, BooksStayWhole, ReadsAreOld
<1>3. CASE Next
  <2>1. PICK r \in Requests : Step(r) \/ CutShort(r) \/ GatewaySettles(r) \/ RefundProcessed(r)
      BY <1>3 DEF Next
  <2>2. (BooksStayWhole /\ ReadsAreOld)'
      BY <1>1, <2>1, BeginStep, CommitStep, QuietStep DEF Step
  <2> QED
      BY <1>1, <2>2 DEF BooksFit
<1> QED
    BY <1>2, <1>3

-------------------------------------------------------------------------------
(* Sums of what requests refund.                                           *)

LEMMA SumType ==
    ASSUME NEW S \in SUBSET Requests, NEW of
    PROVE  IsFiniteSet(Kobo(of, S)) /\ SumOf(of, S) \in Nat
<1>1. IsFiniteSet(S)
    BY RefundsAssumption, FS_Subset
<1>2. IsFiniteSet(1 .. Total)
    BY RefundsAssumption, FS_Interval, 1 \in Int, Total \in Int
<1>3. IsFiniteSet(S \X (1 .. Total))
    BY <1>1, <1>2, FS_Product
<1>4. Kobo(of, S) \in SUBSET (S \X (1 .. Total))
    BY DEF Kobo
<1>5. IsFiniteSet(Kobo(of, S))
    BY <1>3, <1>4, FS_Subset
<1> QED
    BY <1>5, FS_CardinalityType DEF SumOf

LEMMA SumEmpty == \A of : SumOf(of, {}) = 0
<1>1. \A of : Kobo(of, {}) = {}
    BY DEF Kobo
<1> QED
    BY <1>1, FS_EmptySet DEF SumOf

(* Fewer requests refund no more.                                          *)
LEMMA SumOfFewer ==
    ASSUME NEW R \in SUBSET Requests, NEW S \in SUBSET R, NEW of
    PROVE  SumOf(of, S) <= SumOf(of, R)
<1>1. Kobo(of, S) \in SUBSET Kobo(of, R)
    BY DEF Kobo
<1>2. IsFiniteSet(Kobo(of, R))
    BY SumType
<1> QED
    BY <1>1, <1>2, FS_Subset DEF SumOf

(* One more request adds its amount.                                       *)
LEMMA SumOfOneMore ==
    ASSUME NEW S \in SUBSET Requests, NEW r \in Requests \ S,
           NEW of \in [Requests -> Nat], of[r] <= Total
    PROVE  SumOf(of, S \cup {r}) = SumOf(of, S) + of[r]
<1> DEFINE n == of[r]
<1>1. n \in Nat /\ n <= Total
    OBVIOUS
<1>2. Kobo(of, {r}) = {r} \X (1 .. n)
    BY <1>1, RefundsAssumption DEF Kobo
<1>3. Kobo(of, S \cup {r}) = Kobo(of, S) \cup Kobo(of, {r})
    BY DEF Kobo
<1>4. Kobo(of, S) \cap Kobo(of, {r}) = {}
    BY DEF Kobo
<1> HIDE DEF n
<1>5. Cardinality(Kobo(of, {r})) = n /\ IsFiniteSet(Kobo(of, {r}))
  <2>1. IsFiniteSet({r}) /\ Cardinality({r}) = 1
      BY FS_Singleton
  <2>2. IsFiniteSet(1 .. n) /\ Cardinality(1 .. n) = IF 1 > n THEN 0 ELSE n - 1 + 1
      BY <1>1, 1 \in Int, n \in Int, FS_Interval
  <2>3. /\ Cardinality({r} \X (1 .. n)) = Cardinality({r}) * Cardinality(1 .. n)
        /\ IsFiniteSet({r} \X (1 .. n))
      BY <2>1, <2>2, FS_Product
  <2>4. Cardinality(1 .. n) = n
      BY <1>1, <2>2
  <2>5. Cardinality({r} \X (1 .. n)) = n
      BY <1>1, <2>1, <2>3, <2>4
  <2> QED
      BY <1>2, <2>3, <2>5, Zenon
<1>6. IsFiniteSet(Kobo(of, S)) /\ SumOf(of, S) \in Nat
    BY SumType
<1>7. Cardinality(Kobo(of, S) \cup Kobo(of, {r}))
        = Cardinality(Kobo(of, S)) + Cardinality(Kobo(of, {r}))
            - Cardinality(Kobo(of, S) \cap Kobo(of, {r}))
    BY <1>5, <1>6, FS_Union
<1>8. Cardinality(Kobo(of, S) \cap Kobo(of, {r})) = 0
    BY <1>4, FS_EmptySet
<1>9. /\ SumOf(of, S \cup {r}) = Cardinality(Kobo(of, S) \cup Kobo(of, {r}))
      /\ SumOf(of, S) = Cardinality(Kobo(of, S))
    BY <1>3, Zenon DEF SumOf
<1>10. SumOf(of, S \cup {r}) = SumOf(of, S) + n - 0
    BY <1>5, <1>7, <1>8, <1>9, Zenon
<1>11. SumOf(of, S \cup {r}) = SumOf(of, S) + n
    BY <1>1, <1>6, <1>10
<1> QED
    BY <1>11 DEF n

(* What other requests refund does not matter.                             *)
LEMMA SumOfOwn ==
    ASSUME NEW of, NEW now, NEW S, \A r \in S : now[r] = of[r]
    PROVE  SumOf(now, S) = SumOf(of, S)
<1>1. Kobo(now, S) = Kobo(of, S)
    BY DEF Kobo
<1> QED
    BY <1>1 DEF SumOf

-------------------------------------------------------------------------------
(* What the step a request is at tells of the money.                       *)

Tells == StepsTell /\ ReadsAreFresh /\ refunded = SumOf(amount, Claimed)

LEMMA InitTells == Init => Tells
<1> SUFFICES ASSUME Init PROVE Tells
    OBVIOUS
<1>1. Claimed = {}
    BY DEF Init, Claimed
<1> QED
    BY <1>1, SumEmpty, RefundsAssumption
       DEF Init, Tells, StepsTell, ReadsAreFresh, AtGateway, Steps

LEMMA SumTellsKept ==
    ASSUME Tells, Claimed' = Claimed, refunded' = refunded,
           \A r \in Claimed : amount'[r] = amount[r]
    PROVE  refunded' = SumOf(amount', Claimed')
BY SumOfOwn, Zenon DEF Tells

LEMMA TellsStep ==
    ASSUME BooksFit, Tells, [Next]_vars
    PROVE  Tells'
<1>0. TypeOK
    BY DEF BooksFit
<1> USE <1>0 DEF TypeOK
<1>1. ASSUME NEW r \in Requests, Begin(r)
      PROVE  Tells'
  <2>1. PICK a \in 1 .. Total - refunded : amount' = [amount EXCEPT ![r] = a]
      BY <1>1 DEF Begin
  <2>2. /\ pc[r] = "idle" /\ pc' = [pc EXCEPT ![r] = "created"]
        /\ row' = [row EXCEPT ![r] = "PENDING"]
        /\ seen' = [seen EXCEPT ![r] = refunded]
        /\ overlapped' = (overlapped \/ \E q \in Requests : pc[q] \in Steps \ {"idle"})
        /\ UNCHANGED <<order, linked, credited, gateway, notified, failures>>
      BY <1>1 DEF Begin, Goto, SetRow
  <2>3. Claimed' = Claimed /\ r \notin Claimed
      BY <2>2 DEF Claimed
  <2>4. (refunded = SumOf(amount, Claimed))'
      BY <2>1, <2>2, <2>3, SumTellsKept DEF order, Claimed
  <2>5. StepsTell'
      BY <2>1, <2>2, RefundsAssumption DEF Tells, StepsTell, AtGateway, order
  <2>6. ReadsAreFresh'
      BY <2>2 DEF Tells, ReadsAreFresh, order
  <2> QED
      BY <2>4, <2>5, <2>6 DEF Tells
<1>2. ASSUME NEW r \in Requests, Commit(r)
      PROVE  Tells'
  <2>1. /\ pc[r] = "commit" /\ r \notin Claimed
        /\ UNCHANGED <<guest, request, row, linked, credited, gateway, notified, failures, overlapped>>
      BY <1>2 DEF Commit, Claimed
  <2>2. /\ amount \in [Requests -> Nat] /\ amount[r] <= Total
        /\ seen[r] + amount[r] <= Total /\ seen[r] \in Nat /\ refunded \in Nat
        /\ amount[r] >= 1
      BY <2>1 DEF Tells, StepsTell, BooksFit, ReadsAreOld, Steps
  <2>3. CASE refunded <= Total - amount[r]
    <3>1. /\ refunded' = refunded + amount[r]
          /\ pc' = [pc EXCEPT ![r] = "claimed"]
          /\ IsFinal(r) => status' = "REFUNDED"
          /\ ~IsFinal(r) => status' = status
        BY <1>2, <2>3 DEF Commit, Goto
    <3>2. Claimed' = Claimed \cup {r} /\ Claimed \in SUBSET Requests
        BY <3>1 DEF Claimed
    <3>3. SumOf(amount, Claimed \cup {r}) = SumOf(amount, Claimed) + amount[r]
        BY <2>1, <2>2, <3>2, SumOfOneMore
    <3>4. (refunded = SumOf(amount, Claimed))'
        BY <2>1, <3>1, <3>2, <3>3 DEF Tells, request
    <3>5. StepsTell'
        BY <2>1, <3>1 DEF Tells, StepsTell, AtGateway, request
    <3>6. ReadsAreFresh'
      <4> SUFFICES ASSUME ~overlapped'
                   PROVE  /\ \A q, s \in Requests :
                               pc'[q] \in Steps \ {"idle"} /\ pc'[s] \in Steps \ {"idle"} => q = s
                          /\ \A q \in Requests : pc'[q] \in Steps \ {"idle"} => seen'[q] = refunded'
                          /\ refunded' = Total => status' = "REFUNDED"
          BY DEF ReadsAreFresh
      <4>1. /\ \A q \in Requests : pc[q] \in Steps \ {"idle"} => q = r
            /\ seen[r] = refunded
          BY <2>1 DEF Tells, ReadsAreFresh, Steps
      <4>2. \A q \in Requests : pc'[q] \notin Steps \ {"idle"}
          BY <3>1, <4>1 DEF Steps
      <4>3. refunded' = Total => IsFinal(r)
          BY <2>2, <3>1, <4>1, RefundsAssumption DEF IsFinal
      <4> QED
          BY <3>1, <4>2, <4>3
    <3> QED
        BY <3>4, <3>5, <3>6 DEF Tells
  <2>4. CASE ~(refunded <= Total - amount[r])
    <3>1. /\ UNCHANGED <<status, refunded>>
          /\ pc' = [pc EXCEPT ![r] = "lost"]
        BY <1>2, <2>4 DEF Commit, Goto
    <3>2. overlapped
        BY <2>1, <2>2, <2>4, RefundsAssumption DEF Tells, ReadsAreFresh, Steps
    <3>3. Claimed' = Claimed
        BY <2>1, <3>1 DEF Claimed
    <3>4. (refunded = SumOf(amount, Claimed))'
        BY <2>1, <3>1, <3>3, SumTellsKept DEF request
    <3>5. StepsTell' /\ ReadsAreFresh'
        BY <2>1, <3>1, <3>2 DEF Tells, StepsTell, ReadsAreFresh, AtGateway, request
    <3> QED
        BY <3>4, <3>5 DEF Tells
  <2> QED
      BY <2>3, <2>4
<1>3. ASSUME NEW r \in Requests, UNCHANGED <<order, request, overlapped>>,
             pc[r] \in Steps \ {"idle"} \/ pc' = pc,
             \A q \in Requests \ {r} : pc'[q] = pc[q],
             pc[r] = "claimed" <=> pc'[r] = "claimed",
             StepsTell'
      PROVE  Tells'
  <2>1. Claimed' = Claimed
      BY <1>3 DEF Claimed
  <2>2. (refunded = SumOf(amount, Claimed))'
      BY <1>3, <2>1, SumTellsKept DEF order, request
  <2>3. ReadsAreFresh'
      BY <1>3 DEF Tells, ReadsAreFresh, order, request
  <2> QED
      BY <1>3, <2>2, <2>3 DEF Tells
<1> USE DEF Goto, SetRow, Fail, Tells, StepsTell, AtGateway, Steps, order, request
<1>4. ASSUME NEW r \in Requests,
             \/ RejectGuest(r) \/ CreditWallet(r) \/ RecordCredit(r) \/ GatewayDeclines(r)
             \/ RecordAccepted(r)
      PROVE  Tells'
  <2>1. StepsTell'
      BY <1>4 DEF RejectGuest, CreditWallet, RecordCredit, GatewayDeclines, RecordAccepted
  <2> QED
      BY <1>3, <1>4, <2>1 DEF RejectGuest, CreditWallet, RecordCredit, GatewayDeclines, RecordAccepted
<1>5. ASSUME NEW r \in Requests, GatewayAccepts(r) \/ AnswerLost(r)
      PROVE  Tells'
  <2>1. StepsTell'
      BY <1>5 DEF GatewayAccepts, AnswerLost, AtGatewayNow
  <2> QED
      BY <1>3, <1>5, <2>1 DEF GatewayAccepts, AnswerLost, AtGatewayNow
<1>6. ASSUME NEW r \in Requests,
             RecordDeclined(r) \/ RecordFailure(r) \/ RecordingThrows(r) \/ CutShort(r)
      PROVE  Tells'
  <2>1. StepsTell'
      BY <1>6 DEF RecordDeclined, RecordFailure, RecordingThrows, CutShort
  <2> QED
      BY <1>3, <1>6, <2>1 DEF RecordDeclined, RecordFailure, RecordingThrows, CutShort
<1>7. ASSUME NEW r \in Requests, GatewaySettles(r) \/ RefundProcessed(r)
      PROVE  Tells'
  <2>1. StepsTell'
      BY <1>7 DEF GatewaySettles, RefundProcessed
  <2> QED
      BY <1>3, <1>7, <2>1 DEF GatewaySettles, RefundProcessed
<1>8. CASE UNCHANGED vars
  <2>1. Claimed' = Claimed
      BY <1>8 DEF vars, Claimed
  <2> QED
      BY <1>8, <2>1 DEF vars, ReadsAreFresh
<1> QED
    BY <1>1, <1>2, <1>4, <1>5, <1>6, <1>7, <1>8 DEF Next, Step

-------------------------------------------------------------------------------
(* Type correctness of refunds.                                            *)
THEOREM TypeCorrect == Spec => []TypeOK
<1>1. Init => TypeOK
    BY InitBooksFit DEF BooksFit
<1> QED
    BY <1>1, TypeStep, PTL DEF Spec

(* The invariant that the other proofs rest on.                            *)
THEOREM Inductive == Spec => []IInv
<1>1. Init => IInv
    BY InitBooksFit, InitTells DEF IInv, Tells
<1>2. IInv /\ [Next]_vars => IInv'
    BY BooksFitStep, TellsStep DEF IInv, Tells
<1> QED
    BY <1>1, <1>2, PTL DEF Spec

(* The order's books stay whole however requests overlap and fail.         *)
THEOREM BooksAlwaysWhole == Spec => []BooksStayWhole
<1>1. IInv => BooksStayWhole
    BY DEF IInv, BooksFit
<1> QED
    BY <1>1, Inductive, PTL

(* Refunds only advance, and only a request whose read was current makes   *)
(* the order REFUNDED.                                                     *)
THEOREM RefundsOnlyAdvance == Spec => RefundsAdvance
<1> DEFINE Advances ==
       /\ refunded' >= refunded
       /\ status = "REFUNDED" => UNCHANGED <<status, refunded, sold>>
       /\ status' # status =>
            \E r \in Requests : seen[r] = refunded /\ seen[r] + amount[r] = Total
<1>1. ASSUME BooksFit, [Next]_vars
      PROVE  [Advances]_vars
  <2> SUFFICES ASSUME Next
               PROVE  Advances
      BY <1>1
  <2>1. TypeOK'
      BY <1>1, TypeStep DEF BooksFit
  <2>2. PICK r \in Requests : Step(r) \/ CutShort(r) \/ GatewaySettles(r) \/ RefundProcessed(r)
      BY DEF Next
  <2>3. CASE Commit(r)
      BY <1>1, <2>1, <2>3, CommitStep
  <2>4. CASE ~Commit(r)
    <3>1. UNCHANGED order
        BY <1>1, <2>1, <2>2, <2>4, BeginStep, QuietStep DEF Step
    <3> QED
        BY <1>1, <3>1 DEF order, BooksFit, TypeOK
  <2> QED
      BY <2>3, <2>4
<1>2. Spec => [][Advances]_vars
    BY <1>1, InitBooksFit, BooksFitStep, PTL DEF Spec
<1> QED
    BY <1>2 DEF RefundsAdvance

(* What the books show was sent, and requests that take turns neither send *)
(* more than was paid nor leave a full refund unsettled.                   *)
THEOREM BooksAlwaysFollow == Spec => []BooksFollowMoney
<1>1. IInv => BooksWereSent
    BY DEF IInv, StepsTell, BooksWereSent, Claimed
<1>2. IInv => FullRefundIsFinal
    BY DEF IInv, ReadsAreFresh, FullRefundIsFinal
<1>3. IInv => NoOverRefundInTurn
  <2> SUFFICES ASSUME IInv, ~overlapped, failures = 0
               PROVE  SumOf(amount, credited \cup AtGateway) <= Total
      BY DEF NoOverRefundInTurn, NoOverRefund, MoneyBack
  <2> DEFINE Out == credited \cup AtGateway
  <2>1. /\ Claimed \in SUBSET Requests /\ Out \in SUBSET Requests
        /\ amount \in [Requests -> Nat] /\ Total \in Nat /\ refunded \in Nat
      BY RefundsAssumption DEF IInv, BooksFit, TypeOK, Claimed, AtGateway
  <2>2. \A r \in Out \ Claimed : pc[r] \in Steps \ {"idle"}
      BY <2>1 DEF IInv, StepsTell, Claimed, Steps
  <2>3. SumOf(amount, Claimed) = refunded /\ refunded <= Total
      BY DEF IInv, BooksFit, BooksStayWhole
  <2> HIDE DEF Out
  <2>4. CASE Out \in SUBSET Claimed
    <3>1. SumOf(amount, Out) <= SumOf(amount, Claimed)
        BY <2>1, <2>4, SumOfFewer
    <3>2. SumOf(amount, Out) \in Nat
        BY <2>1, SumType
    <3> QED
        BY <2>1, <2>3, <3>1, <3>2 DEF Out
  <2>5. CASE Out \notin SUBSET Claimed
    <3>1. PICK r \in Out \ Claimed : TRUE
        BY <2>5
    <3>2. /\ \A q \in Out \ Claimed : q = r
          /\ seen[r] = refunded /\ seen[r] + amount[r] <= Total
          /\ amount[r] <= Total /\ r \in Requests \ Claimed
        BY <2>1, <2>2, <3>1 DEF IInv, BooksFit, ReadsAreFresh, ReadsAreOld, StepsTell
    <3>3. Out \in SUBSET (Claimed \cup {r}) /\ Claimed \cup {r} \in SUBSET Requests
        BY <2>1, <3>2
    <3>4. SumOf(amount, Out) <= SumOf(amount, Claimed \cup {r})
        BY <3>3, SumOfFewer
    <3>5. SumOf(amount, Claimed \cup {r}) = refunded + amount[r]
        BY <2>1, <2>3, <3>2, SumOfOneMore
    <3>6. SumOf(amount, Out) \in Nat /\ amount[r] \in Nat
        BY <2>1, <3>2, SumType
    <3> QED
        BY <2>1, <3>2, <3>4, <3>5, <3>6 DEF Out
  <2> QED
      BY <2>4, <2>5
<1> QED
    BY <1>1, <1>2, <1>3, Inductive, PTL DEF BooksFollowMoney
==================================================================================
