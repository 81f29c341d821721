------------------------------ MODULE MoneyProofs -------------------------------
(***************************************************************************)
(* Theorems about Money, for every set of users, rows and calls: the       *)
(* ledger explains every balance, nothing is credited twice or without a   *)
(* claim, and what was claimed or earned is credited unless a call failed. *)
(* One lemma says what a ledger write does; one lemma per part of the      *)
(* inductive invariant says that every step keeps it.                      *)
(***************************************************************************)
EXTENDS Money, FiniteSetTheorems, TLAPS

-------------------------------------------------------------------------------
(* Writing to the ledger.                                                  *)

(* What Record writes: one more row for the user.                          *)
LEMMA RecordRow ==
    ASSUME LedgerTypeOK, NEW u \in Users, NEW delta \in Int, NEW cause \in Causes,
           Record(u, delta, cause)
    PROVE  \E row \in Rows :
             /\ row = [delta |-> delta, after |-> balance[u] + delta, cause |-> cause]
             /\ ledger[u] \in Seq(Rows)
             /\ ledger' = [ledger EXCEPT ![u] = Append(ledger[u], row)]
             /\ ledger'[u] = Append(ledger[u], row)
             /\ \A w \in Users : w # u => ledger'[w] = ledger[w]
             /\ balance' = [balance EXCEPT ![u] = balance[u] + delta]
             /\ balance'[u] = balance[u] + delta
             /\ \A w \in Users : w # u => balance'[w] = balance[w]
<1> DEFINE row == [delta |-> delta, after |-> balance[u] + delta, cause |-> cause]
<1>1. row \in Rows
    BY DEF LedgerTypeOK, Rows
<1>2. ledger' = [ledger EXCEPT ![u] = Append(ledger[u], row)]
    BY DEF Record
<1>3. balance' = [balance EXCEPT ![u] = balance[u] + delta]
    BY DEF Record
<1> HIDE DEF row
<1>4. ledger[u] \in Seq(Rows) /\ ledger'[u] = Append(ledger[u], row)
    BY <1>2 DEF LedgerTypeOK
<1>5. \A w \in Users : w # u => ledger'[w] = ledger[w]
    BY <1>2 DEF LedgerTypeOK
<1>6. balance'[u] = balance[u] + delta /\ \A w \in Users : w # u => balance'[w] = balance[w]
    BY <1>3 DEF LedgerTypeOK
<1> QED
    BY <1>1, <1>2, <1>3, <1>4, <1>5, <1>6 DEF row

(* Record keeps the ledger's types.                                        *)
LEMMA RecordType ==
    ASSUME LedgerTypeOK, NEW u \in Users, NEW delta \in Int, NEW cause \in Causes,
           Record(u, delta, cause)
    PROVE  LedgerTypeOK'
<1>1. PICK row \in Rows :
        /\ ledger[u] \in Seq(Rows)
        /\ ledger' = [ledger EXCEPT ![u] = Append(ledger[u], row)]
        /\ balance' = [balance EXCEPT ![u] = balance[u] + delta]
    BY RecordRow
<1>2. Append(ledger[u], row) \in Seq(Rows)
    BY <1>1
<1>3. ledger' \in [Users -> Seq(Rows)]
    BY <1>1, <1>2 DEF LedgerTypeOK
<1>4. balance' \in [Users -> Int]
    BY <1>1 DEF LedgerTypeOK
<1> QED
    BY <1>3, <1>4 DEF LedgerTypeOK

(* Every row is an old one in its place, or the new one at the end.        *)
LEMMA RecordRows ==
    ASSUME LedgerTypeOK, NEW u \in Users, NEW delta \in Int, NEW cause \in Causes,
           Record(u, delta, cause)
    PROVE  \E n \in Nat :
             /\ n = Len(ledger[u]) /\ Len(ledger'[u]) = n + 1
             /\ DOMAIN ledger[u] = 1 .. n /\ DOMAIN ledger'[u] = 1 .. n + 1
             /\ \A i \in 1 .. n : ledger'[u][i] = ledger[u][i]
             /\ ledger'[u][n + 1].cause = cause
             /\ ledger'[u][n + 1].delta = delta
             /\ ledger'[u][n + 1].after = balance[u] + delta
<1>1. PICK row \in Rows :
        /\ row = [delta |-> delta, after |-> balance[u] + delta, cause |-> cause]
        /\ ledger[u] \in Seq(Rows) /\ ledger'[u] = Append(ledger[u], row)
    BY RecordRow
<1>2. row.cause = cause /\ row.delta = delta /\ row.after = balance[u] + delta
    BY <1>1
<1>3. ledger'[u][Len(ledger[u]) + 1] = row
    BY <1>1
<1>4. /\ Len(ledger[u]) \in Nat /\ Len(ledger'[u]) = Len(ledger[u]) + 1
      /\ DOMAIN ledger[u] = 1 .. Len(ledger[u])
      /\ DOMAIN ledger'[u] = 1 .. Len(ledger[u]) + 1
      /\ \A i \in 1 .. Len(ledger[u]) : ledger'[u][i] = ledger[u][i]
    BY <1>1
<1> QED
    BY <1>2, <1>3, <1>4

(* A cause is recorded after a write when it was before or is the new one. *)
LEMMA RecordCauses ==
    ASSUME LedgerTypeOK, NEW u \in Users, NEW delta \in Int, NEW cause \in Causes,
           Record(u, delta, cause)
    PROVE  \A c : Recorded(c)' <=> (Recorded(c) \/ c = cause)
<1> TAKE c
<1>1. PICK n \in Nat :
        /\ DOMAIN ledger[u] = 1 .. n /\ DOMAIN ledger'[u] = 1 .. n + 1
        /\ \A i \in 1 .. n : ledger'[u][i] = ledger[u][i]
        /\ ledger'[u][n + 1].cause = cause
    BY RecordRows
<1>2. \A w \in Users : w # u => ledger'[w] = ledger[w]
    BY RecordRow
<1>3. ASSUME Recorded(c)'
      PROVE  Recorded(c) \/ c = cause
  <2>1. PICK w \in Users : \E i \in DOMAIN ledger'[w] : ledger'[w][i].cause = c
      BY <1>3 DEF Recorded
  <2>2. CASE w = u
      BY <2>1, <2>2, <1>1 DEF Recorded
  <2>3. CASE w # u
      BY <2>1, <2>3, <1>2 DEF Recorded
  <2> QED
      BY <2>2, <2>3
<1>4. ASSUME Recorded(c)
      PROVE  Recorded(c)'
  <2>1. PICK w \in Users : \E i \in DOMAIN ledger[w] : ledger[w][i].cause = c
      BY <1>4 DEF Recorded
  <2>2. \E i \in DOMAIN ledger'[w] : ledger'[w][i].cause = c
    <3>1. CASE w = u
        BY <2>1, <3>1, <1>1
    <3>2. CASE w # u
        BY <2>1, <3>2, <1>2
    <3> QED
        BY <3>1, <3>2
  <2> QED
      BY <2>2 DEF Recorded
<1>5. c = cause => Recorded(c)'
  <2>1. n + 1 \in DOMAIN ledger'[u]
      BY <1>1
  <2> QED
      BY <1>1, <2>1 DEF Recorded
<1> QED
    BY <1>3, <1>4, <1>5
(* What a property says of all rows after a write follows from the old rows *)
(* and the new one.                                                        *)
LEMMA RowsAfter ==
    ASSUME LedgerTypeOK, NEW u \in Users, NEW delta \in Int, NEW cause \in Causes,
           Record(u, delta, cause),
           NEW w \in Users, NEW i \in DOMAIN ledger'[w]
    PROVE  \/ i \in DOMAIN ledger[w] /\ ledger'[w][i] = ledger[w][i]
           \/ w = u /\ i \notin DOMAIN ledger[w] /\ i = Len(ledger'[w])
                /\ ledger'[w][i].cause = cause
<1>1. PICK n \in Nat :
        /\ Len(ledger'[u]) = n + 1
        /\ DOMAIN ledger[u] = 1 .. n /\ DOMAIN ledger'[u] = 1 .. n + 1
        /\ \A j \in 1 .. n : ledger'[u][j] = ledger[u][j]
        /\ ledger'[u][n + 1].cause = cause
    BY RecordRows
<1>2. w # u => ledger'[w] = ledger[w]
    BY RecordRow
<1>3. CASE w = u
  <2>1. i \in 1 .. n \/ i = n + 1
      BY <1>1, <1>3
  <2> QED
      BY <1>1, <1>3, <2>1
<1> QED
    BY <1>2, <1>3

(* Recording a new cause keeps causes unique.                              *)
LEMMA RecordOnce ==
    ASSUME LedgerTypeOK, NEW u \in Users, NEW delta \in Int, NEW cause \in Causes,
           Record(u, delta, cause), OncePerCause, ~Recorded(cause)
    PROVE  OncePerCause'
<1> SUFFICES ASSUME NEW v \in Users, NEW w \in Users,
                    NEW i \in DOMAIN ledger'[v], NEW j \in DOMAIN ledger'[w],
                    ledger'[v][i].cause = ledger'[w][j].cause
             PROVE  v = w /\ i = j
    BY DEF OncePerCause
<1>1. \/ i \in DOMAIN ledger[v] /\ ledger'[v][i] = ledger[v][i]
      \/ v = u /\ i \notin DOMAIN ledger[v] /\ i = Len(ledger'[v])
           /\ ledger'[v][i].cause = cause
    BY RowsAfter
<1>2. \/ j \in DOMAIN ledger[w] /\ ledger'[w][j] = ledger[w][j]
      \/ w = u /\ j \notin DOMAIN ledger[w] /\ j = Len(ledger'[w])
           /\ ledger'[w][j].cause = cause
    BY RowsAfter
<1>3. \A x \in Users : \A k \in DOMAIN ledger[x] : ledger[x][k].cause # cause
    BY DEF Recorded
<1>4. CASE i \in DOMAIN ledger[v] /\ j \in DOMAIN ledger[w]
    BY <1>1, <1>2, <1>4 DEF OncePerCause
<1> QED
    BY <1>1, <1>2, <1>3, <1>4

(* A write that leaves no negative balance keeps the ledger exact.         *)
LEMMA RecordExact ==
    ASSUME LedgerTypeOK, NEW u \in Users, NEW delta \in Int, NEW cause \in Causes,
           Record(u, delta, cause), LedgerExact, balance[u] + delta >= 0
    PROVE  LedgerExact'
<1>1. PICK n \in Nat :
        /\ n = Len(ledger[u]) /\ Len(ledger'[u]) = n + 1
        /\ \A i \in 1 .. n : ledger'[u][i] = ledger[u][i]
        /\ ledger'[u][n + 1].delta = delta
        /\ ledger'[u][n + 1].after = balance[u] + delta
    BY RecordRows
<1>2. \A w \in Users : w # u => balance'[w] = balance[w] /\ ledger'[w] = ledger[w]
    BY RecordRow
<1>3. balance'[u] = balance[u] + delta
    BY RecordRow
<1>4. balance[u] = IF n + 1 = 1 THEN 0 ELSE ledger[u][n + 1 - 1].after
    BY <1>1 DEF LedgerExact
<1>5. \A i \in 1 .. n :
        /\ ledger[u][i].after = (IF i = 1 THEN 0 ELSE ledger[u][i - 1].after) + ledger[u][i].delta
        /\ ledger[u][i].after >= 0
    BY <1>1 DEF LedgerExact
<1>6. ASSUME NEW i \in 1 .. n + 1
      PROVE  /\ ledger'[u][i].after =
                (IF i = 1 THEN 0 ELSE ledger'[u][i - 1].after) + ledger'[u][i].delta
             /\ ledger'[u][i].after >= 0
  <2>1. CASE i = n + 1
    <3>1. n + 1 - 1 = n /\ (n # 0 => ledger'[u][n] = ledger[u][n])
        BY <1>1
    <3>2. balance[u] = IF i = 1 THEN 0 ELSE ledger'[u][i - 1].after
        BY <2>1, <3>1, <1>4
    <3>3. balance[u] \in Int
        BY DEF LedgerTypeOK
    <3> QED
        BY <2>1, <3>2, <3>3, <1>1
  <2>2. CASE i \in 1 .. n
    <3>1. ledger'[u][i] = ledger[u][i] /\ (i # 1 => ledger'[u][i - 1] = ledger[u][i - 1])
        BY <2>2, <1>1
    <3> QED
        BY <2>2, <3>1, <1>5
  <2> QED
      BY <2>1, <2>2
<1>7. balance'[u] = IF n + 1 + 1 = 1 THEN 0 ELSE ledger'[u][n + 1 + 1 - 1].after
  <2>1. n + 1 + 1 # 1 /\ n + 1 + 1 - 1 = n + 1
      OBVIOUS
  <2> QED
      BY <2>1, <1>1, <1>3
<1>8. ASSUME NEW w \in Users
      PROVE  /\ \A i \in 1 .. Len(ledger'[w]) :
                  /\ ledger'[w][i].after =
                       (IF i = 1 THEN 0 ELSE ledger'[w][i - 1].after) + ledger'[w][i].delta
                  /\ ledger'[w][i].after >= 0
             /\ balance'[w] = IF Len(ledger'[w]) + 1 = 1 THEN 0
                              ELSE ledger'[w][Len(ledger'[w]) + 1 - 1].after
  <2>1. CASE w = u
      BY <2>1, <1>1, <1>6, <1>7
  <2>2. CASE w # u
      BY <2>2, <1>2 DEF LedgerExact
  <2> QED
      BY <2>1, <2>2
<1> QED
    BY <1>8 DEF LedgerExact
-------------------------------------------------------------------------------
(* The steps, by whom they belong to.                                      *)

TopUpStep ==
    \/ \E t \in TopUps : InitiateTopUp(t) \/ PayTopUp(t)
    \/ \E d \in Deliveries, t \in TopUps : ReadTopUp(d, t)
    \/ \E d \in Deliveries : ClaimTopUp(d) \/ CreditTopUp(d) \/ CutShort(d)

VoucherStep ==
    \/ \E r \in Redemptions, v \in Vouchers : ReadVoucher(r, v)
    \/ \E r \in Redemptions :
        ClaimVoucher(r) \/ CountVoucher(r) \/ CreditVoucher(r) \/ CutShort(r)

PurchaseStep == \E p \in Purchases : Purchase(p) \/ CutShort(p)

OrderStep ==
    \E n \in Notices : Notify(n) \/ RewardStep(n)

LEMMA StepCases ==
    ASSUME [Next]_vars
    PROVE  \/ TopUpStep /\ UNCHANGED rewardVars
           \/ VoucherStep /\ UNCHANGED rewardVars
           \/ PurchaseStep /\ UNCHANGED rewardVars
           \/ OrderStep /\ UNCHANGED fundingVars
           \/ UNCHANGED vars
BY DEF Next, Start, Continue, TopUpStep, VoucherStep, PurchaseStep, OrderStep, Calls

-------------------------------------------------------------------------------
(* Types.                                                                  *)

LEMMA TopUpTypes ==
    ASSUME FundingTypeOK, TopUpStep
    PROVE  FundingTypeOK'
<1> USE FundingAssumption DEF FundingTypeOK, Goto, Calls, Busy, topUps, vouchers, calls
<1>1. ASSUME NEW t \in TopUps, InitiateTopUp(t) \/ PayTopUp(t)
      PROVE  FundingTypeOK'
    BY <1>1 DEF InitiateTopUp, PayTopUp
<1>2. ASSUME NEW d \in Deliveries, NEW t \in TopUps, ReadTopUp(d, t)
      PROVE  FundingTypeOK'
    BY <1>2 DEF ReadTopUp
<1>3. ASSUME NEW d \in Deliveries, ClaimTopUp(d)
      PROVE  FundingTypeOK'
    BY <1>3 DEF ClaimTopUp
<1>4. ASSUME NEW d \in Deliveries, CreditTopUp(d) \/ CutShort(d)
      PROVE  FundingTypeOK'
    BY <1>4 DEF CreditTopUp, CutShort
<1> QED
    BY <1>1, <1>2, <1>3, <1>4 DEF TopUpStep

LEMMA VoucherTypes ==
    ASSUME FundingTypeOK, VoucherStep \/ PurchaseStep, VoucherPhase
    PROVE  FundingTypeOK'
<1> USE FundingAssumption DEF FundingTypeOK, Goto, Calls, Busy, topUps, vouchers, calls
<1>1. ASSUME NEW r \in Redemptions, NEW v \in Vouchers, ReadVoucher(r, v)
      PROVE  FundingTypeOK'
    BY <1>1 DEF ReadVoucher
<1>2. ASSUME NEW r \in Redemptions, ClaimVoucher(r)
      PROVE  FundingTypeOK'
    BY <1>2 DEF ClaimVoucher, VoucherPhase
<1>3. ASSUME NEW r \in Redemptions, CountVoucher(r) \/ CreditVoucher(r) \/ CutShort(r)
      PROVE  FundingTypeOK'
    BY <1>3 DEF CountVoucher, CreditVoucher, CutShort
<1>4. ASSUME NEW p \in Purchases, Purchase(p) \/ CutShort(p)
      PROVE  FundingTypeOK'
    BY <1>4 DEF Purchase, CutShort
<1> QED
    BY <1>1, <1>2, <1>3, <1>4 DEF VoucherStep, PurchaseStep

LEMMA OrderTypes ==
    ASSUME RewardsTypeOK, OrderStep
    PROVE  RewardsTypeOK'
<1> USE RewardsAssumption DEF RewardsTypeOK, To, Stages, AfterIssue, FirstReward
<1>1. ASSUME NEW n \in Notices, Notify(n) \/ Issue(n)
      PROVE  RewardsTypeOK'
    BY <1>1 DEF Notify, Issue, Of, Notices
<1>2. ASSUME NEW n \in Notices, ReadReferral(n) \/ CreditReferral(n) \/ ReferralThrows(n)
      PROVE  RewardsTypeOK'
    BY <1>2 DEF ReadReferral, CreditReferral, ReferralThrows
<1>3. ASSUME NEW n \in Notices, ClaimReferral(n)
      PROVE  RewardsTypeOK'
    BY <1>3 DEF ClaimReferral, Of, Notices
<1>4. ASSUME NEW n \in Notices, EarnPoints(n)
      PROVE  RewardsTypeOK'
    BY <1>4 DEF EarnPoints, Of, Notices
<1>5. ASSUME NEW n \in Notices, PayAgent(n) \/ NoticeCutShort(n)
      PROVE  RewardsTypeOK'
    BY <1>5 DEF PayAgent, NoticeCutShort
<1> QED
    BY <1>1, <1>2, <1>3, <1>4, <1>5 DEF OrderStep, RewardStep

-------------------------------------------------------------------------------
(* What a step may write to the ledger.                                    *)

Justified(u, cause) ==
    /\ \A t \in TopUps : cause = TopUpCause(t) =>
        topUp[t] = "PROCESSED" /\ By[t] = u /\ charge[t] = "exact"
    /\ \A v \in Vouchers : cause = VoucherCause(v) => redeemedBy[v] = u

(* Some user's row for a cause of the call, which has none yet.            *)
Writes(causes) ==
    \E u \in Users, delta \in Int, cause \in causes \cap Causes :
        /\ Record(u, delta, cause)
        /\ balance[u] + delta >= 0
        /\ ~Recorded(cause)
        /\ Justified(u, cause)

LEMMA NeverNegative ==
    ASSUME LedgerTypeOK, LedgerExact, NEW u \in Users
    PROVE  balance[u] \in Int /\ balance[u] >= 0
<1>1. ledger[u] \in Seq(Rows) /\ balance[u] \in Int
    BY DEF LedgerTypeOK
<1>2. CASE Len(ledger[u]) = 0
    BY <1>1, <1>2 DEF LedgerExact
<1>3. CASE Len(ledger[u]) # 0
    BY <1>1, <1>3 DEF LedgerExact
<1> QED
    BY <1>1, <1>2, <1>3

LEMMA CauseKinds ==
    /\ \A t, x : TopUpCause(t) # VoucherCause(x) /\ TopUpCause(t) # PurchaseCause(x)
                 /\ TopUpCause(t) # CommissionCause(x) /\ TopUpCause(t) # ReferralCause
    /\ \A v, x : VoucherCause(v) # PurchaseCause(x) /\ VoucherCause(v) # CommissionCause(x)
                 /\ VoucherCause(v) # ReferralCause
    /\ \A p, x : PurchaseCause(p) # CommissionCause(x) /\ PurchaseCause(p) # ReferralCause
    /\ \A o : CommissionCause(o) # ReferralCause
    /\ \A x, y : TopUpCause(x) = TopUpCause(y) => x = y
    /\ \A x, y : VoucherCause(x) = VoucherCause(y) => x = y
    /\ \A x, y : PurchaseCause(x) = PurchaseCause(y) => x = y
    /\ \A x, y : CommissionCause(x) = CommissionCause(y) => x = y
BY DEF TopUpCause, VoucherCause, PurchaseCause, CommissionCause, ReferralCause

LEMMA TopUpWrites ==
    ASSUME CreditsFit, NEW d \in Deliveries, CreditTopUp(d)
    PROVE  Writes({TopUpCause(on[d])})
<1> USE DEF CreditsFit, TypeOK
<1>1. /\ on[d] \in TopUps /\ charge[on[d]] = "exact" /\ topUp[on[d]] = "PROCESSED"
      /\ ~Recorded(TopUpCause(on[d]))
    BY DEF CreditTopUp, TopUpPhase, Busy
<1>2. By[on[d]] \in Users /\ TopUpKobo \in Nat /\ TopUpCause(on[d]) \in Causes
    BY <1>1, FundingAssumption
<1>3. Record(By[on[d]], TopUpKobo, TopUpCause(on[d]))
    BY DEF CreditTopUp, Credit
<1>4. balance[By[on[d]]] + TopUpKobo >= 0
    BY <1>2, NeverNegative
<1>5. Justified(By[on[d]], TopUpCause(on[d]))
    BY <1>1, CauseKinds DEF Justified
<1> QED
    BY <1>1, <1>2, <1>3, <1>4, <1>5 DEF Writes

LEMMA VoucherWrites ==
    ASSUME CreditsFit, NEW r \in Redemptions, CreditVoucher(r)
    PROVE  Writes({VoucherCause(on[r])})
<1> USE DEF CreditsFit, TypeOK
<1>1. /\ on[r] \in Vouchers /\ redeemedBy[on[r]] = By[r] /\ ~Recorded(VoucherCause(on[r]))
    BY DEF CreditVoucher, VoucherPhase, Busy
<1>2. By[r] \in Users /\ DenominationKobo \in Nat /\ VoucherCause(on[r]) \in Causes
    BY <1>1, FundingAssumption
<1>3. Record(By[r], DenominationKobo, VoucherCause(on[r]))
    BY DEF CreditVoucher, Credit
<1>4. balance[By[r]] + DenominationKobo >= 0
    BY <1>2, NeverNegative
<1>5. Justified(By[r], VoucherCause(on[r]))
    BY <1>1, CauseKinds DEF Justified
<1> QED
    BY <1>1, <1>2, <1>3, <1>4, <1>5 DEF Writes

LEMMA PurchaseWrites ==
    ASSUME CreditsFit, NEW p \in Purchases, Purchase(p)
    PROVE  Writes({PurchaseCause(p)}) \/ UNCHANGED accounts
<1> USE DEF CreditsFit, TypeOK
<1>1. ~Recorded(PurchaseCause(p))
    BY DEF Purchase, PurchasePhase
<1>2. By[p] \in Users /\ PurchaseKobo \in Nat /\ PurchaseCause(p) \in Causes
    BY FundingAssumption
<1>3. -PurchaseKobo \in Int
    BY <1>2
<1>4. ASSUME Debit(By[p], PurchaseKobo, PurchaseCause(p))
      PROVE  Writes({PurchaseCause(p)})
  <2>1. Record(By[p], -PurchaseKobo, PurchaseCause(p))
      BY <1>4 DEF Debit
  <2>2. balance[By[p]] >= PurchaseKobo
      BY <1>4 DEF Debit, CanDebit
  <2>3. balance[By[p]] \in Int
      BY <1>2, NeverNegative
  <2>4. balance[By[p]] + (-PurchaseKobo) >= 0
      BY <1>2, <2>2, <2>3
  <2>5. Justified(By[p], PurchaseCause(p))
      BY CauseKinds DEF Justified
  <2> QED
      BY <1>1, <1>2, <1>3, <2>1, <2>4, <2>5 DEF Writes
<1> QED
    BY <1>4 DEF Purchase

LEMMA ReferralWrites ==
    ASSUME CreditsFit, NEW n \in Notices, CreditReferral(n)
    PROVE  Writes({ReferralCause})
<1> USE DEF CreditsFit, TypeOK
<1>1. ~Recorded(ReferralCause)
    BY DEF CreditReferral, ReferralPhase
<1>2. Referrer \in Users /\ RewardKobo \in Nat /\ ReferralCause \in Causes
    BY RewardsAssumption
<1>3. Record(Referrer, RewardKobo, ReferralCause)
    BY DEF CreditReferral, Credit
<1>4. balance[Referrer] + RewardKobo >= 0
    BY <1>2, NeverNegative
<1>5. Justified(Referrer, ReferralCause)
    BY CauseKinds DEF Justified
<1> QED
    BY <1>1, <1>2, <1>3, <1>4, <1>5 DEF Writes

LEMMA AgentWrites ==
    ASSUME CreditsFit, NEW n \in Notices, PayAgent(n)
    PROVE  Writes({CommissionCause(Of(n))}) \/ UNCHANGED accounts
<1> USE DEF CreditsFit, TypeOK
<1>1. ~Recorded(CommissionCause(Of(n)))
    BY DEF PayAgent, CommissionPhase, AfterIssue
<1>2. Agent \in Users /\ CommissionKobo \in Nat
      /\ (Of(n) \in AgentOrders => CommissionCause(Of(n)) \in Causes)
    BY RewardsAssumption
<1>3. Of(n) \in AgentOrders => Record(Agent, CommissionKobo, CommissionCause(Of(n)))
    BY DEF PayAgent, Credit
<1>4. balance[Agent] + CommissionKobo >= 0
    BY <1>2, NeverNegative
<1>5. Justified(Agent, CommissionCause(Of(n)))
    BY CauseKinds DEF Justified
<1> QED
    BY <1>1, <1>2, <1>3, <1>4, <1>5 DEF Writes, PayAgent

(* What a write of a call's own, unrecorded cause keeps.                   *)
LEMMA WriteKeeps ==
    ASSUME CreditsFit, NEW causes, Writes(causes)
    PROVE  /\ LedgerTypeOK' /\ LedgerExact' /\ OncePerCause'
           /\ \A c : Recorded(c)' => Recorded(c) \/ c \in causes
<1>1. PICK u \in Users, delta \in Int, cause \in causes \cap Causes :
        /\ Record(u, delta, cause) /\ balance[u] + delta >= 0 /\ ~Recorded(cause)
    BY DEF Writes
<1>2. LedgerTypeOK /\ LedgerExact /\ OncePerCause
    BY DEF CreditsFit, TypeOK
<1>3. cause \in Causes
    OBVIOUS
<1>4. LedgerTypeOK'
    BY <1>1, <1>2, <1>3, RecordType
<1>5. LedgerExact'
    BY <1>1, <1>2, <1>3, RecordExact
<1>6. OncePerCause'
    BY <1>1, <1>2, <1>3, RecordOnce
<1>7. \A c : Recorded(c)' => Recorded(c) \/ c = cause
    BY <1>1, <1>2, <1>3, RecordCauses
<1> QED
    BY <1>4, <1>5, <1>6, <1>7

LEMMA NoWriteKeeps ==
    ASSUME UNCHANGED accounts
    PROVE  /\ LedgerTypeOK => LedgerTypeOK'
           /\ LedgerExact => LedgerExact'
           /\ OncePerCause => OncePerCause'
           /\ \A c : Recorded(c)' => Recorded(c)
<1>1. balance' = balance /\ ledger' = ledger
    BY DEF accounts
<1>2. LedgerTypeOK => LedgerTypeOK'
    BY <1>1 DEF LedgerTypeOK
<1>3. LedgerExact => LedgerExact'
    BY <1>1 DEF LedgerExact
<1>4. OncePerCause => OncePerCause'
    BY <1>1 DEF OncePerCause
<1>5. \A c : Recorded(c)' => Recorded(c)
    BY <1>1 DEF Recorded
<1> QED
    BY <1>2, <1>3, <1>4, <1>5

(* Which causes each crediting step records.                               *)

LEMMA TopUpRecords ==
    ASSUME CreditsFit, NEW d \in Deliveries, CreditTopUp(d)
    PROVE  \A c : Recorded(c)' => Recorded(c) \/ c = TopUpCause(on[d])
<1>1. Writes({TopUpCause(on[d])})
    BY TopUpWrites
<1>2. \A c : Recorded(c)' => Recorded(c) \/ c \in {TopUpCause(on[d])}
    BY <1>1, WriteKeeps
<1> QED
    BY <1>2

LEMMA VoucherRecords ==
    ASSUME CreditsFit, NEW r \in Redemptions, CreditVoucher(r)
    PROVE  \A c : Recorded(c)' => Recorded(c) \/ c = VoucherCause(on[r])
<1>1. Writes({VoucherCause(on[r])})
    BY VoucherWrites
<1>2. \A c : Recorded(c)' => Recorded(c) \/ c \in {VoucherCause(on[r])}
    BY <1>1, WriteKeeps
<1> QED
    BY <1>2

LEMMA PurchaseRecords ==
    ASSUME CreditsFit, NEW p \in Purchases, Purchase(p)
    PROVE  \A c : Recorded(c)' => Recorded(c) \/ c = PurchaseCause(p)
<1>1. Writes({PurchaseCause(p)}) \/ UNCHANGED accounts
    BY PurchaseWrites
<1>2. Writes({PurchaseCause(p)}) => \A c : Recorded(c)' => Recorded(c) \/ c \in {PurchaseCause(p)}
    BY WriteKeeps
<1>3. UNCHANGED accounts => \A c : Recorded(c)' => Recorded(c)
    BY NoWriteKeeps
<1> QED
    BY <1>1, <1>2, <1>3

LEMMA ReferralRecords ==
    ASSUME CreditsFit, NEW n \in Notices, CreditReferral(n)
    PROVE  \A c : Recorded(c)' => Recorded(c) \/ c = ReferralCause
<1>1. Writes({ReferralCause})
    BY ReferralWrites
<1>2. \A c : Recorded(c)' => Recorded(c) \/ c \in {ReferralCause}
    BY <1>1, WriteKeeps
<1> QED
    BY <1>2

LEMMA AgentRecords ==
    ASSUME CreditsFit, NEW n \in Notices, PayAgent(n)
    PROVE  \A c : Recorded(c)' => Recorded(c) \/ c = CommissionCause(Of(n))
<1>1. Writes({CommissionCause(Of(n))}) \/ UNCHANGED accounts
    BY AgentWrites
<1>2. Writes({CommissionCause(Of(n))}) => \A c : Recorded(c)' => Recorded(c) \/ c \in {CommissionCause(Of(n))}
    BY WriteKeeps
<1>3. UNCHANGED accounts => \A c : Recorded(c)' => Recorded(c)
    BY NoWriteKeeps
<1> QED
    BY <1>1, <1>2, <1>3

(* A step writes nothing, or one justified row.                            *)
LEMMA LedgerStep ==
    ASSUME CreditsFit, [Next]_vars
    PROVE  UNCHANGED accounts \/ \E causes : Writes(causes)
<1>1. ASSUME TopUpStep
      PROVE  UNCHANGED accounts \/ \E causes : Writes(causes)
    BY <1>1, TopUpWrites DEF TopUpStep, InitiateTopUp, PayTopUp, ReadTopUp, ClaimTopUp, CutShort
<1>2. ASSUME VoucherStep
      PROVE  UNCHANGED accounts \/ \E causes : Writes(causes)
    BY <1>2, VoucherWrites DEF VoucherStep, ReadVoucher, ClaimVoucher, CountVoucher, CutShort
<1>3. ASSUME PurchaseStep
      PROVE  UNCHANGED accounts \/ \E causes : Writes(causes)
    BY <1>3, PurchaseWrites DEF PurchaseStep, CutShort
<1>4. ASSUME OrderStep
      PROVE  UNCHANGED accounts \/ \E causes : Writes(causes)
    BY <1>4, ReferralWrites, AgentWrites
       DEF OrderStep, RewardStep, Notify, Issue, ReadReferral, ClaimReferral,
           ReferralThrows, EarnPoints, NoticeCutShort
<1> QED
    BY <1>1, <1>2, <1>3, <1>4, StepCases DEF vars

LEMMA LedgerKept ==
    ASSUME CreditsFit, [Next]_vars
    PROVE  LedgerTypeOK' /\ LedgerExact' /\ OncePerCause'
BY LedgerStep, WriteKeeps, NoWriteKeeps DEF CreditsFit, TypeOK

(* A claim is never withdrawn.                                             *)
LEMMA ClaimsStay ==
    ASSUME CreditsFit, [Next]_vars
    PROVE  /\ \A t \in TopUps : topUp[t] = "PROCESSED" => topUp'[t] = "PROCESSED"
           /\ \A t \in TopUps : charge[t] = "exact" => charge'[t] = "exact"
           /\ \A v \in Vouchers : redeemedBy[v] # Nobody => redeemedBy'[v] = redeemedBy[v]
<1> USE DEF CreditsFit, TypeOK, FundingTypeOK
<1>1. CASE TopUpStep
    BY <1>1 DEF TopUpStep, InitiateTopUp, PayTopUp, ReadTopUp, ClaimTopUp, CreditTopUp,
                CutShort, topUps, vouchers
<1>2. CASE VoucherStep \/ PurchaseStep
    BY <1>2 DEF VoucherStep, PurchaseStep, ReadVoucher, ClaimVoucher,
                VoucherClaimable, CountVoucher, CreditVoucher, Purchase, CutShort,
                topUps, vouchers
<1>3. CASE UNCHANGED fundingVars
    BY <1>3 DEF fundingVars, topUps, vouchers
<1> QED
    BY <1>1, <1>2, <1>3, StepCases DEF vars

(* Writing steps leave the claims alone.                                   *)
LEMMA WritesAreClaimed ==
    ASSUME CreditsFit, [Next]_vars, NEW u \in Users, NEW delta \in Int, NEW cause \in Causes,
           Record(u, delta, cause), Justified(u, cause)
    PROVE  CreditsAreClaimed'
<1> SUFFICES ASSUME NEW w \in Users, NEW i \in DOMAIN ledger'[w]
             PROVE  /\ \A t \in TopUps : ledger'[w][i].cause = TopUpCause(t) =>
                        topUp'[t] = "PROCESSED" /\ By[t] = w /\ charge'[t] = "exact"
                    /\ \A v \in Vouchers :
                        ledger'[w][i].cause = VoucherCause(v) => redeemedBy'[v] = w
    BY DEF CreditsAreClaimed
<1>1. \/ i \in DOMAIN ledger[w] /\ ledger'[w][i] = ledger[w][i]
      \/ w = u /\ ledger'[w][i].cause = cause
    BY RowsAfter DEF CreditsFit, TypeOK
<1>2. w # Nobody
    BY FundingAssumption
<1>3. CASE i \in DOMAIN ledger[w] /\ ledger'[w][i] = ledger[w][i]
    BY <1>2, <1>3, ClaimsStay DEF CreditsFit, CreditsAreClaimed
<1>4. CASE w = u /\ ledger'[w][i].cause = cause
    BY <1>2, <1>4, ClaimsStay DEF Justified
<1> QED
    BY <1>1, <1>3, <1>4

LEMMA ClaimedKept ==
    ASSUME CreditsFit, [Next]_vars
    PROVE  CreditsAreClaimed'
<1>1. CASE UNCHANGED accounts
  <2> SUFFICES ASSUME NEW w \in Users, NEW i \in DOMAIN ledger[w]
               PROVE  /\ \A t \in TopUps : ledger[w][i].cause = TopUpCause(t) =>
                          topUp'[t] = "PROCESSED" /\ By[t] = w /\ charge'[t] = "exact"
                      /\ \A v \in Vouchers :
                          ledger[w][i].cause = VoucherCause(v) => redeemedBy'[v] = w
      BY <1>1 DEF CreditsAreClaimed, accounts
  <2>1. w # Nobody
      BY FundingAssumption
  <2> QED
      BY <2>1, ClaimsStay DEF CreditsFit, CreditsAreClaimed
<1>2. CASE \E causes : Writes(causes)
    BY <1>2, WritesAreClaimed DEF Writes
<1> QED
    BY <1>1, <1>2, LedgerStep

-------------------------------------------------------------------------------
(* The phases: what a step of another kind keeps, then the steps of the    *)
(* kind itself.                                                            *)

TopUpsKept ==
    /\ UNCHANGED topUps
    /\ \A d \in Deliveries : pc'[d] = pc[d] /\ on'[d] = on[d]
    /\ \A t \in TopUps : Recorded(TopUpCause(t))' => Recorded(TopUpCause(t))

LEMMA TopUpPhaseKept ==
    ASSUME TopUpPhase, TopUpsKept
    PROVE  TopUpPhase'
BY DEF TopUpPhase, TopUpsKept, topUps, Busy

VouchersKept ==
    /\ UNCHANGED redeemedBy
    /\ \A r \in Redemptions : pc'[r] = pc[r] /\ on'[r] = on[r]
    /\ \A v \in Vouchers : Recorded(VoucherCause(v))' => Recorded(VoucherCause(v))

LEMMA VoucherPhaseKept ==
    ASSUME VoucherPhase, VouchersKept
    PROVE  VoucherPhase'
BY DEF VoucherPhase, VouchersKept, Busy

PurchasesKept ==
    /\ \A p \in Purchases : pc'[p] = pc[p]
    /\ \A p \in Purchases : Recorded(PurchaseCause(p))' => Recorded(PurchaseCause(p))

LEMMA PurchasePhaseKept ==
    ASSUME PurchasePhase, PurchasesKept
    PROVE  PurchasePhase'
BY DEF PurchasePhase, PurchasesKept

OrdersKept ==
    /\ UNCHANGED rewardVars
    /\ \A o \in Orders : Recorded(CommissionCause(o))' => Recorded(CommissionCause(o))
    /\ Recorded(ReferralCause)' => Recorded(ReferralCause)

LEMMA OrderPhasesKept ==
    ASSUME CommissionPhase, ReferralPhase, OrdersKept
    PROVE  CommissionPhase' /\ ReferralPhase'
BY DEF CommissionPhase, ReferralPhase, OrdersKept, rewardVars, Notices, Of

(* Causes of one kind are not recorded by steps of another.                *)
LEMMA OtherCauses ==
    ASSUME CreditsFit, NEW k \in {"topUp", "voucher", "purchase", "commission", "referral"},
           NEW x, UNCHANGED accounts \/ Writes({<<k, x>>})
    PROVE  /\ k # "topUp" =>
                \A t \in TopUps : Recorded(TopUpCause(t))' => Recorded(TopUpCause(t))
           /\ k # "voucher" =>
                \A v \in Vouchers : Recorded(VoucherCause(v))' => Recorded(VoucherCause(v))
           /\ k # "purchase" =>
                \A p \in Purchases : Recorded(PurchaseCause(p))' => Recorded(PurchaseCause(p))
           /\ k # "commission" =>
                \A o \in Orders : Recorded(CommissionCause(o))' => Recorded(CommissionCause(o))
           /\ k # "referral" => (Recorded(ReferralCause)' => Recorded(ReferralCause))
<1>1. \A c : Recorded(c)' => Recorded(c) \/ c = <<k, x>>
    BY WriteKeeps, NoWriteKeeps
<1>2. /\ k # "topUp" => \A t \in TopUps : TopUpCause(t) # <<k, x>>
      /\ k # "voucher" => \A v \in Vouchers : VoucherCause(v) # <<k, x>>
      /\ k # "purchase" => \A p \in Purchases : PurchaseCause(p) # <<k, x>>
      /\ k # "commission" => \A o \in Orders : CommissionCause(o) # <<k, x>>
      /\ k # "referral" => ReferralCause # <<k, x>>
    BY DEF TopUpCause, VoucherCause, PurchaseCause, CommissionCause, ReferralCause
<1> QED
    BY <1>1, <1>2

(* A call's step moves no other call.                                      *)
LEMMA OneCallMoves ==
    ASSUME FundingTypeOK, NEW c \in Calls, NEW step, Goto(c, step),
           \/ UNCHANGED on
           \/ \E x : on' = [on EXCEPT ![c] = x]
    PROVE  \A e \in Calls : e # c => pc'[e] = pc[e] /\ on'[e] = on[e]
BY DEF FundingTypeOK, Goto

LEMMA TopUpStepKeeps ==
    ASSUME CreditsFit, TopUpStep, UNCHANGED rewardVars
    PROVE  VouchersKept /\ PurchasesKept /\ OrdersKept
<1>1. \E x : UNCHANGED accounts \/ Writes({<<"topUp", x>>})
    BY TopUpWrites
       DEF TopUpStep, InitiateTopUp, PayTopUp, ReadTopUp, ClaimTopUp, CutShort, TopUpCause
<1>2. UNCHANGED vouchers
    BY DEF TopUpStep, InitiateTopUp, PayTopUp, ReadTopUp, ClaimTopUp, CreditTopUp, CutShort
<1>3. \A c \in Redemptions \cup Purchases : pc'[c] = pc[c] /\ on'[c] = on[c]
  <2>1. CASE UNCHANGED calls
      BY <2>1 DEF calls
  <2>2. ASSUME NEW d \in Deliveries, NEW step, Goto(d, step),
               UNCHANGED on \/ \E x : on' = [on EXCEPT ![d] = x]
        PROVE  \A c \in Redemptions \cup Purchases : pc'[c] = pc[c] /\ on'[c] = on[c]
      BY <2>2, OneCallMoves, FundingAssumption DEF Calls, CreditsFit, TypeOK
  <2> QED
      BY <2>1, <2>2
         DEF TopUpStep, InitiateTopUp, PayTopUp, ReadTopUp, ClaimTopUp, CreditTopUp, CutShort
<1> QED
    BY <1>1, <1>2, <1>3, OtherCauses DEF VouchersKept, PurchasesKept, OrdersKept, vouchers

LEMMA VoucherStepKeeps ==
    ASSUME CreditsFit, VoucherStep, UNCHANGED rewardVars
    PROVE  TopUpsKept /\ PurchasesKept /\ OrdersKept
<1>1. \E x : UNCHANGED accounts \/ Writes({<<"voucher", x>>})
    BY VoucherWrites
       DEF VoucherStep, ReadVoucher, ClaimVoucher, CountVoucher, CutShort, VoucherCause
<1>2. UNCHANGED topUps
    BY DEF VoucherStep, ReadVoucher, ClaimVoucher, CountVoucher, CreditVoucher, CutShort
<1>3. \A c \in Deliveries \cup Purchases : pc'[c] = pc[c] /\ on'[c] = on[c]
  <2>1. CASE UNCHANGED calls
      BY <2>1 DEF calls
  <2>2. ASSUME NEW r \in Redemptions, NEW step, Goto(r, step),
               UNCHANGED on \/ \E x : on' = [on EXCEPT ![r] = x]
        PROVE  \A c \in Deliveries \cup Purchases : pc'[c] = pc[c] /\ on'[c] = on[c]
      BY <2>2, OneCallMoves, FundingAssumption DEF Calls, CreditsFit, TypeOK
  <2> QED
      BY <2>1, <2>2
         DEF VoucherStep, ReadVoucher, ClaimVoucher, CountVoucher, CreditVoucher, CutShort
<1> QED
    BY <1>1, <1>2, <1>3, OtherCauses DEF TopUpsKept, PurchasesKept, OrdersKept

LEMMA PurchaseStepKeeps ==
    ASSUME CreditsFit, PurchaseStep, UNCHANGED rewardVars
    PROVE  TopUpsKept /\ VouchersKept /\ OrdersKept
<1>1. \E x : UNCHANGED accounts \/ Writes({<<"purchase", x>>})
    BY PurchaseWrites DEF PurchaseStep, CutShort, PurchaseCause
<1>2. UNCHANGED <<topUps, vouchers>>
    BY DEF PurchaseStep, Purchase, CutShort
<1>3. \A c \in Deliveries \cup Redemptions : pc'[c] = pc[c] /\ on'[c] = on[c]
  <2>1. ASSUME NEW p \in Purchases, NEW step, Goto(p, step), UNCHANGED on
        PROVE  \A c \in Deliveries \cup Redemptions : pc'[c] = pc[c] /\ on'[c] = on[c]
      BY <2>1, OneCallMoves, FundingAssumption DEF Calls, CreditsFit, TypeOK
  <2> QED
      BY <2>1 DEF PurchaseStep, Purchase, CutShort
<1> QED
    BY <1>1, <1>2, <1>3, OtherCauses DEF TopUpsKept, VouchersKept, OrdersKept, vouchers

LEMMA OrderStepKeeps ==
    ASSUME CreditsFit, OrderStep, UNCHANGED fundingVars
    PROVE  TopUpsKept /\ VouchersKept /\ PurchasesKept
<1>1. \E x : \/ UNCHANGED accounts
             \/ Writes({<<"commission", x>>}) \/ Writes({<<"referral", x>>})
    BY ReferralWrites, AgentWrites
       DEF OrderStep, RewardStep, Notify, Issue, ReadReferral, ClaimReferral,
           ReferralThrows, EarnPoints, NoticeCutShort, ReferralCause, CommissionCause
<1> QED
    BY <1>1, OtherCauses
       DEF TopUpsKept, VouchersKept, PurchasesKept, fundingVars, topUps, vouchers, calls

-------------------------------------------------------------------------------
(* Top-ups.                                                                *)

LEMMA TopUpPhaseStep ==
    ASSUME CreditsFit, TopUpStep
    PROVE  TopUpPhase'
<1> USE FundingAssumption DEF CreditsFit, TypeOK, FundingTypeOK, TopUpPhase, Goto, Calls, Busy
<1>1. ASSUME NEW t \in TopUps, InitiateTopUp(t) \/ PayTopUp(t)
      PROVE  TopUpPhase'
  <2>1. UNCHANGED <<accounts, calls>>
      BY <1>1 DEF InitiateTopUp, PayTopUp
  <2>2. \A c : Recorded(c)' => Recorded(c)
      BY <2>1, NoWriteKeeps
  <2>3. /\ \A s \in TopUps : topUp[s] = "PROCESSED" => topUp'[s] = "PROCESSED"
        /\ \A s \in TopUps : charge[s] = "exact" => charge'[s] = "exact"
      BY <1>1 DEF InitiateTopUp, PayTopUp
  <2> QED
      BY <2>1, <2>2, <2>3 DEF calls
<1>2. ASSUME NEW d \in Deliveries, NEW t \in TopUps, ReadTopUp(d, t)
      PROVE  TopUpPhase'
  <2>1. \A c : Recorded(c)' => Recorded(c)
      BY <1>2, NoWriteKeeps DEF ReadTopUp
  <2>2. /\ pc' = [pc EXCEPT ![d] =
                    IF topUp[t] = "PENDING" /\ charge[t] = "exact" THEN "claim" ELSE "done"]
        /\ on' = [on EXCEPT ![d] = t] /\ UNCHANGED topUps
      BY <1>2 DEF ReadTopUp
  <2> QED
      BY <2>1, <2>2 DEF topUps
<1>3. ASSUME NEW d \in Deliveries, ClaimTopUp(d)
      PROVE  TopUpPhase'
  <2>1. \A c : Recorded(c)' => Recorded(c)
      BY <1>3, NoWriteKeeps DEF ClaimTopUp
  <2>2. on[d] \in TopUps /\ charge[on[d]] = "exact" /\ UNCHANGED <<charge, on>>
      BY <1>3 DEF ClaimTopUp
  <2>3. CASE topUp[on[d]] = "PENDING"
    <3>1. /\ topUp' = [topUp EXCEPT ![on[d]] = "PROCESSED"]
          /\ pc' = [pc EXCEPT ![d] = "credit"]
        BY <1>3, <2>3 DEF ClaimTopUp, TopUpClaimable
    <3>2. ~Recorded(TopUpCause(on[d]))
        BY <2>2, <2>3
    <3>3. \A e \in Deliveries : pc[e] = "credit" => on[e] # on[d]
        BY <2>3
    <3> QED
        BY <2>1, <2>2, <3>1, <3>2, <3>3
  <2>4. CASE topUp[on[d]] # "PENDING"
    <3>1. UNCHANGED topUp /\ pc' = [pc EXCEPT ![d] = "done"]
        BY <1>3, <2>4 DEF ClaimTopUp, TopUpClaimable
    <3> QED
        BY <2>1, <2>2, <3>1
  <2> QED
      BY <2>3, <2>4
<1>4. ASSUME NEW d \in Deliveries, CreditTopUp(d)
      PROVE  TopUpPhase'
  <2>1. \A c : Recorded(c)' => Recorded(c) \/ c = TopUpCause(on[d])
      BY <1>4, TopUpRecords
  <2>2. pc[d] = "credit" /\ pc' = [pc EXCEPT ![d] = "done"] /\ UNCHANGED <<topUps, on>>
      BY <1>4 DEF CreditTopUp
  <2>3. \A s \in TopUps : TopUpCause(s) = TopUpCause(on[d]) => s = on[d]
      BY CauseKinds
  <2> QED
      BY <2>1, <2>2, <2>3 DEF topUps
<1>5. ASSUME NEW d \in Deliveries, CutShort(d)
      PROVE  TopUpPhase'
  <2>1. \A c : Recorded(c)' => Recorded(c)
      BY <1>5, NoWriteKeeps DEF CutShort
  <2> QED
      BY <1>5, <2>1 DEF CutShort, topUps
<1> QED
    BY <1>1, <1>2, <1>3, <1>4, <1>5 DEF TopUpStep

-------------------------------------------------------------------------------
(* Vouchers.                                                               *)

LEMMA VoucherPhaseStep ==
    ASSUME CreditsFit, VoucherStep
    PROVE  VoucherPhase'
<1> USE FundingAssumption DEF CreditsFit, TypeOK, FundingTypeOK, VoucherPhase, Goto, Calls, Busy
<1>1. ASSUME NEW r \in Redemptions, NEW v \in Vouchers, ReadVoucher(r, v)
      PROVE  VoucherPhase'
  <2>1. \A c : Recorded(c)' => Recorded(c)
      BY <1>1, NoWriteKeeps DEF ReadVoucher
  <2>2. /\ pc' = [pc EXCEPT ![r] = "claim"] /\ on' = [on EXCEPT ![r] = v]
        /\ UNCHANGED redeemedBy
      BY <1>1 DEF ReadVoucher, vouchers
  <2> QED
      BY <2>1, <2>2
<1>2. ASSUME NEW r \in Redemptions, ClaimVoucher(r)
      PROVE  VoucherPhase'
  <2>1. \A c : Recorded(c)' => Recorded(c)
      BY <1>2, NoWriteKeeps DEF ClaimVoucher
  <2>2. on[r] \in Vouchers /\ UNCHANGED on
      BY <1>2 DEF ClaimVoucher
  <2>3. CASE redeemedBy[on[r]] = Nobody
    <3>1. /\ redeemedBy' = [redeemedBy EXCEPT ![on[r]] = By[r]]
          /\ pc' = [pc EXCEPT ![r] = "count"]
        BY <1>2, <2>3 DEF ClaimVoucher, VoucherClaimable
    <3>2. ~Recorded(VoucherCause(on[r])) /\ By[r] \in Users /\ By[r] # Nobody
        BY <2>2, <2>3
    <3>3. \A q \in Redemptions : pc[q] \in {"count", "credit"} => on[q] # on[r]
      <4>1. \A q \in Redemptions : By[q] # Nobody
          OBVIOUS
      <4> QED
          BY <2>3, <4>1
    <3> QED
        BY <2>1, <2>2, <3>1, <3>2, <3>3
  <2>4. CASE redeemedBy[on[r]] # Nobody
    <3>1. UNCHANGED redeemedBy /\ pc' = [pc EXCEPT ![r] = "done"]
        BY <1>2, <2>4 DEF ClaimVoucher, VoucherClaimable
    <3> QED
        BY <2>1, <2>2, <3>1
  <2> QED
      BY <2>3, <2>4
<1>3. ASSUME NEW r \in Redemptions, CountVoucher(r)
      PROVE  VoucherPhase'
  <2>1. \A c : Recorded(c)' => Recorded(c)
      BY <1>3, NoWriteKeeps DEF CountVoucher
  <2> QED
      BY <1>3, <2>1 DEF CountVoucher
<1>4. ASSUME NEW r \in Redemptions, CreditVoucher(r)
      PROVE  VoucherPhase'
  <2>1. \A c : Recorded(c)' => Recorded(c) \/ c = VoucherCause(on[r])
      BY <1>4, VoucherRecords
  <2>2. /\ pc[r] = "credit" /\ pc' = [pc EXCEPT ![r] = "done"]
        /\ redeemedBy' = redeemedBy /\ on' = on
      BY <1>4 DEF CreditVoucher, vouchers
  <2>3. \A v \in Vouchers : VoucherCause(v) = VoucherCause(on[r]) => v = on[r]
      BY CauseKinds
  <2>4. on[r] \in Vouchers /\ redeemedBy[on[r]] # Nobody
      BY <2>2
  <2> QED
      BY <2>1, <2>2, <2>3, <2>4
<1>5. ASSUME NEW r \in Redemptions, CutShort(r)
      PROVE  VoucherPhase'
  <2>1. \A c : Recorded(c)' => Recorded(c)
      BY <1>5, NoWriteKeeps DEF CutShort
  <2> QED
      BY <1>5, <2>1 DEF CutShort, vouchers
<1> QED
    BY <1>1, <1>2, <1>3, <1>4, <1>5 DEF VoucherStep

LEMMA PurchasePhaseStep ==
    ASSUME CreditsFit, PurchaseStep
    PROVE  PurchasePhase'
<1> USE FundingAssumption DEF CreditsFit, TypeOK, FundingTypeOK, PurchasePhase, Goto, Calls, Busy
<1>1. ASSUME NEW p \in Purchases, Purchase(p)
      PROVE  PurchasePhase'
  <2>1. \A c : Recorded(c)' => Recorded(c) \/ c = PurchaseCause(p)
      BY <1>1, PurchaseRecords
  <2>2. pc' = [pc EXCEPT ![p] = "done"]
      BY <1>1 DEF Purchase
  <2>3. \A q \in Purchases : PurchaseCause(q) = PurchaseCause(p) => q = p
      BY CauseKinds
  <2> QED
      BY <2>1, <2>2, <2>3
<1>2. ASSUME NEW p \in Purchases, CutShort(p)
      PROVE  FALSE
    BY <1>2 DEF CutShort
<1> QED
    BY <1>1, <1>2 DEF PurchaseStep

-------------------------------------------------------------------------------
(* Rewards.                                                                *)

LEMMA OrderPhasesStep ==
    ASSUME CreditsFit, OrderStep
    PROVE  CommissionPhase' /\ ReferralPhase'
<1> USE DEF CreditsFit, TypeOK, RewardsTypeOK, CommissionPhase, ReferralPhase, To, AfterIssue,
            Stages, FirstReward
<1>1. \A n \in Notices : Of(n) \in Orders
    BY DEF Notices, Of
<1>2. ASSUME NEW n \in Notices,
             Notify(n) \/ ReadReferral(n) \/ ReferralThrows(n) \/ EarnPoints(n) \/ NoticeCutShort(n)
      PROVE  CommissionPhase' /\ ReferralPhase'
  <2>1. \A c : Recorded(c)' => Recorded(c)
      BY <1>2, NoWriteKeeps
         DEF Notify, ReadReferral, ReferralThrows, EarnPoints, NoticeCutShort
  <2>2. /\ UNCHANGED <<orderStatus, referral>>
        /\ \E s \in {"issue", "claimReferral", "loyalty", "commission", "dead"} :
            /\ stage' = [stage EXCEPT ![n] = s]
            /\ s \in AfterIssue => stage[n] \in AfterIssue
      BY <1>2 DEF Notify, ReadReferral, ReferralThrows, EarnPoints, NoticeCutShort
  <2> QED
      BY <1>1, <2>1, <2>2
<1>3. ASSUME NEW n \in Notices, Issue(n)
      PROVE  CommissionPhase' /\ ReferralPhase'
  <2>1. \A c : Recorded(c)' => Recorded(c)
      BY <1>3, NoWriteKeeps DEF Issue
  <2>2. CASE orderStatus[Of(n)] = "PENDING"
    <3>1. /\ orderStatus' = [orderStatus EXCEPT ![Of(n)] = "PAID"] /\ UNCHANGED referral
          /\ \E s \in {"commission", "referral"} : stage' = [stage EXCEPT ![n] = s]
        BY <1>3, <2>2 DEF Issue
    <3>2. /\ ~Recorded(CommissionCause(Of(n)))
          /\ \A m \in Notices : stage[m] \in AfterIssue => Of(m) # Of(n)
        BY <1>1, <2>2
    <3> QED
        BY <1>1, <2>1, <3>1, <3>2
  <2>3. CASE orderStatus[Of(n)] # "PENDING"
    <3>1. UNCHANGED <<orderStatus, referral>> /\ stage' = [stage EXCEPT ![n] = "done"]
        BY <1>3, <2>3 DEF Issue
    <3> QED
        BY <1>1, <2>1, <3>1
  <2> QED
      BY <2>2, <2>3
<1>4. ASSUME NEW n \in Notices, ClaimReferral(n)
      PROVE  CommissionPhase' /\ ReferralPhase'
  <2>1. \A c : Recorded(c)' => Recorded(c)
      BY <1>4, NoWriteKeeps DEF ClaimReferral
  <2>2. stage[n] = "claimReferral" /\ UNCHANGED orderStatus
      BY <1>4 DEF ClaimReferral
  <2>3. CASE referral = "PENDING"
    <3>1. referral' = "REWARDED" /\ stage' = [stage EXCEPT ![n] = "creditReferral"]
        BY <1>4, <2>3 DEF ClaimReferral, ReferralClaimable
    <3>2. ~Recorded(ReferralCause) /\ \A m \in Notices : stage[m] # "creditReferral"
        BY <2>3
    <3> QED
        BY <1>1, <2>1, <2>2, <3>1, <3>2
  <2>4. CASE referral # "PENDING"
    <3>1. UNCHANGED referral /\ stage' = [stage EXCEPT ![n] = "loyalty"]
        BY <1>4, <2>4 DEF ClaimReferral, ReferralClaimable
    <3> QED
        BY <1>1, <2>1, <2>2, <3>1
  <2> QED
      BY <2>3, <2>4
<1>5. ASSUME NEW n \in Notices, CreditReferral(n)
      PROVE  CommissionPhase' /\ ReferralPhase'
  <2>1. \A c : Recorded(c)' => Recorded(c) \/ c = ReferralCause
      BY <1>5, ReferralRecords
  <2>2. /\ stage[n] = "creditReferral" /\ stage' = [stage EXCEPT ![n] = "loyalty"]
        /\ UNCHANGED <<orderStatus, referral>>
      BY <1>5 DEF CreditReferral
  <2>3. \A o \in Orders : Recorded(CommissionCause(o))' => Recorded(CommissionCause(o))
      BY <2>1, CauseKinds
  <2> QED
      BY <1>1, <2>1, <2>2, <2>3
<1>6. ASSUME NEW n \in Notices, PayAgent(n)
      PROVE  CommissionPhase' /\ ReferralPhase'
  <2>1. \A c : Recorded(c)' => Recorded(c) \/ c = CommissionCause(Of(n))
      BY <1>6, AgentRecords
  <2>2. /\ stage[n] = "commission" /\ stage' = [stage EXCEPT ![n] = "done"]
        /\ UNCHANGED <<orderStatus, referral>>
      BY <1>6 DEF PayAgent
  <2>3. /\ Recorded(ReferralCause)' => Recorded(ReferralCause)
        /\ \A o \in Orders : Recorded(CommissionCause(o))' =>
            Recorded(CommissionCause(o)) \/ o = Of(n)
      BY <2>1, CauseKinds
  <2> QED
      BY <1>1, <2>2, <2>3
<1> QED
    BY <1>2, <1>3, <1>4, <1>5, <1>6 DEF OrderStep, RewardStep

-------------------------------------------------------------------------------
LEMMA EmptyLedger ==
    ASSUME \A u \in Users : ledger[u] = <<>> /\ balance[u] = 0
    PROVE  LedgerExact
<1>1. Len(<<>>) = 0 /\ 1 .. 0 = {} /\ 0 + 1 = 1
    OBVIOUS
<1>2. ASSUME NEW u \in Users
      PROVE  LET rows == ledger[u]
                 Before(i) == IF i = 1 THEN 0 ELSE rows[i - 1].after
             IN  /\ \A i \in 1 .. Len(rows) :
                     /\ rows[i].after = Before(i) + rows[i].delta
                     /\ rows[i].after >= 0
                 /\ balance[u] = Before(Len(rows) + 1)
  <2>1. Len(ledger[u]) = 0 /\ balance[u] = 0
      BY <1>1
  <2> QED
      BY <1>1, <2>1
<1> QED
    BY <1>2, Zenon DEF LedgerExact

LEMMA InitCreditsFit == Init => CreditsFit
<1> SUFFICES ASSUME Init
             PROVE  CreditsFit
    OBVIOUS
<1> USE FundingAssumption, RewardsAssumption DEF Init, LedgerInit, FundingInit, RewardsInit
<1>1. \A u \in Users : ledger[u] = <<>> /\ balance[u] = 0
    OBVIOUS
<1>2. \A c : ~Recorded(c)
    BY <1>1 DEF Recorded
<1>3. LedgerTypeOK
  <2>1. <<>> \in Seq(Rows) /\ 0 \in Int
      OBVIOUS
  <2>2. balance = [u \in Users |-> 0] /\ ledger = [u \in Users |-> <<>>]
      OBVIOUS
  <2> QED
      BY <2>1, <2>2, Zenon DEF LedgerTypeOK
<1>4. FundingTypeOK
    BY DEF FundingTypeOK, Busy, Calls
<1>5. RewardsTypeOK
    BY DEF RewardsTypeOK, Stages, AfterIssue, Notices
<1>6. LedgerExact
    BY <1>1, EmptyLedger
<1>7. OncePerCause
    BY <1>1 DEF OncePerCause
<1>8. CreditsAreClaimed
    BY <1>1 DEF CreditsAreClaimed
<1>9. TopUpPhase /\ VoucherPhase /\ PurchasePhase
    BY <1>2 DEF TopUpPhase, VoucherPhase, PurchasePhase, Busy, Calls
<1>10. CommissionPhase /\ ReferralPhase
    BY <1>2 DEF CommissionPhase, ReferralPhase, AfterIssue
<1> QED
    BY <1>3, <1>4, <1>5, <1>6, <1>7, <1>8, <1>9, <1>10 DEF CreditsFit, TypeOK

LEMMA TypeStep ==
    ASSUME CreditsFit, [Next]_vars
    PROVE  TypeOK'
<1> USE DEF CreditsFit, TypeOK
<1>1. LedgerTypeOK'
    BY LedgerKept
<1>2. CASE (TopUpStep \/ VoucherStep \/ PurchaseStep) /\ UNCHANGED rewardVars
  <2>1. FundingTypeOK'
      BY <1>2, TopUpTypes, VoucherTypes
  <2>2. RewardsTypeOK'
      BY <1>2, <2>1 DEF RewardsTypeOK, FundingTypeOK, rewardVars
  <2> QED
      BY <1>1, <2>1, <2>2
<1>3. CASE OrderStep /\ UNCHANGED fundingVars
  <2>1. RewardsTypeOK'
      BY <1>3, OrderTypes
  <2>2. FundingTypeOK'
      BY <1>3, <2>1 DEF RewardsTypeOK, FundingTypeOK, fundingVars, topUps, vouchers, calls
  <2> QED
      BY <1>1, <2>1, <2>2
<1>4. CASE UNCHANGED vars
    BY <1>1, <1>4
       DEF vars, fundingVars, rewardVars, topUps, vouchers, calls, FundingTypeOK, RewardsTypeOK
<1> QED
    BY <1>2, <1>3, <1>4, StepCases

(* A stuttering step keeps every phase.                                    *)
LEMMA Stutter ==
    ASSUME UNCHANGED vars
    PROVE  TopUpsKept /\ VouchersKept /\ PurchasesKept /\ OrdersKept
BY NoWriteKeeps
   DEF vars, fundingVars, topUps, vouchers, calls, TopUpsKept, VouchersKept, PurchasesKept, OrdersKept

LEMMA PhaseStep ==
    ASSUME CreditsFit, [Next]_vars
    PROVE  /\ TopUpPhase' /\ VoucherPhase' /\ PurchasePhase'
           /\ CommissionPhase' /\ ReferralPhase'
<1>1. TopUpPhase /\ VoucherPhase /\ PurchasePhase /\ CommissionPhase /\ ReferralPhase
    BY DEF CreditsFit
<1>2. CASE TopUpStep /\ UNCHANGED rewardVars
    BY <1>1, <1>2, TopUpPhaseStep, TopUpStepKeeps, VoucherPhaseKept, PurchasePhaseKept,
       OrderPhasesKept
<1>3. CASE VoucherStep /\ UNCHANGED rewardVars
    BY <1>1, <1>3, VoucherPhaseStep, VoucherStepKeeps, TopUpPhaseKept, PurchasePhaseKept,
       OrderPhasesKept
<1>4. CASE PurchaseStep /\ UNCHANGED rewardVars
    BY <1>1, <1>4, PurchasePhaseStep, PurchaseStepKeeps, TopUpPhaseKept, VoucherPhaseKept,
       OrderPhasesKept
<1>5. CASE OrderStep /\ UNCHANGED fundingVars
    BY <1>1, <1>5, OrderPhasesStep, OrderStepKeeps, TopUpPhaseKept, VoucherPhaseKept,
       PurchasePhaseKept
<1>6. CASE UNCHANGED vars
    BY <1>1, <1>6, Stutter, TopUpPhaseKept, VoucherPhaseKept, PurchasePhaseKept, OrderPhasesKept
<1> QED
    BY <1>2, <1>3, <1>4, <1>5, <1>6, StepCases

-------------------------------------------------------------------------------
(* What is owed as long as nothing fails.                                  *)

LEMMA CreditsFitStep ==
    ASSUME CreditsFit, [Next]_vars
    PROVE  CreditsFit'
BY TypeStep, LedgerKept, ClaimedKept, PhaseStep DEF CreditsFit

LEMMA WriteRecords ==
    ASSUME CreditsFit, NEW causes, Writes(causes)
    PROVE  /\ \E c \in causes : Recorded(c)'
           /\ \A c : Recorded(c) => Recorded(c)'
<1>1. PICK u \in Users, delta \in Int, cause \in causes \cap Causes : Record(u, delta, cause)
    BY DEF Writes
<1>2. \A c : Recorded(c)' <=> (Recorded(c) \/ c = cause)
    BY <1>1, RecordCauses DEF CreditsFit, TypeOK
<1> QED
    BY <1>2

(* No row of the ledger goes away.                                         *)
LEMMA RecordsStay ==
    ASSUME CreditsFit, [Next]_vars
    PROVE  \A c : Recorded(c) => Recorded(c)'
<1>1. UNCHANGED accounts => \A c : Recorded(c) => Recorded(c)'
    BY DEF accounts, Recorded
<1> QED
    BY <1>1, LedgerStep, WriteRecords

(* Nothing makes up for a failure.                                         *)
LEMMA FailuresStay ==
    ASSUME TypeOK, [Next]_vars, failures' = 0
    PROVE  failures = 0
<1>1. failures \in Nat
    BY RewardsAssumption DEF TypeOK, FundingTypeOK
<1>2. failures' = failures \/ failures' = failures + 1
    BY DEF Next, Start, Continue, vars, InitiateTopUp, PayTopUp, ReadTopUp, ClaimTopUp,
           CreditTopUp, ReadVoucher, ClaimVoucher, CountVoucher, CreditVoucher, Purchase,
           CutShort, Notify, RewardStep, Issue, ReadReferral, ClaimReferral, CreditReferral,
           ReferralThrows, EarnPoints, PayAgent, NoticeCutShort
<1> QED
    BY <1>1, <1>2

LEMMA TopUpsOwedKept ==
    ASSUME CreditsFit, TopUpsUnderWay, [Next]_vars, TopUpsKept
    PROVE  TopUpsUnderWay'
<1>1. \A c : Recorded(c) => Recorded(c)'
    BY RecordsStay
<1>2. failures' = 0 => failures = 0
    BY FailuresStay DEF CreditsFit
<1> QED
    BY <1>1, <1>2 DEF TopUpsUnderWay, TopUpsKept, topUps

LEMMA TopUpsOwedStep ==
    ASSUME CreditsFit, TopUpsUnderWay, TopUpStep, [Next]_vars
    PROVE  TopUpsUnderWay'
<1>0. TypeOK
    BY DEF CreditsFit
<1> USE <1>0, FundingAssumption DEF TypeOK, FundingTypeOK, Goto, Calls
<1>1. \A c : Recorded(c) => Recorded(c)'
    BY RecordsStay
<1>2. SUFFICES ASSUME failures' = 0
               PROVE  TopUpsUnderWay'
    BY DEF TopUpsUnderWay
<1>3. \A t \in TopUps : topUp[t] = "PROCESSED" =>
        Recorded(TopUpCause(t)) \/ \E d \in Deliveries : pc[d] = "credit" /\ on[d] = t
    BY <1>2, FailuresStay DEF TopUpsUnderWay
<1>4. ASSUME NEW t \in TopUps, InitiateTopUp(t) \/ PayTopUp(t)
      PROVE  TopUpsUnderWay'
  <2>1. UNCHANGED calls /\ \A s \in TopUps : topUp'[s] = "PROCESSED" => topUp[s] = "PROCESSED"
      BY <1>4 DEF InitiateTopUp, PayTopUp
  <2> QED
      BY <1>1, <1>3, <2>1 DEF TopUpsUnderWay, calls
<1>5. ASSUME NEW d \in Deliveries, NEW t \in TopUps, ReadTopUp(d, t)
      PROVE  TopUpsUnderWay'
  <2>1. /\ pc[d] = "idle" /\ UNCHANGED topUp
        /\ \A e \in Deliveries \ {d} : pc'[e] = pc[e] /\ on'[e] = on[e]
      BY <1>5 DEF ReadTopUp, topUps
  <2> QED
      BY <1>1, <1>3, <2>1 DEF TopUpsUnderWay
<1>6. ASSUME NEW d \in Deliveries, ClaimTopUp(d)
      PROVE  TopUpsUnderWay'
  <2>1. /\ on[d] \in TopUps /\ pc[d] = "claim" /\ UNCHANGED on
        /\ \A e \in Deliveries \ {d} : pc'[e] = pc[e]
      BY <1>6 DEF ClaimTopUp, CreditsFit, TopUpPhase, Busy
  <2>2. CASE TopUpClaimable(on[d])
    <3>1. pc'[d] = "credit" /\ topUp' = [topUp EXCEPT ![on[d]] = "PROCESSED"]
        BY <1>6, <2>2 DEF ClaimTopUp
    <3> QED
        BY <1>1, <1>3, <2>1, <3>1 DEF TopUpsUnderWay
  <2>3. CASE ~TopUpClaimable(on[d])
      BY <1>1, <1>3, <1>6, <2>1, <2>3 DEF ClaimTopUp, TopUpsUnderWay
  <2> QED
      BY <2>2, <2>3
<1>7. ASSUME NEW d \in Deliveries, CreditTopUp(d)
      PROVE  TopUpsUnderWay'
  <2>0. Writes({TopUpCause(on[d])})
      BY <1>7, TopUpWrites
  <2>1. \E c \in {TopUpCause(on[d])} : Recorded(c)'
      BY <2>0, WriteRecords
  <2>2. UNCHANGED <<topUp, on>> /\ \A e \in Deliveries \ {d} : pc'[e] = pc[e]
      BY <1>7 DEF CreditTopUp, topUps
  <2> QED
      BY <1>1, <1>3, <2>1, <2>2 DEF TopUpsUnderWay
<1>8. ASSUME NEW d \in Deliveries, CutShort(d)
      PROVE  FALSE
    BY <1>2, <1>8 DEF CutShort
<1> QED
    BY <1>4, <1>5, <1>6, <1>7, <1>8 DEF TopUpStep

(* Which vouchers the batch counts.                                        *)
Counted == Redeemed \ AboutToCount

LEMMA CountedIsFinite == IsFiniteSet(Counted) /\ Cardinality(Counted) \in Nat
BY FundingAssumption, FS_Subset, FS_CardinalityType DEF Counted, Redeemed

LEMMA VouchersOwedKept ==
    ASSUME CreditsFit, VouchersUnderWay, VouchersCounted, [Next]_vars, VouchersKept,
           UNCHANGED redeemedCount
    PROVE  VouchersUnderWay' /\ VouchersCounted'
<1>1. \A c : Recorded(c) => Recorded(c)'
    BY RecordsStay
<1>2. failures' = 0 => failures = 0
    BY FailuresStay DEF CreditsFit
<1>3. Redeemed' = Redeemed /\ AboutToCount' = AboutToCount
    BY DEF Redeemed, AboutToCount, VouchersKept
<1>4. VouchersUnderWay'
    BY <1>1, <1>2, <1>3 DEF VouchersUnderWay, VouchersKept
<1>5. VouchersCounted'
    BY <1>2, <1>3 DEF VouchersCounted
<1> QED
    BY <1>4, <1>5

LEMMA VouchersOwedStep ==
    ASSUME CreditsFit, VouchersUnderWay, VouchersCounted, VoucherStep, [Next]_vars
    PROVE  VouchersUnderWay' /\ VouchersCounted'
<1>0. TypeOK
    BY DEF CreditsFit
<1> USE <1>0, FundingAssumption DEF TypeOK, FundingTypeOK, Goto, Calls
<1>1. \A c : Recorded(c) => Recorded(c)'
    BY RecordsStay
<1>2. failures' = 0 => failures = 0
    BY FailuresStay
<1>3. failures = 0 => \A v \in Redeemed :
        Recorded(VoucherCause(v)) \/ \E r \in Redemptions : pc[r] \in {"count", "credit"} /\ on[r] = v
    BY DEF VouchersUnderWay
<1>4. /\ redeemedCount <= Cardinality(Counted)
      /\ failures = 0 => redeemedCount = Cardinality(Counted)
    BY DEF VouchersCounted, Counted
<1>5. ASSUME NEW r \in Redemptions, NEW v \in Vouchers, ReadVoucher(r, v)
      PROVE  VouchersUnderWay' /\ VouchersCounted'
  <2>1. /\ pc[r] = "idle" /\ pc'[r] = "claim" /\ UNCHANGED <<redeemedBy, redeemedCount>>
        /\ \A q \in Redemptions \ {r} : pc'[q] = pc[q] /\ on'[q] = on[q]
      BY <1>5 DEF ReadVoucher, vouchers
  <2>2. Redeemed' = Redeemed /\ AboutToCount' = AboutToCount
      BY <2>1 DEF Redeemed, AboutToCount
  <2>3. VouchersUnderWay'
      BY <1>1, <1>2, <1>3, <2>1, <2>2 DEF VouchersUnderWay
  <2>4. VouchersCounted'
      BY <1>2, <1>4, <2>1, <2>2 DEF VouchersCounted, Counted
  <2> QED
      BY <2>3, <2>4
<1>6. ASSUME NEW r \in Redemptions, ClaimVoucher(r)
      PROVE  VouchersUnderWay' /\ VouchersCounted'
  <2>1. /\ on[r] \in Vouchers /\ pc[r] = "claim" /\ UNCHANGED <<redeemedCount, on>>
        /\ \A q \in Redemptions \ {r} : pc'[q] = pc[q]
      BY <1>6 DEF ClaimVoucher, CreditsFit, VoucherPhase, Busy
  <2>2. CASE VoucherClaimable(on[r])
    <3>1. pc'[r] = "count" /\ redeemedBy' = [redeemedBy EXCEPT ![on[r]] = By[r]]
        BY <1>6, <2>2 DEF ClaimVoucher
    <3>2. By[r] # Nobody /\ redeemedBy[on[r]] = Nobody
        BY <2>2 DEF VoucherClaimable
    <3>3. Redeemed' = Redeemed \cup {on[r]} /\ AboutToCount' = AboutToCount \cup {on[r]}
        BY <2>1, <3>1, <3>2 DEF Redeemed, AboutToCount
    <3>4. on[r] \notin Redeemed
        BY <3>2 DEF Redeemed
    <3>5. Counted' = Counted
        BY <3>3, <3>4 DEF Counted
    <3>6. VouchersUnderWay'
        BY <1>1, <1>2, <1>3, <2>1, <3>1, <3>3 DEF VouchersUnderWay
    <3>7. VouchersCounted'
        BY <1>2, <1>4, <2>1, <3>5 DEF VouchersCounted, Counted
    <3> QED
        BY <3>6, <3>7
  <2>3. CASE ~VoucherClaimable(on[r])
    <3>1. pc'[r] = "done" /\ UNCHANGED redeemedBy
        BY <1>6, <2>3 DEF ClaimVoucher
    <3>2. Redeemed' = Redeemed /\ AboutToCount' = AboutToCount
        BY <2>1, <3>1 DEF Redeemed, AboutToCount
    <3>3. VouchersUnderWay'
        BY <1>1, <1>2, <1>3, <2>1, <3>2 DEF VouchersUnderWay
    <3>4. VouchersCounted'
        BY <1>2, <1>4, <2>1, <3>2 DEF VouchersCounted, Counted
    <3> QED
        BY <3>3, <3>4
  <2> QED
      BY <2>2, <2>3
<1>7. ASSUME NEW r \in Redemptions, CountVoucher(r)
      PROVE  VouchersUnderWay' /\ VouchersCounted'
  <2>1. /\ pc[r] = "count" /\ pc'[r] = "credit" /\ UNCHANGED <<redeemedBy, on>>
        /\ redeemedCount' = redeemedCount + 1
        /\ \A q \in Redemptions \ {r} : pc'[q] = pc[q]
      BY <1>7 DEF CountVoucher
  <2>2. /\ on[r] \in Vouchers /\ redeemedBy[on[r]] # Nobody
        /\ \A q \in Redemptions : pc[q] = "count" /\ on[q] = on[r] => q = r
      BY <2>1 DEF CreditsFit, VoucherPhase, Busy
  <2>3. /\ Redeemed' = Redeemed /\ on[r] \in Redeemed
        /\ AboutToCount' = AboutToCount \ {on[r]} /\ on[r] \in AboutToCount
      BY <2>1, <2>2 DEF Redeemed, AboutToCount
  <2>4. Counted' = Counted \cup {on[r]} /\ on[r] \notin Counted
      BY <2>3 DEF Counted
  <2>5. Cardinality(Counted \cup {on[r]}) = Cardinality(Counted) + 1
      BY <2>4, CountedIsFinite, FS_AddElement
  <2>6. Cardinality(Counted') = Cardinality(Counted) + 1
      BY <2>4, <2>5
  <2>7. VouchersUnderWay'
      BY <1>1, <1>2, <1>3, <2>1, <2>3 DEF VouchersUnderWay
  <2>8. VouchersCounted'
      BY <1>2, <1>4, <2>1, <2>6, CountedIsFinite DEF VouchersCounted, Counted
  <2> QED
      BY <2>7, <2>8
<1>8. ASSUME NEW r \in Redemptions, CreditVoucher(r)
      PROVE  VouchersUnderWay' /\ VouchersCounted'
  <2>0. Writes({VoucherCause(on[r])})
      BY <1>8, VoucherWrites
  <2>1. \E c \in {VoucherCause(on[r])} : Recorded(c)'
      BY <2>0, WriteRecords
  <2>2. /\ pc[r] = "credit" /\ pc'[r] = "done" /\ UNCHANGED <<redeemedBy, redeemedCount, on>>
        /\ \A q \in Redemptions \ {r} : pc'[q] = pc[q]
      BY <1>8 DEF CreditVoucher, vouchers
  <2>3. Redeemed' = Redeemed /\ AboutToCount' = AboutToCount
      BY <2>2 DEF Redeemed, AboutToCount
  <2>4. VouchersUnderWay'
      BY <1>1, <1>2, <1>3, <2>1, <2>2, <2>3 DEF VouchersUnderWay
  <2>5. VouchersCounted'
      BY <1>2, <1>4, <2>2, <2>3 DEF VouchersCounted, Counted
  <2> QED
      BY <2>4, <2>5
<1>9. ASSUME NEW r \in Redemptions, CutShort(r)
      PROVE  VouchersUnderWay' /\ VouchersCounted'
  <2>1. /\ failures' # 0 /\ UNCHANGED <<redeemedBy, redeemedCount, on>> /\ pc'[r] = "dead"
        /\ \A q \in Redemptions \ {r} : pc'[q] = pc[q]
      BY <1>9 DEF CutShort, vouchers
  <2>2. Redeemed' = Redeemed /\ AboutToCount' \in SUBSET AboutToCount
      BY <2>1 DEF Redeemed, AboutToCount
  <2>3. Counted \in SUBSET Counted' /\ Counted' \in SUBSET Redeemed
      BY <2>2 DEF Counted
  <2>4. IsFiniteSet(Counted')
      BY <2>2, <2>3, FS_Subset DEF Redeemed
  <2>5. Cardinality(Counted) <= Cardinality(Counted') /\ Cardinality(Counted') \in Nat
      BY <2>3, <2>4, FS_Subset, FS_CardinalityType
  <2>6. VouchersCounted'
      BY <1>4, <2>1, <2>5, CountedIsFinite DEF VouchersCounted, Counted
  <2> QED
      BY <2>1, <2>6 DEF VouchersUnderWay
<1> QED
    BY <1>5, <1>6, <1>7, <1>8, <1>9 DEF VoucherStep

-------------------------------------------------------------------------------
(* Points.                                                                 *)

LEMMA PointsAreFinite ==
    ASSUME NEW S \in SUBSET Orders
    PROVE  IsFiniteSet(PointsOf(S)) /\ Cardinality(PointsOf(S)) \in Nat
<1> DEFINE Own(o) == {o} \X (1 .. Points[o])
<1>1. \A o \in S : IsFiniteSet(Own(o))
  <2> SUFFICES ASSUME NEW o \in S PROVE IsFiniteSet(Own(o))
      OBVIOUS
  <2>1. IsFiniteSet({o})
      BY FS_Singleton
  <2>2. Points[o] \in Int /\ 1 \in Int
      BY RewardsAssumption
  <2>3. IsFiniteSet(1 .. Points[o])
      BY <2>2, FS_Interval
  <2> QED
      BY <2>1, <2>3, FS_Product
<1>2. IsFiniteSet(S)
    BY RewardsAssumption, FS_Subset
<1> DEFINE Parts == {Own(o) : o \in S}
<1> DEFINE own == [o \in S |-> Own(o)]
<1> HIDE DEF Own
<1>3. IsFiniteSet(Parts)
  <2>1. own \in Surjection(S, Parts)
      BY DEF Surjection
  <2> QED
      BY <1>2, <2>1, FS_Surjection
<1>4. \A T \in Parts : IsFiniteSet(T)
    BY <1>1
<1> HIDE DEF Parts
<1>5. IsFiniteSet(UNION Parts)
    BY <1>3, <1>4, FS_UNION
<1>6. PointsOf(S) = UNION Parts
    BY DEF PointsOf, Parts, Own
<1>7. IsFiniteSet(PointsOf(S))
    BY <1>5, <1>6
<1> QED
    BY <1>7, FS_CardinalityType

LEMMA PointsOfNone == Cardinality(PointsOf({})) = 0
<1>1. PointsOf({}) = {}
    BY DEF PointsOf
<1> QED
    BY <1>1, FS_EmptySet

(* One more order adds its points.                                         *)
LEMMA PointsOfOneMore ==
    ASSUME NEW S \in SUBSET Orders, NEW o \in Orders \ S
    PROVE  Cardinality(PointsOf(S \cup {o})) = Cardinality(PointsOf(S)) + Points[o]
<1> DEFINE own == {o} \X (1 .. Points[o])
           n == Points[o]
<1>1. n \in Nat /\ n \in Int /\ 1 \in Int
    BY RewardsAssumption
<1>2. PointsOf(S \cup {o}) = PointsOf(S) \cup own
    BY DEF PointsOf
<1>3. PointsOf(S) \cap own = {}
    BY DEF PointsOf
<1>4. own = {o} \X (1 .. n)
    OBVIOUS
<1> HIDE DEF n, own
<1>5. IsFiniteSet({o}) /\ Cardinality({o}) = 1
    BY FS_Singleton
<1>6. IsFiniteSet(1 .. n) /\ Cardinality(1 .. n) = IF 1 > n THEN 0 ELSE n - 1 + 1
    BY <1>1, FS_Interval
<1>7. Cardinality(1 .. n) = n
    BY <1>1, <1>6
<1>8. IsFiniteSet({o} \X (1 .. n)) /\ Cardinality({o} \X (1 .. n)) = Cardinality({o}) * Cardinality(1 .. n)
    BY <1>5, <1>6, FS_Product
<1>9. IsFiniteSet(own) /\ Cardinality(own) = n
    BY <1>1, <1>4, <1>5, <1>7, <1>8
<1>10. IsFiniteSet(PointsOf(S)) /\ Cardinality(PointsOf(S)) \in Nat
    BY PointsAreFinite
<1>11. Cardinality(PointsOf(S) \cup own)
        = Cardinality(PointsOf(S)) + Cardinality(own) - Cardinality(PointsOf(S) \cap own)
    BY <1>9, <1>10, FS_Union
<1>12. Cardinality(PointsOf(S) \cap own) = 0
    BY <1>3, FS_EmptySet
<1>13. Cardinality(PointsOf(S \cup {o})) = Cardinality(PointsOf(S)) + n - 0
    BY <1>2, <1>9, <1>11, <1>12, Zenon
<1>14. Cardinality(PointsOf(S \cup {o})) = Cardinality(PointsOf(S)) + n
    BY <1>1, <1>10, <1>13
<1> QED
    BY <1>14 DEF n

-------------------------------------------------------------------------------
(* What paid orders earned, and what they still owe.                       *)

OrdersFit == RewardsAreEarned /\ PointsPhase
OrdersOwe == PointsUnderWay /\ CommissionsUnderWay /\ ReferralUnderWay

LEMMA OrdersFitKept ==
    ASSUME OrdersFit, OrdersKept
    PROVE  OrdersFit'
<1>1. UNCHANGED <<orderStatus, earned, points, referral, referralOrder, stage>>
    BY DEF OrdersKept, rewardVars
<1>2. RewardsAreEarned'
    BY <1>1 DEF OrdersFit, RewardsAreEarned, OrdersKept
<1>3. PointsPhase'
    BY <1>1 DEF OrdersFit, PointsPhase
<1> QED
    BY <1>2, <1>3 DEF OrdersFit

LEMMA OrdersOweKept ==
    ASSUME CreditsFit, OrdersOwe, OrdersKept, [Next]_vars
    PROVE  OrdersOwe'
<1>1. UNCHANGED <<orderStatus, earned, points, referral, referralOrder, stage>>
    BY DEF OrdersKept, rewardVars
<1>2. \A c : Recorded(c) => Recorded(c)'
    BY RecordsStay
<1>3. failures' = 0 => failures = 0
    BY FailuresStay DEF CreditsFit
<1> QED
    BY <1>1, <1>2, <1>3
       DEF OrdersOwe, PointsUnderWay, CommissionsUnderWay, ReferralUnderWay, At

LEMMA OrdersFitStep ==
    ASSUME CreditsFit, OrdersFit, OrderStep
    PROVE  OrdersFit'
<1>0. TypeOK
    BY DEF CreditsFit
<1> USE <1>0, RewardsAssumption DEF TypeOK, RewardsTypeOK, To, AfterIssue, Stages, FirstReward
<1>1. \A n \in Notices : Of(n) \in Orders
    BY DEF Notices, Of
<1>2. RewardsAreEarned /\ PointsPhase
    BY DEF OrdersFit
<1>3. \A n \in Notices : stage[n] \in AfterIssue => orderStatus[Of(n)] = "PAID"
    BY DEF CreditsFit, CommissionPhase
<1>4. ASSUME NEW n \in Notices,
             Notify(n) \/ ReadReferral(n) \/ ReferralThrows(n) \/ NoticeCutShort(n)
      PROVE  OrdersFit'
  <2>1. /\ UNCHANGED <<orderStatus, earned, points, referral, referralOrder>>
        /\ \A m \in Notices \ {n} : stage'[m] = stage[m]
        /\ \/ stage'[n] \notin AfterIssue
           \/ stage[n] \in AfterIssue \ {"commission"}
      BY <1>4 DEF Notify, ReadReferral, ReferralThrows, NoticeCutShort
  <2>2. \A c : Recorded(c)' => Recorded(c)
      BY <1>4, NoWriteKeeps DEF Notify, ReadReferral, ReferralThrows, NoticeCutShort
  <2>3. RewardsAreEarned'
      BY <1>2, <2>1, <2>2 DEF RewardsAreEarned
  <2>4. PointsPhase'
      BY <1>2, <2>1 DEF PointsPhase
  <2> QED
      BY <2>3, <2>4 DEF OrdersFit
<1>5. ASSUME NEW n \in Notices, Issue(n)
      PROVE  OrdersFit'
  <2>1. /\ UNCHANGED <<earned, points, referral, referralOrder>>
        /\ \A m \in Notices \ {n} : stage'[m] = stage[m]
        /\ \A o \in Orders : orderStatus[o] = "PAID" => orderStatus'[o] = "PAID"
      BY <1>5 DEF Issue
  <2>2. \A c : Recorded(c)' => Recorded(c)
      BY <1>5, NoWriteKeeps DEF Issue
  <2>3. stage'[n] \in AfterIssue \ {"commission"} =>
            Of(n) \notin GuestOrders /\ orderStatus[Of(n)] = "PENDING"
      BY <1>5 DEF Issue
  <2>4. RewardsAreEarned'
      BY <1>2, <2>1, <2>2 DEF RewardsAreEarned, BuyerOrders
  <2>5. PointsPhase'
      BY <1>1, <1>2, <2>1, <2>3 DEF PointsPhase, RewardsAreEarned, BuyerOrders
  <2> QED
      BY <2>4, <2>5 DEF OrdersFit
<1>6. ASSUME NEW n \in Notices, ClaimReferral(n)
      PROVE  OrdersFit'
  <2>1. /\ UNCHANGED <<orderStatus, earned, points>> /\ stage[n] = "claimReferral"
        /\ \A m \in Notices \ {n} : stage'[m] = stage[m]
        /\ \/ UNCHANGED <<referral, referralOrder>>
           \/ referral' = "REWARDED" /\ referralOrder' = Of(n)
      BY <1>6 DEF ClaimReferral
  <2>2. \A c : Recorded(c)' => Recorded(c)
      BY <1>6, NoWriteKeeps DEF ClaimReferral
  <2>3. Of(n) \in BuyerOrders /\ Of(n) \notin earned /\ orderStatus[Of(n)] = "PAID"
      BY <1>2, <1>3, <2>1 DEF PointsPhase
  <2>4. RewardsAreEarned'
      BY <1>2, <2>1, <2>2, <2>3 DEF RewardsAreEarned
  <2>5. PointsPhase'
      BY <1>2, <2>1, <2>3 DEF PointsPhase
  <2> QED
      BY <2>4, <2>5 DEF OrdersFit
<1>7. ASSUME NEW n \in Notices, CreditReferral(n)
      PROVE  OrdersFit'
  <2>1. /\ UNCHANGED <<orderStatus, earned, points, referral, referralOrder>>
        /\ stage[n] = "creditReferral" /\ \A m \in Notices \ {n} : stage'[m] = stage[m]
      BY <1>7 DEF CreditReferral
  <2>2. \A c : Recorded(c)' => Recorded(c) \/ c = ReferralCause
      BY <1>7, ReferralRecords
  <2>3. \A o \in Orders : CommissionCause(o) # ReferralCause
      BY CauseKinds
  <2>4. referral = "REWARDED"
      BY <2>1 DEF CreditsFit, ReferralPhase
  <2>5. RewardsAreEarned'
      BY <1>2, <2>1, <2>2, <2>3, <2>4 DEF RewardsAreEarned
  <2>6. PointsPhase'
      BY <1>2, <2>1 DEF PointsPhase
  <2> QED
      BY <2>5, <2>6 DEF OrdersFit
<1>8. ASSUME NEW n \in Notices, EarnPoints(n)
      PROVE  OrdersFit'
  <2>1. /\ UNCHANGED <<orderStatus, referral, referralOrder>> /\ stage[n] = "loyalty"
        /\ stage'[n] = "commission" /\ \A m \in Notices \ {n} : stage'[m] = stage[m]
      BY <1>8 DEF EarnPoints
  <2>2. \A c : Recorded(c)' => Recorded(c)
      BY <1>8, NoWriteKeeps DEF EarnPoints
  <2>3. /\ Of(n) \in BuyerOrders /\ Of(n) \notin earned /\ orderStatus[Of(n)] = "PAID"
        /\ Of(n) \in Orders
      BY <1>1, <1>2, <1>3, <2>1 DEF PointsPhase
  <2>4. earned' = earned \/ earned' = earned \cup {Of(n)}
      BY <1>8 DEF EarnPoints
  <2>5. points' = Cardinality(PointsOf(earned'))
    <3>1. CASE Points[Of(n)] > 0
      <4>1. points' = points + Points[Of(n)] /\ earned' = earned \cup {Of(n)}
          BY <1>8, <3>1 DEF EarnPoints
      <4>2. Cardinality(PointsOf(earned \cup {Of(n)}))
              = Cardinality(PointsOf(earned)) + Points[Of(n)]
          BY <2>3, PointsOfOneMore
      <4>3. points = Cardinality(PointsOf(earned))
          BY <1>2 DEF RewardsAreEarned
      <4> QED
          BY <4>1, <4>2, <4>3
    <3>2. CASE ~(Points[Of(n)] > 0)
        BY <1>2, <1>8, <3>2 DEF EarnPoints, RewardsAreEarned
    <3> QED
        BY <3>1, <3>2
  <2>6. RewardsAreEarned'
      BY <1>2, <2>1, <2>2, <2>3, <2>4, <2>5 DEF RewardsAreEarned
  <2>7. \A m \in Notices \ {n} : stage[m] \in AfterIssue => Of(m) # Of(n)
      BY <2>1 DEF CreditsFit, CommissionPhase
  <2>8. PointsPhase'
      BY <1>2, <2>1, <2>4, <2>7 DEF PointsPhase
  <2> QED
      BY <2>6, <2>8 DEF OrdersFit
<1>9. ASSUME NEW n \in Notices, PayAgent(n)
      PROVE  OrdersFit'
  <2>1. /\ UNCHANGED <<orderStatus, earned, points, referral, referralOrder>>
        /\ stage[n] = "commission" /\ stage'[n] = "done"
        /\ \A m \in Notices \ {n} : stage'[m] = stage[m]
      BY <1>9 DEF PayAgent
  <2>2. \A c : Recorded(c)' => Recorded(c) \/ c = CommissionCause(Of(n))
      BY <1>9, AgentRecords
  <2>3. Of(n) \notin AgentOrders => \A c : Recorded(c)' => Recorded(c)
      BY <1>9, NoWriteKeeps DEF PayAgent
  <2>4. orderStatus[Of(n)] = "PAID"
      BY <1>3, <2>1
  <2>5. /\ \A o \in Orders : CommissionCause(o) = CommissionCause(Of(n)) => o = Of(n)
        /\ CommissionCause(Of(n)) # ReferralCause
      BY CauseKinds
  <2>6. RewardsAreEarned'
      BY <1>2, <2>1, <2>2, <2>3, <2>4, <2>5 DEF RewardsAreEarned
  <2>7. PointsPhase'
      BY <1>2, <2>1 DEF PointsPhase
  <2> QED
      BY <2>6, <2>7 DEF OrdersFit
<1> QED
    BY <1>4, <1>5, <1>6, <1>7, <1>8, <1>9 DEF OrderStep, RewardStep

LEMMA OrdersOweStep ==
    ASSUME CreditsFit, OrdersFit, OrdersOwe, OrderStep, [Next]_vars
    PROVE  OrdersOwe'
<1>0. TypeOK
    BY DEF CreditsFit
<1> USE <1>0, RewardsAssumption DEF TypeOK, RewardsTypeOK, To, AfterIssue, Stages, FirstReward
<1>1. \A c : Recorded(c) => Recorded(c)'
    BY RecordsStay
<1>2. SUFFICES ASSUME failures' = 0
               PROVE  OrdersOwe'
    BY DEF OrdersOwe, PointsUnderWay, CommissionsUnderWay, ReferralUnderWay
<1>3. /\ \A o \in BuyerOrders : orderStatus[o] = "PAID" /\ Points[o] > 0 =>
            o \in earned \/ At(o, AfterIssue \ {"commission"})
      /\ \A o \in AgentOrders : orderStatus[o] = "PAID" =>
            Recorded(CommissionCause(o)) \/ At(o, AfterIssue)
      /\ \A o \in BuyerOrders : orderStatus[o] = "PAID" =>
            referral # "PENDING" \/ At(o, {"referral", "claimReferral"})
      /\ referral = "REWARDED" =>
            Recorded(ReferralCause) \/ \E n \in Notices : stage[n] = "creditReferral"
    BY <1>2, FailuresStay DEF OrdersOwe, PointsUnderWay, CommissionsUnderWay, ReferralUnderWay
<1>4. \A n \in Notices : Of(n) \in Orders
    BY DEF Notices, Of
<1>5. BuyerOrders \in SUBSET Orders /\ AgentOrders \in SUBSET Orders
    BY DEF BuyerOrders
<1>6. ASSUME NEW n \in Notices, Notify(n)
      PROVE  OrdersOwe'
  <2>1. /\ UNCHANGED <<orderStatus, earned, referral>> /\ stage[n] = "idle"
        /\ \A m \in Notices \ {n} : stage'[m] = stage[m]
      BY <1>6 DEF Notify
  <2>2. \A o \in Orders, S \in SUBSET AfterIssue : At(o, S) => At(o, S)'
      BY <2>1 DEF At
  <2> QED
      BY <1>1, <1>3, <1>5, <2>1, <2>2
         DEF OrdersOwe, PointsUnderWay, CommissionsUnderWay, ReferralUnderWay
<1>7. ASSUME NEW n \in Notices, Issue(n)
      PROVE  OrdersOwe'
  <2>1. /\ UNCHANGED <<earned, referral>> /\ stage[n] = "issue"
        /\ \A m \in Notices \ {n} : stage'[m] = stage[m]
      BY <1>7 DEF Issue
  <2>2. \A o \in Orders, S \in SUBSET AfterIssue : At(o, S) => At(o, S)'
      BY <2>1 DEF At
  <2>3. ASSUME NEW o \in Orders, orderStatus'[o] = "PAID", orderStatus[o] # "PAID"
        PROVE  o = Of(n) /\ stage'[n] = FirstReward(o)
      BY <1>7, <2>3 DEF Issue
  <2>4. PointsUnderWay'
      BY <1>3, <1>5, <2>1, <2>2, <2>3 DEF PointsUnderWay, At, BuyerOrders
  <2>5. CommissionsUnderWay'
      BY <1>1, <1>3, <1>5, <2>1, <2>2, <2>3 DEF CommissionsUnderWay, At
  <2>6. ReferralUnderWay'
      BY <1>1, <1>3, <1>5, <2>1, <2>2, <2>3 DEF ReferralUnderWay, At, BuyerOrders
  <2> QED
      BY <2>4, <2>5, <2>6 DEF OrdersOwe
<1>8. ASSUME NEW n \in Notices, ReadReferral(n)
      PROVE  OrdersOwe'
  <2>1. /\ UNCHANGED <<orderStatus, earned, referral>> /\ stage[n] = "referral"
        /\ \A m \in Notices \ {n} : stage'[m] = stage[m]
        /\ stage'[n] = IF referral = "PENDING" THEN "claimReferral" ELSE "loyalty"
      BY <1>8 DEF ReadReferral
  <2>2. PointsUnderWay'
      BY <1>3, <2>1 DEF PointsUnderWay, At
  <2>3. CommissionsUnderWay'
      BY <1>1, <1>3, <2>1 DEF CommissionsUnderWay, At
  <2>4. ReferralUnderWay'
      BY <1>1, <1>3, <2>1 DEF ReferralUnderWay, At
  <2> QED
      BY <2>2, <2>3, <2>4 DEF OrdersOwe
<1>9. ASSUME NEW n \in Notices, ClaimReferral(n)
      PROVE  OrdersOwe'
  <2>1. /\ UNCHANGED <<orderStatus, earned>> /\ stage[n] = "claimReferral"
        /\ \A m \in Notices \ {n} : stage'[m] = stage[m]
        /\ \/ referral' = "REWARDED" /\ stage'[n] = "creditReferral"
           \/ referral # "PENDING" /\ UNCHANGED referral /\ stage'[n] = "loyalty"
      BY <1>9 DEF ClaimReferral, ReferralClaimable
  <2>2. PointsUnderWay'
      BY <1>3, <2>1 DEF PointsUnderWay, At
  <2>3. CommissionsUnderWay'
      BY <1>1, <1>3, <2>1 DEF CommissionsUnderWay, At
  <2>4. ReferralUnderWay'
      BY <1>1, <1>3, <2>1 DEF ReferralUnderWay, At
  <2> QED
      BY <2>2, <2>3, <2>4 DEF OrdersOwe
<1>10. ASSUME NEW n \in Notices, CreditReferral(n)
      PROVE  OrdersOwe'
  <2>0. Writes({ReferralCause})
      BY <1>10, ReferralWrites
  <2>1. Recorded(ReferralCause)'
      BY <2>0, WriteRecords
  <2>2. /\ UNCHANGED <<orderStatus, earned, referral>> /\ stage[n] = "creditReferral"
        /\ \A m \in Notices \ {n} : stage'[m] = stage[m]
      BY <1>10 DEF CreditReferral
  <2>3. stage'[n] = "loyalty"
      BY <1>10 DEF CreditReferral
  <2>4. PointsUnderWay'
      BY <1>3, <2>2, <2>3 DEF PointsUnderWay, At
  <2>5. CommissionsUnderWay'
      BY <1>1, <1>3, <2>2, <2>3 DEF CommissionsUnderWay, At
  <2>6. ReferralUnderWay'
      BY <1>3, <2>1, <2>2, <2>3 DEF ReferralUnderWay, At
  <2> QED
      BY <2>4, <2>5, <2>6 DEF OrdersOwe
<1>11. ASSUME NEW n \in Notices, ReferralThrows(n) \/ NoticeCutShort(n)
      PROVE  FALSE
    BY <1>2, <1>11 DEF ReferralThrows, NoticeCutShort, FundingTypeOK
<1>12. ASSUME NEW n \in Notices, EarnPoints(n)
      PROVE  OrdersOwe'
  <2>1. /\ UNCHANGED <<orderStatus, referral>> /\ stage[n] = "loyalty"
        /\ stage'[n] = "commission" /\ \A m \in Notices \ {n} : stage'[m] = stage[m]
        /\ Points[Of(n)] > 0 => Of(n) \in earned'
        /\ \A o \in earned : o \in earned'
      BY <1>12 DEF EarnPoints
  <2>2. PointsUnderWay'
      BY <1>3, <2>1 DEF PointsUnderWay, At
  <2>3. CommissionsUnderWay'
      BY <1>1, <1>3, <2>1 DEF CommissionsUnderWay, At
  <2>4. ReferralUnderWay'
      BY <1>1, <1>3, <2>1 DEF ReferralUnderWay, At
  <2> QED
      BY <2>2, <2>3, <2>4 DEF OrdersOwe
<1>13. ASSUME NEW n \in Notices, PayAgent(n)
      PROVE  OrdersOwe'
  <2>1. /\ UNCHANGED <<orderStatus, earned, referral>> /\ stage[n] = "commission"
        /\ \A m \in Notices \ {n} : stage'[m] = stage[m]
      BY <1>13 DEF PayAgent
  <2>2. Of(n) \in AgentOrders => Recorded(CommissionCause(Of(n)))'
    <3> SUFFICES ASSUME Of(n) \in AgentOrders PROVE Recorded(CommissionCause(Of(n)))'
        OBVIOUS
    <3>1. Record(Agent, CommissionKobo, CommissionCause(Of(n)))
        BY <1>13 DEF PayAgent, Credit
    <3>2. CommissionCause(Of(n)) \in Causes
        OBVIOUS
    <3> QED
        BY <3>1, <3>2, RecordCauses
  <2>3. PointsUnderWay'
      BY <1>3, <2>1 DEF PointsUnderWay, At
  <2>4. CommissionsUnderWay'
      BY <1>1, <1>3, <2>1, <2>2 DEF CommissionsUnderWay, At
  <2>5. ReferralUnderWay'
      BY <1>1, <1>3, <2>1 DEF ReferralUnderWay, At
  <2> QED
      BY <2>3, <2>4, <2>5 DEF OrdersOwe
<1> QED
    BY <1>6, <1>7, <1>8, <1>9, <1>10, <1>11, <1>12, <1>13 DEF OrderStep, RewardStep

-------------------------------------------------------------------------------
LEMMA InitIInv == Init => IInv
<1> SUFFICES ASSUME Init
             PROVE  IInv
    OBVIOUS
<1> USE DEF Init, LedgerInit, FundingInit, RewardsInit
<1>1. CreditsFit
    BY InitCreditsFit
<1>2. TopUpsUnderWay
    BY DEF TopUpsUnderWay
<1>3. Redeemed = {}
    BY DEF Redeemed
<1>4. Redeemed \ AboutToCount = {}
    BY <1>3
<1>5. VouchersUnderWay /\ VouchersCounted
    BY <1>3, <1>4, FS_EmptySet DEF VouchersUnderWay, VouchersCounted
<1>6. \A c : ~Recorded(c)
    BY DEF Recorded
<1>7. RewardsAreEarned /\ PointsPhase
    BY <1>6, PointsOfNone DEF RewardsAreEarned, PointsPhase, AfterIssue
<1>8. PointsUnderWay /\ CommissionsUnderWay /\ ReferralUnderWay
    BY RewardsAssumption
       DEF PointsUnderWay, CommissionsUnderWay, ReferralUnderWay, BuyerOrders
<1> QED
    BY <1>1, <1>2, <1>5, <1>7, <1>8 DEF IInv

LEMMA Step ==
    ASSUME IInv, [Next]_vars
    PROVE  IInv'
<1>1. CreditsFit /\ TopUpsUnderWay /\ VouchersUnderWay /\ VouchersCounted
        /\ OrdersFit /\ OrdersOwe
    BY DEF IInv, OrdersFit, OrdersOwe
<1>2. CASE TopUpStep /\ UNCHANGED rewardVars
  <2>1. UNCHANGED redeemedCount
      BY <1>2 DEF TopUpStep, InitiateTopUp, PayTopUp, ReadTopUp, ClaimTopUp, CreditTopUp,
                  CutShort, vouchers
  <2> QED
      BY <1>1, <1>2, <2>1, CreditsFitStep, TopUpStepKeeps, TopUpsOwedStep, VouchersOwedKept,
         OrdersFitKept, OrdersOweKept
         DEF IInv, OrdersFit, OrdersOwe
<1>3. CASE VoucherStep /\ UNCHANGED rewardVars
    BY <1>1, <1>3, CreditsFitStep, VoucherStepKeeps, VouchersOwedStep, TopUpsOwedKept,
       OrdersFitKept, OrdersOweKept
       DEF IInv, OrdersFit, OrdersOwe
<1>4. CASE PurchaseStep /\ UNCHANGED rewardVars
  <2>1. UNCHANGED redeemedCount
      BY <1>4 DEF PurchaseStep, Purchase, CutShort, vouchers
  <2> QED
      BY <1>1, <1>4, <2>1, CreditsFitStep, PurchaseStepKeeps, TopUpsOwedKept, VouchersOwedKept,
         OrdersFitKept, OrdersOweKept
         DEF IInv, OrdersFit, OrdersOwe
<1>5. CASE OrderStep /\ UNCHANGED fundingVars
  <2>1. UNCHANGED redeemedCount
      BY <1>5 DEF fundingVars, vouchers
  <2> QED
      BY <1>1, <1>5, <2>1, CreditsFitStep, OrderStepKeeps, TopUpsOwedKept, VouchersOwedKept,
         OrdersFitStep, OrdersOweStep
         DEF IInv, OrdersFit, OrdersOwe
<1>6. CASE UNCHANGED vars
  <2>1. UNCHANGED redeemedCount
      BY <1>6 DEF vars, fundingVars, vouchers
  <2> QED
      BY <1>1, <1>6, <2>1, CreditsFitStep, Stutter, TopUpsOwedKept, VouchersOwedKept,
         OrdersFitKept, OrdersOweKept
         DEF IInv, OrdersFit, OrdersOwe
<1> QED
    BY <1>2, <1>3, <1>4, <1>5, <1>6, StepCases

-------------------------------------------------------------------------------
(* The strengthened invariant holds in every reachable state.              *)
THEOREM Inductive == Spec => []IInv
<1>1. Init => IInv
    BY InitIInv
<1>2. IInv /\ [Next]_vars => IInv'
    BY Step
<1> QED
    BY <1>1, <1>2, PTL DEF Spec

(* Every variable keeps its type.                                          *)
THEOREM TypeCorrect == Spec => []TypeOK
<1>1. IInv => TypeOK
    BY DEF IInv, CreditsFit
<1> QED
    BY <1>1, Inductive, PTL

(* Every balance is explained by its rows and none is ever negative, for   *)
(* any number of credits and debits side by side.                          *)
THEOREM LedgerAlwaysExact == Spec => []LedgerExact
<1>1. IInv => LedgerExact
    BY DEF IInv, CreditsFit
<1> QED
    BY <1>1, Inductive, PTL

(* No top-up, voucher, referral, commission or order moves money twice,    *)
(* whatever is delivered again, runs concurrently or is cut short.         *)
THEOREM MoneyMovesOnce == Spec => []OncePerCause
<1>1. IInv => OncePerCause
    BY DEF IInv, CreditsFit
<1> QED
    BY <1>1, Inductive, PTL

(* Only claimed top-ups and vouchers are credited, to their owners.        *)
THEOREM CreditsAlwaysClaimed == Spec => []CreditsAreClaimed
<1>1. IInv => CreditsAreClaimed
    BY DEF IInv, CreditsFit
<1> QED
    BY <1>1, Inductive, PTL

(* Whatever is delivered again, races or is cut short, the batch never     *)
(* counts more vouchers than were redeemed, points and commissions are of  *)
(* paid orders and the referrer is paid for one of the buyer's; and when   *)
(* nothing failed and no call is under way, everything claimed was         *)
(* credited and every paid order gave what it owed.                        *)
THEOREM MoneyAlwaysSettles == Spec => []MoneySettles
<1>1. ASSUME IInv
      PROVE  FundingSettles
  <2>1. /\ IsFiniteSet(Redeemed) /\ Cardinality(Redeemed) \in Nat
        /\ redeemedCount \in Nat
      BY <1>1, FundingAssumption, FS_Subset, FS_CardinalityType
         DEF Redeemed, IInv, CreditsFit, TypeOK, FundingTypeOK
  <2>2. /\ Cardinality(Redeemed \ AboutToCount) <= Cardinality(Redeemed)
        /\ Cardinality(Redeemed \ AboutToCount) \in Nat
      BY <2>1, FS_Subset, FS_CardinalityType
  <2>3. redeemedCount <= Cardinality(Redeemed)
      BY <1>1, <2>1, <2>2 DEF IInv, VouchersCounted
  <2>4. ASSUME failures = 0, Active = {}
        PROVE  /\ \A t \in TopUps : topUp[t] = "PROCESSED" => Recorded(TopUpCause(t))
               /\ \A v \in Redeemed : Recorded(VoucherCause(v))
               /\ redeemedCount = Cardinality(Redeemed)
    <3>1. \A c \in Calls : pc[c] \notin Busy
        BY <2>4 DEF Active
    <3>2. AboutToCount = {}
        BY <3>1 DEF AboutToCount, Calls, Busy
    <3>3. Redeemed \ AboutToCount = Redeemed
        BY <3>2
    <3> QED
        BY <1>1, <2>4, <3>1, <3>3
           DEF IInv, TopUpsUnderWay, VouchersUnderWay, VouchersCounted, Calls, Busy
  <2> QED
      BY <2>3, <2>4 DEF FundingSettles
<1>2. ASSUME IInv
      PROVE  RewardsSettle
  <2> SUFFICES ASSUME failures = 0, InProgress = {}
               PROVE  /\ \A o \in Orders : orderStatus[o] = "PAID" =>
                          /\ o \in BuyerOrders /\ Points[o] > 0 => o \in earned
                          /\ o \in AgentOrders => Recorded(CommissionCause(o))
                          /\ o \in BuyerOrders => referral # "PENDING"
                      /\ referral = "REWARDED" => Recorded(ReferralCause)
      BY DEF RewardsSettle
  <2>1. \A n \in Notices : stage[n] \notin AfterIssue
      BY DEF InProgress, Stages
  <2>2. \A o, S : S \subseteq AfterIssue => ~At(o, S)
      BY <2>1 DEF At
  <2> QED
      BY <1>1, <1>2, <2>1, <2>2
         DEF IInv, PointsUnderWay, CommissionsUnderWay, ReferralUnderWay, AfterIssue
<1>3. IInv => MoneySettles
    BY <1>1, <1>2 DEF MoneySettles, IInv
<1> QED
    BY <1>3, Inductive, PTL
================================================================================
