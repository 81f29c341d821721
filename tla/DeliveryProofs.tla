----------------------------- MODULE DeliveryProofs -----------------------------
(***************************************************************************)
(* The delivery log is honest, and rows that one caller at a time holds    *)
(* are settled once, for any number of rows, sweeps, retries and attempts  *)
(* cut short.                                                              *)
(***************************************************************************)
EXTENDS WebhookDelivery, FiniteSetTheorems, TLAPS

USE DeliveryAssumption

(* Callers are finitely many, so the unrecorded answers of a row can be    *)
(* counted.                                                                *)
LEMMA UnrecordedIsFinite ==
    ASSUME NEW d
    PROVE  IsFiniteSet(Unrecorded(d)) /\ Cardinality(Unrecorded(d)) \in Nat
<1>1. IsFiniteSet(Callers)
    BY FS_Union DEF Callers
<1>2. Unrecorded(d) \subseteq Callers
    BY DEF Unrecorded
<1> QED
    BY <1>1, <1>2, FS_Subset, FS_CardinalityType

(* Two finite sets that differ at most in c differ at most by one.         *)
LEMMA OneApart ==
    ASSUME NEW U, NEW V, NEW c, IsFiniteSet(U), IsFiniteSet(V),
           U \subseteq V \cup {c}, V \subseteq U \cup {c}
    PROVE  /\ Cardinality(U) \in Nat
           /\ Cardinality(V) \in Nat
           /\ Cardinality(U) <= Cardinality(V) + 1
           /\ c \notin U => Cardinality(U) <= Cardinality(V)
           /\ c \notin U /\ c \in V => Cardinality(V) = Cardinality(U) + 1
<1>1. Cardinality(U) \in Nat /\ Cardinality(V) \in Nat
    BY FS_CardinalityType
<1>2. Cardinality(V \cup {c}) \in {Cardinality(V), Cardinality(V) + 1}
    BY FS_AddElement
<1>3. IsFiniteSet(V \cup {c})
    BY FS_AddElement
<1>5. Cardinality(U) <= Cardinality(V \cup {c})
    BY <1>3, FS_Subset
<1>6. Cardinality(U) <= Cardinality(V) + 1
    BY <1>1, <1>2, <1>5
<1>7. ASSUME c \notin U PROVE Cardinality(U) <= Cardinality(V)
    <2>1. U \subseteq V
        BY <1>7
    <2> QED
        BY <2>1, FS_Subset
<1>8. ASSUME c \notin U, c \in V PROVE Cardinality(V) = Cardinality(U) + 1
    <2>1. V = U \cup {c}
        BY <1>8
    <2> QED
        BY <2>1, <1>8, FS_AddElement
<1> QED
    BY <1>1, <1>6, <1>7, <1>8

(* What is missing from the count of a row is a number.                    *)
LEMMA MissingType == \A d \in Rows : Missing(d) \in Nat
<1>1. IsFiniteSet(Callers)
    BY FS_Union DEF Callers
<1> QED
    BY <1>1, UnrecordedIsFinite DEF Missing

(* What a step of c may do to the unrecorded answers of d.                 *)
OneMoves(c, d) ==
    /\ Missing(d) \in Nat
    /\ Missing(d)' \in Nat
    /\ Missing(d) <= Missing(d)' + 1
    /\ ~(at[c] = d /\ pc[c] = "ok") => Missing(d) <= Missing(d)'
    /\ ~(at[c] = d /\ pc[c] = "ok") /\ at'[c] = d /\ pc'[c] = "ok" =>
         Missing(d)' = Missing(d) + 1

(* A step of one caller changes no other caller's unrecorded answer.       *)
LEMMA CountsMove ==
    ASSUME NEW c \in Callers, NEW d \in Rows,
           \A e \in Callers \ {c} : pc'[e] = pc[e] /\ at'[e] = at[e]
    PROVE  OneMoves(c, d)
<1> DEFINE U == {e \in Callers : at[e] = d /\ pc[e] = "ok"}
           V == {e \in Callers : at'[e] = d /\ pc'[e] = "ok"}
<1>1. IsFiniteSet(U) /\ IsFiniteSet(V)
    <2>1. IsFiniteSet(Callers)
        BY FS_Union DEF Callers
    <2>2. U \subseteq Callers /\ V \subseteq Callers
        OBVIOUS
    <2> HIDE DEF U, V
    <2> QED
        BY <2>1, <2>2, FS_Subset
<1>2. U \subseteq V \cup {c} /\ V \subseteq U \cup {c}
    OBVIOUS
<1>3. /\ (c \in U) <=> (at[c] = d /\ pc[c] = "ok")
      /\ (c \in V) <=> (at'[c] = d /\ pc'[c] = "ok")
    OBVIOUS
<1>4. Missing(d) = Cardinality(U)
    BY DEF Missing, Unrecorded
<1>5. Missing(d)' = Cardinality(V)
    BY DEF Missing, Unrecorded, Callers
<1> HIDE DEF U, V
<1>6. /\ Cardinality(U) \in Nat
      /\ Cardinality(V) \in Nat
      /\ Cardinality(U) <= Cardinality(V) + 1
      /\ c \notin U => Cardinality(U) <= Cardinality(V)
      /\ c \notin U /\ c \in V => Cardinality(V) = Cardinality(U) + 1
    BY <1>1, <1>2, OneApart
<1> QED
    BY <1>3, <1>4, <1>5, <1>6 DEF OneMoves

(* The invariant holds at first.                                           *)
LEMMA InitInv == Init => LogFits
<1> SUFFICES ASSUME Init PROVE LogFits
    OBVIOUS
<1>1. TypeOK
    BY DEF Init, TypeOK, Callers, InFlight, Stored
<1>2. CallersAreInStep /\ NewRowsAreClean
    BY DEF Init, CallersAreInStep, NewRowsAreClean, InFlight, Callers
<1>3. LogIsHonest
    <2>1. \A d \in Rows : Missing(d) \in Nat
        BY MissingType
    <2> QED
        BY <2>1 DEF Init, LogIsHonest
<1> QED
    BY <1>1, <1>2, <1>3 DEF LogFits

(* A new row is clean.                                                     *)
LEMMA EnqueueInv ==
    ASSUME LogFits, NEW r \in Rows, Enqueue(r)
    PROVE  LogFits'
<1> USE DEF LogFits
<1>1. TypeOK'
    BY DEF TypeOK, Callers, InFlight, Stored, rows, callers, Goto, Enqueue
<1>2. \A d \in Rows : OneMoves(r, d)
    <2>1. r \in Callers
        BY DEF Callers
    <2>2. \A e \in Callers \ {r} : pc'[e] = pc[e] /\ at'[e] = at[e]
        BY DEF TypeOK, Callers, InFlight, Stored, rows, callers, Goto, Enqueue
    <2> QED
        BY <2>1, <2>2, CountsMove DEF OneMoves
<1>3. CallersAreInStep'
    BY <1>1 DEF CallersAreInStep, TypeOK, Callers, InFlight, Stored, rows,
           callers, Goto, Enqueue
<1>4. NewRowsAreClean'
    BY DEF NewRowsAreClean, TypeOK, Callers, InFlight, Stored, rows, callers,
           Goto, Enqueue
<1>5. LogIsHonest'
    BY <1>1, <1>2 DEF LogIsHonest, CallersAreInStep, NewRowsAreClean, OneMoves,
           TypeOK, Callers, InFlight, Stored, rows, callers, Goto, Enqueue
<1> QED
    BY <1>1, <1>3, <1>4, <1>5

(* Posting changes no row.                                                 *)
LEMMA PostNowInv ==
    ASSUME LogFits, NEW c \in Rows, PostNow(c)
    PROVE  LogFits'
<1> USE DEF LogFits
<1>1. TypeOK'
    BY DEF TypeOK, Callers, InFlight, Stored, rows, callers, Goto, PostNow, Post
<1>2. \A d \in Rows : OneMoves(c, d)
    <2>1. c \in Callers
        BY DEF Callers
    <2>2. \A e \in Callers \ {c} : pc'[e] = pc[e] /\ at'[e] = at[e]
        BY DEF TypeOK, Callers, InFlight, Stored, rows, callers, Goto, PostNow, Post
    <2> QED
        BY <2>1, <2>2, CountsMove DEF OneMoves
<1>3. CallersAreInStep'
    BY <1>1 DEF CallersAreInStep, TypeOK, Callers, InFlight, Stored, rows,
           callers, Goto, PostNow, Post
<1>4. NewRowsAreClean'
    BY DEF NewRowsAreClean, TypeOK, Callers, InFlight, Stored, rows, callers,
           Goto, PostNow, Post
<1>5. LogIsHonest'
    BY <1>1, <1>2 DEF LogIsHonest, CallersAreInStep, NewRowsAreClean, OneMoves,
           TypeOK, Callers, InFlight, Stored, rows, callers, Goto, PostNow, Post
<1> QED
    BY <1>1, <1>3, <1>4, <1>5

(* A sweep only reads.                                                     *)
LEMMA SweepInv ==
    ASSUME LogFits, NEW c \in Sweeps, Sweep(c)
    PROVE  LogFits'
<1> USE DEF LogFits
<1>1. TypeOK'
    BY DEF TypeOK, Callers, InFlight, Stored, rows, callers, Goto, Sweep, Due
<1>2. \A d \in Rows : OneMoves(c, d)
    <2>1. c \in Callers
        BY DEF Callers
    <2>2. \A e \in Callers \ {c} : pc'[e] = pc[e] /\ at'[e] = at[e]
        BY DEF TypeOK, Callers, InFlight, Stored, rows, callers, Goto, Sweep, Due
    <2> QED
        BY <2>1, <2>2, CountsMove DEF OneMoves
<1>3. CallersAreInStep'
    BY <1>1 DEF CallersAreInStep, TypeOK, Callers, InFlight, Stored, rows,
           callers, Goto, Sweep, Due
<1>4. NewRowsAreClean'
    BY DEF NewRowsAreClean, TypeOK, Callers, InFlight, Stored, rows, callers,
           Goto, Sweep, Due
<1>5. LogIsHonest'
    BY <1>1, <1>2 DEF LogIsHonest, CallersAreInStep, NewRowsAreClean, OneMoves,
           TypeOK, Callers, InFlight, Stored, rows, callers, Goto, Sweep, Due
<1> QED
    BY <1>1, <1>3, <1>4, <1>5

(* Posting from a batch changes no row.                                    *)
LEMMA PostFromBatchInv ==
    ASSUME LogFits, NEW c \in Sweeps, PostFromBatch(c)
    PROVE  LogFits'
<1> USE DEF LogFits
<1>1. TypeOK'
    BY DEF TypeOK, Callers, InFlight, Stored, rows, callers, Goto, PostFromBatch,
           Post
<1>2. \A d \in Rows : OneMoves(c, d)
    <2>1. c \in Callers
        BY DEF Callers
    <2>2. \A e \in Callers \ {c} : pc'[e] = pc[e] /\ at'[e] = at[e]
        BY DEF TypeOK, Callers, InFlight, Stored, rows, callers, Goto,
               PostFromBatch, Post
    <2> QED
        BY <2>1, <2>2, CountsMove DEF OneMoves
<1>3. CallersAreInStep'
    BY <1>1 DEF CallersAreInStep, TypeOK, Callers, InFlight, Stored, rows,
           callers, Goto, PostFromBatch, Post
<1>4. NewRowsAreClean'
    BY DEF NewRowsAreClean, TypeOK, Callers, InFlight, Stored, rows, callers,
           Goto, PostFromBatch, Post
<1>5. LogIsHonest'
    BY <1>1, <1>2 DEF LogIsHonest, CallersAreInStep, NewRowsAreClean, OneMoves,
           TypeOK, Callers, InFlight, Stored, rows, callers, Goto, PostFromBatch,
           Post
<1> QED
    BY <1>1, <1>3, <1>4, <1>5

(* A sweep that ends changes no row.                                       *)
LEMMA SweepEndsInv ==
    ASSUME LogFits, NEW c \in Sweeps, SweepEnds(c)
    PROVE  LogFits'
<1> USE DEF LogFits
<1>1. TypeOK'
    BY DEF TypeOK, Callers, InFlight, Stored, rows, callers, Goto, SweepEnds
<1>2. \A d \in Rows : OneMoves(c, d)
    <2>1. c \in Callers
        BY DEF Callers
    <2>2. \A e \in Callers \ {c} : pc'[e] = pc[e] /\ at'[e] = at[e]
        BY DEF TypeOK, Callers, InFlight, Stored, rows, callers, Goto, SweepEnds
    <2> QED
        BY <2>1, <2>2, CountsMove DEF OneMoves
<1>3. CallersAreInStep'
    BY <1>1 DEF CallersAreInStep, TypeOK, Callers, InFlight, Stored, rows,
           callers, Goto, SweepEnds
<1>4. NewRowsAreClean'
    BY DEF NewRowsAreClean, TypeOK, Callers, InFlight, Stored, rows, callers,
           Goto, SweepEnds
<1>5. LogIsHonest'
    BY <1>1, <1>2 DEF LogIsHonest, CallersAreInStep, NewRowsAreClean, OneMoves,
           TypeOK, Callers, InFlight, Stored, rows, callers, Goto, SweepEnds
<1> QED
    BY <1>1, <1>3, <1>4, <1>5

(* A retry by hand only posts.                                             *)
LEMMA RetryInv ==
    ASSUME LogFits, NEW c \in Retries, NEW r \in Rows, Retry(c, r)
    PROVE  LogFits'
<1> USE DEF LogFits
<1>1. TypeOK'
    BY DEF TypeOK, Callers, InFlight, Stored, rows, callers, Goto, Retry, Post
<1>2. \A d \in Rows : OneMoves(c, d)
    <2>1. c \in Callers
        BY DEF Callers
    <2>2. \A e \in Callers \ {c} : pc'[e] = pc[e] /\ at'[e] = at[e]
        BY DEF TypeOK, Callers, InFlight, Stored, rows, callers, Goto, Retry, Post
    <2> QED
        BY <2>1, <2>2, CountsMove DEF OneMoves
<1>3. CallersAreInStep'
    BY <1>1 DEF CallersAreInStep, TypeOK, Callers, InFlight, Stored, rows,
           callers, Goto, Retry, Post
<1>4. NewRowsAreClean'
    BY DEF NewRowsAreClean, TypeOK, Callers, InFlight, Stored, rows, callers,
           Goto, Retry, Post
<1>5. LogIsHonest'
    BY <1>1, <1>2 DEF LogIsHonest, CallersAreInStep, NewRowsAreClean, OneMoves,
           TypeOK, Callers, InFlight, Stored, rows, callers, Goto, Retry, Post
<1> QED
    BY <1>1, <1>3, <1>4, <1>5

(* An answer is counted as unrecorded when it is accepted.                 *)
LEMMA AnswerInv ==
    ASSUME LogFits, NEW c \in Callers, Answer(c)
    PROVE  LogFits'
<1> USE DEF LogFits
<1>1. TypeOK'
    BY DEF TypeOK, Callers, InFlight, Stored, rows, callers, Goto, Answer
<1>2. \A d \in Rows : OneMoves(c, d)
    <2>1. c \in Callers
        BY DEF Callers
    <2>2. \A e \in Callers \ {c} : pc'[e] = pc[e] /\ at'[e] = at[e]
        BY DEF TypeOK, Callers, InFlight, Stored, rows, callers, Goto, Answer
    <2> QED
        BY <2>1, <2>2, CountsMove DEF OneMoves
<1>3. CallersAreInStep'
    BY <1>1 DEF CallersAreInStep, TypeOK, Callers, InFlight, Stored, rows,
           callers, Goto, Answer
<1>4. NewRowsAreClean'
    BY DEF NewRowsAreClean, TypeOK, Callers, InFlight, Stored, rows, callers,
           Goto, Answer
<1>5. LogIsHonest'
    BY <1>1, <1>2 DEF LogIsHonest, CallersAreInStep, NewRowsAreClean, OneMoves,
           TypeOK, Callers, InFlight, Stored, rows, callers, Goto, Answer
<1> QED
    BY <1>1, <1>3, <1>4, <1>5

(* Recording moves one acceptance from the unrecorded to the count.        *)
LEMMA RecordOkInv ==
    ASSUME LogFits, NEW c \in Callers, RecordOk(c)
    PROVE  LogFits'
<1> USE DEF LogFits
<1>1. TypeOK'
    BY DEF CallersAreInStep, TypeOK, Callers, InFlight, Stored, rows, callers,
           Goto, RecordOk, Rest
<1>2. \A d \in Rows : OneMoves(c, d)
    <2>1. c \in Callers
        BY DEF Callers
    <2>2. \A e \in Callers \ {c} : pc'[e] = pc[e] /\ at'[e] = at[e]
        BY DEF TypeOK, Callers, InFlight, Stored, rows, callers, Goto, RecordOk,
               Rest
    <2> QED
        BY <2>1, <2>2, CountsMove DEF OneMoves
<1>3. CallersAreInStep'
    BY <1>1 DEF CallersAreInStep, TypeOK, Callers, InFlight, Stored, rows,
           callers, Goto, RecordOk, Rest
<1>4. NewRowsAreClean'
    BY DEF NewRowsAreClean, TypeOK, Callers, InFlight, Stored, rows, callers,
           Goto, RecordOk, Rest
<1>5. LogIsHonest'
    BY <1>1, <1>2 DEF LogIsHonest, CallersAreInStep, NewRowsAreClean, OneMoves,
           TypeOK, Callers, InFlight, Stored, rows, callers, Goto, RecordOk, Rest
<1> QED
    BY <1>1, <1>3, <1>4, <1>5

(* A failed attempt is counted.                                            *)
LEMMA RecordFailedInv ==
    ASSUME LogFits, NEW c \in Callers, RecordFailed(c)
    PROVE  LogFits'
<1> USE DEF LogFits
<1>1. TypeOK'
    BY DEF CallersAreInStep, TypeOK, Callers, InFlight, Stored, rows, callers,
           Goto, RecordFailed
<1>2. \A d \in Rows : OneMoves(c, d)
    <2>1. c \in Callers
        BY DEF Callers
    <2>2. \A e \in Callers \ {c} : pc'[e] = pc[e] /\ at'[e] = at[e]
        BY DEF TypeOK, Callers, InFlight, Stored, rows, callers, Goto, RecordFailed
    <2> QED
        BY <2>1, <2>2, CountsMove DEF OneMoves
<1>3. CallersAreInStep'
    BY <1>1 DEF CallersAreInStep, TypeOK, Callers, InFlight, Stored, rows,
           callers, Goto, RecordFailed
<1>4. NewRowsAreClean'
    BY DEF NewRowsAreClean, TypeOK, Callers, InFlight, Stored, rows, callers,
           Goto, RecordFailed
<1>5. LogIsHonest'
    BY <1>1, <1>2 DEF LogIsHonest, CallersAreInStep, NewRowsAreClean, OneMoves,
           TypeOK, Callers, InFlight, Stored, rows, callers, Goto, RecordFailed
<1> QED
    BY <1>1, <1>3, <1>4, <1>5

(* A row is given up on a count it has reached.                            *)
LEMMA GiveUpInv ==
    ASSUME LogFits, NEW c \in Callers, GiveUp(c)
    PROVE  LogFits'
<1> USE DEF LogFits
<1>1. TypeOK'
    BY DEF TypeOK, Callers, InFlight, Stored, rows, callers, Goto, GiveUp, Rest,
           Exhausted
<1>2. \A d \in Rows : OneMoves(c, d)
    <2>1. c \in Callers
        BY DEF Callers
    <2>2. \A e \in Callers \ {c} : pc'[e] = pc[e] /\ at'[e] = at[e]
        BY DEF TypeOK, Callers, InFlight, Stored, rows, callers, Goto, GiveUp,
               Rest, Exhausted
    <2> QED
        BY <2>1, <2>2, CountsMove DEF OneMoves
<1>3. CallersAreInStep'
    BY <1>1 DEF CallersAreInStep, TypeOK, Callers, InFlight, Stored, rows,
           callers, Goto, GiveUp, Rest, Exhausted
<1>4. NewRowsAreClean'
    BY DEF NewRowsAreClean, TypeOK, Callers, InFlight, Stored, rows, callers,
           Goto, GiveUp, Rest, Exhausted
<1>5. LogIsHonest'
    BY <1>1, <1>2 DEF LogIsHonest, CallersAreInStep, NewRowsAreClean, OneMoves,
           TypeOK, Callers, InFlight, Stored, rows, callers, Goto, GiveUp, Rest,
           Exhausted
<1> QED
    BY <1>1, <1>3, <1>4, <1>5

(* A row is rescheduled.                                                   *)
LEMMA RescheduleInv ==
    ASSUME LogFits, NEW c \in Callers, Reschedule(c)
    PROVE  LogFits'
<1> USE DEF LogFits
<1>1. TypeOK'
    BY DEF TypeOK, Callers, InFlight, Stored, rows, callers, Goto, Reschedule, Rest
<1>2. \A d \in Rows : OneMoves(c, d)
    <2>1. c \in Callers
        BY DEF Callers
    <2>2. \A e \in Callers \ {c} : pc'[e] = pc[e] /\ at'[e] = at[e]
        BY DEF TypeOK, Callers, InFlight, Stored, rows, callers, Goto, Reschedule,
               Rest
    <2> QED
        BY <2>1, <2>2, CountsMove DEF OneMoves
<1>3. CallersAreInStep'
    BY <1>1 DEF CallersAreInStep, TypeOK, Callers, InFlight, Stored, rows,
           callers, Goto, Reschedule, Rest
<1>4. NewRowsAreClean'
    BY DEF NewRowsAreClean, TypeOK, Callers, InFlight, Stored, rows, callers,
           Goto, Reschedule, Rest
<1>5. LogIsHonest'
    BY <1>1, <1>2 DEF LogIsHonest, CallersAreInStep, NewRowsAreClean, OneMoves,
           TypeOK, Callers, InFlight, Stored, rows, callers, Goto, Reschedule,
           Rest
<1> QED
    BY <1>1, <1>3, <1>4, <1>5

(* An update that throws loses an answer of a removed row only.            *)
LEMMA UpdateThrowsInv ==
    ASSUME LogFits, NEW c \in Callers, UpdateThrows(c)
    PROVE  LogFits'
<1> USE DEF LogFits
<1>1. TypeOK'
    BY DEF TypeOK, Callers, InFlight, Stored, rows, callers, Goto, UpdateThrows,
           Abort
<1>2. \A d \in Rows : OneMoves(c, d)
    <2>1. c \in Callers
        BY DEF Callers
    <2>2. \A e \in Callers \ {c} : pc'[e] = pc[e] /\ at'[e] = at[e]
        BY DEF TypeOK, Callers, InFlight, Stored, rows, callers, Goto,
               UpdateThrows, Abort
    <2> QED
        BY <2>1, <2>2, CountsMove DEF OneMoves
<1>3. CallersAreInStep'
    BY <1>1 DEF CallersAreInStep, TypeOK, Callers, InFlight, Stored, rows,
           callers, Goto, UpdateThrows, Abort
<1>4. NewRowsAreClean'
    BY DEF NewRowsAreClean, TypeOK, Callers, InFlight, Stored, rows, callers,
           Goto, UpdateThrows, Abort
<1>5. LogIsHonest'
    BY <1>1, <1>2 DEF LogIsHonest, CallersAreInStep, NewRowsAreClean, OneMoves,
           TypeOK, Callers, InFlight, Stored, rows, callers, Goto, UpdateThrows,
           Abort
<1> QED
    BY <1>1, <1>3, <1>4, <1>5

(* A caller that dies loses at most one answer.                            *)
LEMMA CutShortInv ==
    ASSUME LogFits, NEW c \in Callers, CutShort(c)
    PROVE  LogFits'
<1> USE DEF LogFits
<1>1. TypeOK'
    BY DEF TypeOK, Callers, InFlight, Stored, rows, callers, Goto, CutShort, Abort
<1>2. \A d \in Rows : OneMoves(c, d)
    <2>1. c \in Callers
        BY DEF Callers
    <2>2. \A e \in Callers \ {c} : pc'[e] = pc[e] /\ at'[e] = at[e]
        BY DEF TypeOK, Callers, InFlight, Stored, rows, callers, Goto, CutShort,
               Abort
    <2> QED
        BY <2>1, <2>2, CountsMove DEF OneMoves
<1>3. CallersAreInStep'
    BY <1>1 DEF CallersAreInStep, TypeOK, Callers, InFlight, Stored, rows,
           callers, Goto, CutShort, Abort
<1>4. NewRowsAreClean'
    BY DEF NewRowsAreClean, TypeOK, Callers, InFlight, Stored, rows, callers,
           Goto, CutShort, Abort
<1>5. LogIsHonest'
    BY <1>1, <1>2 DEF LogIsHonest, CallersAreInStep, NewRowsAreClean, OneMoves,
           TypeOK, Callers, InFlight, Stored, rows, callers, Goto, CutShort, Abort
<1> QED
    BY <1>1, <1>3, <1>4, <1>5

(* A removed row owes nothing.                                             *)
LEMMA RemoveInv ==
    ASSUME LogFits, NEW r \in Rows, Remove(r)
    PROVE  LogFits'
<1> USE DEF LogFits
<1>1. TypeOK'
    BY DEF TypeOK, Callers, InFlight, Stored, rows, callers, Goto, Remove
<1>2. \A d \in Rows : Missing(d) \in Nat /\ Missing(d)' = Missing(d)
    BY MissingType DEF Missing, Unrecorded, callers, Remove
<1>3. CallersAreInStep'
    BY <1>1 DEF CallersAreInStep, TypeOK, Callers, InFlight, Stored, rows,
           callers, Goto, Remove
<1>4. NewRowsAreClean'
    BY DEF NewRowsAreClean, TypeOK, Callers, InFlight, Stored, rows, callers,
           Goto, Remove
<1>5. LogIsHonest'
    BY <1>1, <1>2 DEF LogIsHonest, CallersAreInStep, NewRowsAreClean, OneMoves,
           TypeOK, Callers, InFlight, Stored, rows, callers, Goto, Remove
<1> QED
    BY <1>1, <1>3, <1>4, <1>5

(* Time changes no counter.                                                *)
LEMMA FallDueInv ==
    ASSUME LogFits, NEW r \in Rows, FallDue(r)
    PROVE  LogFits'
<1> USE DEF LogFits
<1>1. TypeOK'
    BY DEF TypeOK, Callers, InFlight, Stored, rows, callers, Goto, FallDue
<1>2. \A d \in Rows : Missing(d) \in Nat /\ Missing(d)' = Missing(d)
    BY MissingType DEF Missing, Unrecorded, callers, FallDue
<1>3. CallersAreInStep'
    BY <1>1 DEF CallersAreInStep, TypeOK, Callers, InFlight, Stored, rows,
           callers, Goto, FallDue
<1>4. NewRowsAreClean'
    BY DEF NewRowsAreClean, TypeOK, Callers, InFlight, Stored, rows, callers,
           Goto, FallDue
<1>5. LogIsHonest'
    BY <1>1, <1>2 DEF LogIsHonest, CallersAreInStep, NewRowsAreClean, OneMoves,
           TypeOK, Callers, InFlight, Stored, rows, callers, Goto, FallDue
<1> QED
    BY <1>1, <1>3, <1>4, <1>5

(* Nothing changes.                                                        *)
LEMMA StutterInv == LogFits /\ UNCHANGED vars => LogFits'
<1> SUFFICES ASSUME LogFits, UNCHANGED vars PROVE LogFits'
    OBVIOUS
<1>1. TypeOK' /\ CallersAreInStep' /\ NewRowsAreClean'
    BY DEF LogFits, TypeOK, CallersAreInStep, NewRowsAreClean, vars, rows, callers
<1>2. \A d \in Rows : Missing(d)' = Missing(d)
    BY DEF Missing, Unrecorded, vars, callers
<1> QED
    BY <1>1, <1>2 DEF LogFits, LogIsHonest, vars, rows, callers

(* No step of a dispatch, a sweep, a retry or a removal breaks the         *)
(* invariant.                                                              *)
LEMMA LogFitsStep ==
    ASSUME LogFits, [Next]_vars
    PROVE  LogFits'
<1>1. CASE \E d \in Rows : Enqueue(d) \/ Remove(d) \/ FallDue(d)
    BY <1>1, EnqueueInv, RemoveInv, FallDueInv
<1>2. CASE \E s \in Sweeps : Sweep(s)
    BY <1>2, SweepInv
<1>3. CASE \E r \in Retries, d \in Rows : Retry(r, d)
    BY <1>3, RetryInv
<1>4. CASE \E c \in Callers : Begin(c)
    <2>1. PICK c \in Callers : Begin(c)
        BY <1>4
    <2>2. CASE c \in Rows /\ PostNow(c)
        BY <2>2, PostNowInv
    <2>3. CASE PostFromBatch(c)
        BY <2>3, PostFromBatchInv DEF PostFromBatch
    <2>4. CASE SweepEnds(c)
        BY <2>4, SweepEndsInv DEF SweepEnds
    <2> QED
        BY <2>1, <2>2, <2>3, <2>4 DEF Begin
<1>5. CASE \E c \in Callers : Finish(c)
    BY <1>5, AnswerInv, RecordOkInv, RecordFailedInv, GiveUpInv, RescheduleInv,
       UpdateThrowsInv DEF Finish
<1>6. CASE \E c \in Callers : CutShort(c)
    BY <1>6, CutShortInv
<1>7. CASE UNCHANGED vars
    BY <1>7, StutterInv
<1> QED
    BY <1>1, <1>2, <1>3, <1>4, <1>5, <1>6, <1>7 DEF Next

--------------------------------------------------------------------------------
(* Rows that one caller at a time holds.                                   *)

LEMMA InitInTurn == Init => RowsInTurn
BY DEF Init, RowsInTurn, HeldInTurn, Held, Holds, Callers, InFlight

LEMMA InTurnStep ==
    ASSUME LogFits, RowsInTurn, [Next]_vars
    PROVE  RowsInTurn'
<1> SUFFICES ASSUME failures' = 0, NEW d \in Rows, d \notin overlapped'
             PROVE  HeldInTurn(d)'
    BY DEF RowsInTurn
<1> USE DEF LogFits, TypeOK, rows, callers, Goto, Stored, InFlight, Callers
<1>0. HeldInTurn(d)
    BY DEF Next, Enqueue, Remove, FallDue, Sweep, Retry, Begin, Finish, PostNow, PostFromBatch,
           SweepEnds, Answer, RecordOk, RecordFailed, GiveUp, Reschedule, UpdateThrows,
           CutShort, vars, RowsInTurn
<1>1. ASSUME NEW r \in Rows, Enqueue(r) PROVE HeldInTurn(d)'
    BY <1>0, <1>1 DEF Enqueue, HeldInTurn, Holds, Held, NewRowsAreClean
<1>2. ASSUME NEW r \in Rows, Remove(r) PROVE HeldInTurn(d)'
    BY <1>0, <1>2 DEF Remove, HeldInTurn, Holds, Held
<1>3. ASSUME NEW r \in Rows, FallDue(r) PROVE HeldInTurn(d)'
    BY <1>0, <1>3 DEF FallDue, HeldInTurn, Holds, Held
<1>4. ASSUME NEW s \in Sweeps, Sweep(s) PROVE HeldInTurn(d)'
    BY <1>0, <1>4 DEF Sweep, Due, HeldInTurn, Holds, Held
<1>5. ASSUME NEW r \in Retries, NEW e \in Rows, Retry(r, e) PROVE HeldInTurn(d)'
    BY <1>0, <1>5 DEF Retry, Post, HeldInTurn, Holds, Held
<1>6. ASSUME NEW c \in Rows, PostNow(c) PROVE HeldInTurn(d)'
    BY <1>0, <1>6 DEF PostNow, Post, HeldInTurn, Holds, Held
<1>7. ASSUME NEW s \in Sweeps, PostFromBatch(s) PROVE HeldInTurn(d)'
    BY <1>0, <1>7 DEF PostFromBatch, Post, HeldInTurn, Holds, Held
<1>8. ASSUME NEW s \in Sweeps, SweepEnds(s) PROVE HeldInTurn(d)'
    BY <1>0, <1>8 DEF SweepEnds, HeldInTurn, Holds, Held
<1>9. ASSUME NEW c \in Callers, Answer(c) PROVE HeldInTurn(d)'
    BY <1>0, <1>9 DEF Answer, HeldInTurn, Holds, Held
<1>10. ASSUME NEW c \in Callers, RecordOk(c) PROVE HeldInTurn(d)'
    BY <1>0, <1>10 DEF RecordOk, Rest, HeldInTurn, Holds, Held, CallersAreInStep
<1>11. ASSUME NEW c \in Callers, RecordFailed(c) PROVE HeldInTurn(d)'
    BY <1>0, <1>11 DEF RecordFailed, HeldInTurn, Holds, Held, CallersAreInStep
<1>12. ASSUME NEW c \in Callers, GiveUp(c) PROVE HeldInTurn(d)'
    BY <1>0, <1>12 DEF GiveUp, Rest, HeldInTurn, Holds, Held, CallersAreInStep
<1>13. ASSUME NEW c \in Callers, Reschedule(c) PROVE HeldInTurn(d)'
    BY <1>0, <1>13 DEF Reschedule, Rest, Exhausted, HeldInTurn, Holds, Held, CallersAreInStep
<1>14. ASSUME NEW c \in Callers, UpdateThrows(c) PROVE HeldInTurn(d)'
    BY <1>0, <1>14 DEF UpdateThrows, Abort, HeldInTurn, Holds, Held
<1>15. ASSUME NEW c \in Callers, CutShort(c) PROVE HeldInTurn(d)'
    BY <1>15 DEF CutShort
<1>16. CASE UNCHANGED vars
    BY <1>0, <1>16 DEF vars, HeldInTurn, Holds, Held
<1> QED
    BY <1>1, <1>2, <1>3, <1>4, <1>5, <1>6, <1>7, <1>8, <1>9, <1>10, <1>11, <1>12, <1>13,
       <1>14, <1>15, <1>16 DEF Next, Begin, Finish, PostFromBatch, SweepEnds

--------------------------------------------------------------------------------
(* However many sweeps, retries and attempts there are, the log is honest, *)
(* every caller in step with its row, and a row one caller at a time holds *)
(* not settled before that caller settles it.                              *)
THEOREM Inductive == Spec => []IInv
<1>1. Init => IInv
    BY InitInv, InitInTurn DEF IInv
<1>2. IInv /\ [Next]_vars => IInv'
    BY LogFitsStep, InTurnStep DEF IInv
<1> QED
    BY <1>1, <1>2, PTL DEF Spec

(* Type correctness, for any number of rows, sweeps and retries.           *)
THEOREM TypeCorrect == Spec => []TypeOK
<1>1. IInv => TypeOK
    BY DEF IInv, LogFits
<1> QED
    BY <1>1, Inductive, PTL

(* The log is honest however many callers attempt a row at once: see       *)
(* LogIsHonest.                                                            *)
THEOREM LogAlwaysHonest == Spec => []LogIsHonest
<1>1. IInv => LogIsHonest
    BY DEF IInv, LogFits
<1> QED
    BY <1>1, Inductive, PTL

(* A row that one caller at a time holds, and no attempt of which died, is *)
(* accepted at most once, tried at most MaxAttempts times, and DELIVERED   *)
(* and FAILED are final for it.                                            *)
THEOREM SettledOnce == Spec => SettledInTurn
<1>1. IInv /\ [Next]_vars => FinalInTurn
  <2> SUFFICES ASSUME IInv, [Next]_vars, NEW d \in Rows, status[d] \in {"DELIVERED", "FAILED"},
                      d \notin overlapped', failures = 0
               PROVE  status'[d] \in {status[d], "removed"}
      BY DEF FinalInTurn, IInv, LogFits, TypeOK
  <2>1. d \notin overlapped
      BY DEF Next, Enqueue, Remove, FallDue, Sweep, Retry, Begin, Finish, PostNow,
             PostFromBatch, SweepEnds, Answer, RecordOk, RecordFailed, GiveUp, Reschedule,
             UpdateThrows, CutShort, vars
  <2>2. \A c \in Callers : ~Holds(c, d)
      BY <2>1 DEF IInv, RowsInTurn, HeldInTurn
  <2>3. pc[d] # "idle"
      BY DEF IInv, LogFits, NewRowsAreClean
  <2> QED
      BY <2>2, <2>3
         DEF Next, Enqueue, Remove, FallDue, Sweep, Retry, Begin, Finish, PostNow,
             PostFromBatch, SweepEnds, Answer, RecordOk, RecordFailed, GiveUp, Reschedule,
             UpdateThrows, CutShort, vars, rows, callers, Holds, InFlight, IInv, LogFits, TypeOK
<1>2. IInv => OnceInTurn
    BY DEF IInv, RowsInTurn, HeldInTurn, OnceInTurn
<1> QED
    BY <1>1, <1>2, Inductive, PTL DEF Spec, SettledInTurn
================================================================================
