---------------------------- MODULE WebhookDelivery -----------------------------
(***************************************************************************)
(* Outbound webhooks: WebhookDispatcher.dispatch and attempt, the retry    *)
(* cron of WebhookRetryService, the organizer's manual retry, and the      *)
(* removal of an endpoint.                                                 *)
(*                                                                         *)
(* An attempt never looks at the row it is for.  It posts, then increments *)
(* attemptCount, then, if it failed, gives up or sets the next time; each  *)
(* is an await.  A row is due from the moment it is created, so the cron   *)
(* may run beside the first attempt, and the cron does not wait for its    *)
(* own previous run.                                                       *)
(***************************************************************************)
EXTENDS Integers, FiniteSets

CONSTANTS
    Rows,           \* WebhookDelivery rows, one per endpoint and event
    NoRow,          \* null
    Sweeps,         \* runs of the cron that may overlap
    Retries,        \* POST webhook-deliveries/:id/retry requests
    MaxAttempts,    \* MAX_ATTEMPTS
    MaxFailures     \* bound: attempts cut short

ASSUME DeliveryAssumption ==
    /\ NoRow \notin Rows
    /\ IsFiniteSet(Rows) /\ IsFiniteSet(Sweeps) /\ IsFiniteSet(Retries)
    /\ Rows \cap Sweeps = {} /\ Rows \cap Retries = {} /\ Sweeps \cap Retries = {}
    /\ MaxAttempts \in Nat \ {0}
    /\ MaxFailures \in Nat

VARIABLES
    status,         \* WebhookDelivery.status; "none" without a row
    attempts,       \* attemptCount
    due,            \* nextAttemptAt has come
    accepted,       \* posts the endpoint answered with 2xx
    pc,             \* where a caller of attempt is between two awaits
    at,             \* the row it is attempting
    seen,           \* attemptCount as its first update returned it
    batch,          \* rows a sweep has read and not attempted yet
    overlapped,     \* rows two callers held at once, or retried by hand
    failures        \* attempts cut short so far

rows == <<status, attempts, due>>
callers == <<pc, at, seen, batch>>
vars == <<rows, accepted, callers, overlapped, failures>>

(* The immediate attempt of a row goes by the row's name.                  *)
Callers == Rows \cup Sweeps \cup Retries

InFlight == {"posted", "ok", "failed", "counted"}
Stored == {"PENDING", "DELIVERED", "FAILED"}

TypeOK ==
    /\ status \in [Rows -> Stored \cup {"none", "removed"}]
    /\ attempts \in [Rows -> Nat]
    /\ due \in [Rows -> BOOLEAN]
    /\ accepted \in [Rows -> Nat]
    /\ pc \in [Callers -> InFlight \cup {"idle", "ready", "done"}]
    /\ at \in [Callers -> Rows \cup {NoRow}]
    /\ seen \in [Callers -> Nat]
    /\ batch \in [Sweeps -> SUBSET Rows]
    /\ overlapped \subseteq Rows
    /\ failures \in 0 .. MaxFailures

Init ==
    /\ status = [d \in Rows |-> "none"]
    /\ attempts = [d \in Rows |-> 0]
    /\ due = [d \in Rows |-> FALSE]
    /\ accepted = [d \in Rows |-> 0]
    /\ pc = [c \in Callers |-> "idle"]
    /\ at = [c \in Callers |-> NoRow]
    /\ seen = [c \in Callers |-> 0]
    /\ batch = [s \in Sweeps |-> {}]
    /\ overlapped = {}
    /\ failures = 0

Goto(c, step) == pc' = [pc EXCEPT ![c] = step]

(* A sweep goes on with its batch; any other caller is finished.           *)
Rest(c) == IF c \in Sweeps THEN "ready" ELSE "done"

(* A caller holds a row from the moment it knows of it until it is through *)
(* with its attempt.                                                       *)
Holds(c, d) ==
    \/ at[c] = d /\ pc[c] \in InFlight
    \/ c = d /\ pc[c] = "ready"
    \/ c \in Sweeps /\ d \in batch[c]

Held == {d \in Rows : \E c \in Callers : Holds(c, d)}

Post(c, d) ==
    /\ at' = [at EXCEPT ![c] = d]
    /\ Goto(c, "posted")

-------------------------------------------------------------------------------
(* dispatch stores the row, PENDING and due at once.                       *)
Enqueue(d) ==
    /\ pc[d] = "idle"
    /\ status' = [status EXCEPT ![d] = "PENDING"]
    /\ due' = [due EXCEPT ![d] = TRUE]
    /\ Goto(d, "ready")
    /\ UNCHANGED <<attempts, accepted, at, seen, batch, overlapped, failures>>

(* ... and attempts it, after the rows of the other endpoints.             *)
PostNow(d) ==
    /\ pc[d] = "ready"
    /\ Post(d, d)
    /\ UNCHANGED <<rows, accepted, seen, batch, overlapped, failures>>

(* Faulty variant: rows of any status.                                     *)
DueWhateverStatus == {d \in Rows : status[d] \in Stored /\ due[d]}

Due == {d \in Rows : status[d] = "PENDING" /\ due[d]}

(* The cron reads the due rows, all of them: fewer than take: 50.          *)
Sweep(s) ==
    /\ pc[s] = "idle"
    /\ Due # {}
    /\ batch' = [batch EXCEPT ![s] = Due]
    /\ Goto(s, "ready")
    /\ overlapped' = overlapped \cup (Due \cap Held)
    /\ UNCHANGED <<rows, accepted, at, seen, failures>>

PostFromBatch(s) ==
    /\ s \in Sweeps /\ pc[s] = "ready"
    /\ \E d \in batch[s] :
        /\ Post(s, d)
        /\ batch' = [batch EXCEPT ![s] = @ \ {d}]
    /\ UNCHANGED <<rows, accepted, seen, overlapped, failures>>

SweepEnds(s) ==
    /\ s \in Sweeps /\ pc[s] = "ready"
    /\ batch[s] = {}
    /\ Goto(s, "idle")
    /\ at' = [at EXCEPT ![s] = NoRow]
    /\ UNCHANGED <<rows, accepted, seen, batch, overlapped, failures>>

(* The organizer retries a row, whatever its status.                       *)
Retry(r, d) ==
    /\ pc[r] = "idle"
    /\ status[d] \in Stored
    /\ Post(r, d)
    /\ overlapped' = overlapped \cup {d}
    /\ UNCHANGED <<rows, accepted, seen, batch, failures>>

-------------------------------------------------------------------------------
(* The endpoint answers 2xx, or anything else, or not before the timeout.  *)
Answer(c) ==
    /\ pc[c] = "posted"
    /\ \/ /\ accepted' = [accepted EXCEPT ![at[c]] = @ + 1]
          /\ Goto(c, "ok")
       \/ /\ UNCHANGED accepted
          /\ Goto(c, "failed")
    /\ UNCHANGED <<rows, at, seen, batch, overlapped, failures>>

(* The first update: DELIVERED or one more failed attempt.                 *)
RecordOk(c) ==
    /\ pc[c] = "ok" /\ status[at[c]] \in Stored
    /\ status' = [status EXCEPT ![at[c]] = "DELIVERED"]
    /\ attempts' = [attempts EXCEPT ![at[c]] = @ + 1]
    /\ Goto(c, Rest(c))
    /\ UNCHANGED <<due, accepted, at, seen, batch, overlapped, failures>>

(* Faulty variant: the count is left to the update that reschedules.       *)
RecordFailedUncounted(c) ==
    /\ pc[c] = "failed" /\ status[at[c]] \in Stored
    /\ seen' = [seen EXCEPT ![c] = attempts[at[c]] + 1]
    /\ Goto(c, "counted")
    /\ UNCHANGED <<rows, accepted, at, batch, overlapped, failures>>

(* Faulty variant: the attempts left are counted, from 0.                  *)
RecordFailedDown(c) ==
    /\ pc[c] = "failed" /\ status[at[c]] \in Stored
    /\ attempts' = [attempts EXCEPT ![at[c]] = @ - 1]
    /\ seen' = [seen EXCEPT ![c] = attempts[at[c]] - 1]
    /\ Goto(c, "counted")
    /\ UNCHANGED <<status, due, accepted, at, batch, overlapped, failures>>

RecordFailed(c) ==
    /\ pc[c] = "failed" /\ status[at[c]] \in Stored
    /\ attempts' = [attempts EXCEPT ![at[c]] = @ + 1]
    /\ seen' = [seen EXCEPT ![c] = attempts[at[c]] + 1]
    /\ Goto(c, "counted")
    /\ UNCHANGED <<status, due, accepted, at, batch, overlapped, failures>>

(* Faulty variant: one attempt too many.                                   *)
ExhaustedLate(count) == count > MaxAttempts

Exhausted(count) == count >= MaxAttempts

(* The second update, from the count the first one returned.               *)
GiveUp(c) ==
    /\ pc[c] = "counted" /\ status[at[c]] \in Stored
    /\ Exhausted(seen[c])
    /\ status' = [status EXCEPT ![at[c]] = "FAILED"]
    /\ Goto(c, Rest(c))
    /\ UNCHANGED <<attempts, due, accepted, at, seen, batch, overlapped, failures>>

Reschedule(c) ==
    /\ pc[c] = "counted" /\ status[at[c]] \in Stored
    /\ ~Exhausted(seen[c])
    /\ due' = [due EXCEPT ![at[c]] = FALSE]
    /\ Goto(c, Rest(c))
    /\ UNCHANGED <<status, attempts, accepted, at, seen, batch, overlapped, failures>>

(* The caller ends here; a sweep drops the rest of its batch.              *)
Abort(c) ==
    /\ Goto(c, IF c \in Sweeps THEN "idle" ELSE "done")
    /\ at' = [at EXCEPT ![c] = NoRow]
    /\ batch' = [s \in Sweeps |-> IF s = c THEN {} ELSE batch[s]]

(* The row is gone with its endpoint: the update throws.                   *)
UpdateThrows(c) ==
    /\ pc[c] \in {"ok", "failed", "counted"} /\ status[at[c]] = "removed"
    /\ Abort(c)
    /\ UNCHANGED <<rows, accepted, seen, overlapped, failures>>

CutShort(c) ==
    /\ pc[c] \in InFlight \cup {"ready"}
    /\ failures < MaxFailures
    /\ failures' = failures + 1
    /\ Abort(c)
    /\ UNCHANGED <<rows, accepted, seen, overlapped>>

(* The endpoint is deleted, and its rows with it.                          *)
Remove(d) ==
    /\ status[d] \in Stored
    /\ status' = [status EXCEPT ![d] = "removed"]
    /\ UNCHANGED <<attempts, due, accepted, callers, overlapped, failures>>

(* nextAttemptAt comes.                                                    *)
FallDue(d) ==
    /\ status[d] = "PENDING" /\ ~due[d]
    /\ due' = [due EXCEPT ![d] = TRUE]
    /\ UNCHANGED <<status, attempts, accepted, callers, overlapped, failures>>

Begin(c) == (c \in Rows /\ PostNow(c)) \/ PostFromBatch(c) \/ SweepEnds(c)
Finish(c) ==
    Answer(c) \/ RecordOk(c) \/ RecordFailed(c) \/ GiveUp(c) \/ Reschedule(c) \/ UpdateThrows(c)

Next ==
    \/ \E d \in Rows : Enqueue(d) \/ Remove(d) \/ FallDue(d)
    \/ \E s \in Sweeps : Sweep(s)
    \/ \E r \in Retries, d \in Rows : Retry(r, d)
    \/ \E c \in Callers : Begin(c) \/ Finish(c) \/ CutShort(c)

(* Awaits return, time passes, and the cron fires every minute.            *)
Fairness ==
    /\ \A c \in Callers : WF_vars(Begin(c)) /\ WF_vars(Finish(c))
    /\ \A d \in Rows : WF_vars(FallDue(d))
    /\ \A s \in Sweeps : WF_vars(Sweep(s))

Spec == Init /\ [][Next]_vars
FairSpec == Spec /\ Fairness

-------------------------------------------------------------------------------
Unrecorded(d) == {c \in Callers : at[c] = d /\ pc[c] = "ok"}
Missing(d) == Cardinality(Unrecorded(d))

(* The delivery log tells the truth, whoever races: a DELIVERED row was    *)
(* accepted, a FAILED one was tried MaxAttempts times, and no acceptance   *)
(* is missing from attemptCount but those still to be recorded, those      *)
(* whose caller died and those of a removed row.                           *)
LogIsHonest ==
    \A d \in Rows :
        /\ status[d] = "DELIVERED" => accepted[d] > 0
        /\ status[d] = "FAILED" => attempts[d] >= MaxAttempts
        /\ status[d] # "removed" => accepted[d] <= attempts[d] + Missing(d) + failures

(* What the honesty of the log rests on: an acceptance still to be recorded *)
(* happened, and a count once returned is never above the stored one.      *)
CallersAreInStep ==
    \A c \in Callers :
        /\ pc[c] \in InFlight => at[c] \in Rows
        /\ pc[c] = "ok" => accepted[at[c]] > 0
        /\ pc[c] = "counted" => seen[c] <= attempts[at[c]]

(* A row that was not dispatched is not there.                             *)
NewRowsAreClean == \A d \in Rows : pc[d] = "idle" => status[d] = "none"

LogFits == TypeOK /\ CallersAreInStep /\ NewRowsAreClean /\ LogIsHonest

(* What the settling of a row that one caller at a time holds rests on: it *)
(* is not settled yet, and how far its holder is tells what was counted.   *)
HeldInTurn(d) ==
    /\ accepted[d] <= 1 /\ attempts[d] <= MaxAttempts
    /\ \A c, e \in Callers : Holds(c, d) /\ Holds(e, d) => c = e
    /\ \A s \in Sweeps : d \in batch[s] => ~(at[s] = d /\ pc[s] \in InFlight)
    /\ \A c \in Callers : Holds(c, d) =>
        /\ status[d] \in {"PENDING", "removed"}
        /\ ~(at[c] = d /\ pc[c] = "ok") => accepted[d] = 0
        /\ IF at[c] = d /\ pc[c] = "counted"
           THEN seen[c] = attempts[d]
           ELSE attempts[d] < MaxAttempts
    /\ d \notin Held /\ status[d] \in {"none", "PENDING"} =>
        accepted[d] = 0 /\ attempts[d] < MaxAttempts

RowsInTurn == failures = 0 => \A d \in Rows \ overlapped : HeldInTurn(d)

(* The inductive invariant.                                                *)
IInv == LogFits /\ RowsInTurn

(* A row no two callers held at once, nor retried by hand, is accepted     *)
(* at most once and tried at most MaxAttempts times, if no attempt died.   *)
OnceInTurn ==
    failures = 0 => \A d \in Rows \ overlapped :
        accepted[d] <= 1 /\ attempts[d] <= MaxAttempts

(* DELIVERED is final for such a row, and FAILED too.                      *)
FinalInTurn ==
    \A d \in Rows : status[d] \in {"DELIVERED", "FAILED"} =>
        status'[d] \in {status[d], "removed"} \/ d \in overlapped' \/ failures > 0

(* Both, of every step: rows that one caller at a time holds are settled   *)
(* once.                                                                   *)
SettledInTurn == [][OnceInTurn' /\ FinalInTurn]_vars

(* Every stored row is in the end delivered, given up or removed, although *)
(* attempts, sweeps and whole requests may die at any await.               *)
RowsResolve ==
    \A d \in Rows : status[d] = "PENDING" ~> status[d] \in {"DELIVERED", "FAILED", "removed"}
================================================================================
