------------------------------- MODULE Requests -------------------------------
(***************************************************************************)
(* Requests to the API and tasks of its clients.  Between two awaits a     *)
(* call is suspended and others run; pc names the statement it resumes     *)
(* with.  Calls of different groups touch no common state, so the calls of *)
(* one execution come from one group.                                      *)
(***************************************************************************)
EXTENDS Integers, FiniteSets

CONSTANTS
    Calls,          \* every call that may be made
    Groups,         \* sets of calls that work on the same rows
    MaxAtOnce,      \* bound: calls under way at the same time
    MaxFailures     \* bound: calls that throw halfway or whose process dies

ASSUME RequestsAssumption ==
    /\ Groups \subseteq SUBSET Calls
    /\ MaxAtOnce \in Nat /\ MaxFailures \in Nat

VARIABLES
    pc,             \* pc[c]: where call c is
    failures,       \* calls cut short so far
    overlapped      \* has a call begun while another was under way?

requestVars == <<pc, failures, overlapped>>

Ended == {"done", "refused", "dead"}
Started == {c \in Calls : pc[c] # "idle"}
Busy == {c \in Started : pc[c] \notin Ended}

RequestsInit ==
    /\ pc = [c \in Calls |-> "idle"]
    /\ failures = 0
    /\ overlapped = FALSE

(* Call c resumes with the statement step; the others stay where they are. *)
MovesTo(c, step) == pc' = [d \in Calls |-> IF d = c THEN step ELSE pc[d]]

(* Call c arrives and runs to its first await.                             *)
Begin(c, step) ==
    /\ pc[c] = "idle"
    /\ Cardinality(Busy) < MaxAtOnce
    /\ \E G \in Groups : c \in G /\ Started \subseteq G
    /\ MovesTo(c, step)
    /\ overlapped' = (overlapped \/ Busy # {})
    /\ UNCHANGED failures

(* Call c resumes and runs to its next await.                              *)
Goto(c, step) ==
    /\ MovesTo(c, step)
    /\ UNCHANGED <<failures, overlapped>>

(* Call c ends where it is: the await throws, or the process dies.         *)
CutShort(c) ==
    /\ c \in Busy
    /\ failures < MaxFailures
    /\ MovesTo(c, "dead")
    /\ failures' = failures + 1
    /\ UNCHANGED overlapped

(* Only calls of P were made.                                              *)
Only(P) == Started \subseteq P

(* Nothing went wrong so far, and no call saw what another was changing.   *)
Undisturbed == failures = 0 /\ ~overlapped
================================================================================
