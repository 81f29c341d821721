---------------------------------- MODULE Team ----------------------------------
(***************************************************************************)
(* The members of one organizer: TeamService.invite, updateRole and        *)
(* remove, and PrivacyService.deleteAccount as far as it asks who owns the *)
(* organizer.  Every check is a read of its own before the write.          *)
(***************************************************************************)
EXTENDS Requests

CONSTANTS
    People,         \* users who may be members
    Founder,        \* the one who created the organizer
    TeamCalls,      \* requests of owners
    LeaveCalls      \* requests to delete an account

ASSUME TeamAssumption ==
    /\ IsFiniteSet(People)
    /\ Founder \in People
    /\ TeamCalls \cup LeaveCalls \subseteq Calls
    /\ TeamCalls \cap LeaveCalls = {}

VARIABLES
    member,         \* member[u]: OrganizerMember.role, and which row it is
    left,           \* users with deletedAt
    job             \* job[c]: what call c is to do, and the row it found

teamVars == <<member, left, job>>

Roles == {"OWNER", "MANAGER"}
Ops == {"invite", "updateRole", "remove", "leave"}
NoJob == [op |-> "none", by |-> Founder, who |-> Founder, role |-> "none", row |-> 0]
TeamSteps == {"find", "count", "create", "update", "delete", "close"}

Owners == {u \in People : member[u].role = "OWNER"}

TeamTypeOK ==
    /\ member \in [People -> [role : Roles \cup {"none"}, row : Nat]]
    /\ left \subseteq People
    /\ job \in [TeamCalls \cup LeaveCalls ->
                   [op : Ops \cup {"none"}, by : People, who : People,
                    role : Roles \cup {"none"}, row : Nat]]
    /\ \A c \in TeamCalls \cup LeaveCalls : pc[c] \in TeamSteps \cup Ended \cup {"idle"}

TeamInit ==
    /\ member = [u \in People |-> [role |-> IF u = Founder THEN "OWNER" ELSE "none", row |-> 0]]
    /\ left = {}
    /\ job = [c \in TeamCalls \cup LeaveCalls |-> NoJob]

(* What call c was about is forgotten when it ends.                        *)
Advance(c, step) ==
    /\ Goto(c, step)
    /\ job' = IF step \in Ended THEN [job EXCEPT ![c] = NoJob] ELSE job

(* The row that call c found is still there.                               *)
SameRow(c) ==
    /\ member[job[c].who].role # "none"
    /\ member[job[c].who].row = job[c].row

-------------------------------------------------------------------------------
(* assertOwner, which every operation on the team begins with.             *)
AssertOwner(c) ==
    /\ Begin(c, "find")
    /\ \E op \in Ops \ {"leave"}, by \in Owners \ left, who \in People, role \in Roles :
        /\ op = "remove" => role = "MANAGER"
        /\ job' = [job EXCEPT ![c] =
                      [op |-> op, by |-> by, who |-> who, role |-> role, row |-> 0]]
    /\ UNCHANGED <<member, left>>

(* invite: the user is found or made by e-mail, which a closed account no  *)
(* longer has; an existing member is refused.                              *)
FindInvitee(c) ==
    /\ pc[c] = "find" /\ job[c].op = "invite"
    /\ job[c].who \notin left
    /\ Advance(c, IF member[job[c].who].role = "none" THEN "create" ELSE "refused")
    /\ UNCHANGED <<member, left>>

(* The key on organizer and user refuses a second row.                     *)
CreateMember(c) ==
    LET who == job[c].who
    IN  /\ pc[c] = "create"
        /\ IF member[who].role = "none"
           THEN /\ member' = [member EXCEPT ![who] =
                                 [role |-> job[c].role, row |-> member[who].row + 1]]
                /\ Advance(c, "done")
           ELSE UNCHANGED member /\ Advance(c, "refused")
        /\ UNCHANGED left

(* Faulty variant: owners may demote themselves.                           *)
MayHaveRoleAlways(c) == TRUE

MayHaveRole(c) == job[c].who = job[c].by => job[c].role = "OWNER"

(* Only an owner's removal counts the owners.                              *)
StepToRemove(c) == IF member[job[c].who].role = "OWNER" THEN "count" ELSE "delete"

(* updateRole and remove find the member's row.                            *)
FindMember(c) ==
    LET who  == job[c].who
        next == CASE member[who].role = "none" -> "refused"
                  [] job[c].op = "updateRole" /\ member[who].role # "none" ->
                         IF MayHaveRole(c) THEN "update" ELSE "refused"
                  [] job[c].op = "remove" /\ member[who].role # "none" ->
                         IF who = job[c].by THEN "refused" ELSE StepToRemove(c)
    IN  /\ pc[c] = "find" /\ job[c].op \in {"updateRole", "remove"}
        /\ Goto(c, next)
        /\ job' = [job EXCEPT ![c] = IF next \in Ended THEN NoJob
                                     ELSE [job[c] EXCEPT !.row = member[who].row]]
        /\ UNCHANGED <<member, left>>

CountOwners(c) ==
    /\ pc[c] = "count"
    /\ Advance(c, IF Cardinality(Owners) <= 1 THEN "refused" ELSE "delete")
    /\ UNCHANGED <<member, left>>

(* update and delete by id throw when the row is gone.                     *)
UpdateRole(c) ==
    /\ pc[c] = "update"
    /\ IF SameRow(c)
       THEN /\ member' = [member EXCEPT ![job[c].who].role = job[c].role]
            /\ Advance(c, "done")
       ELSE UNCHANGED member /\ Advance(c, "refused")
    /\ UNCHANGED left

DeleteMember(c) ==
    /\ pc[c] = "delete"
    /\ IF SameRow(c)
       THEN /\ member' = [member EXCEPT ![job[c].who].role = "none"]
            /\ Advance(c, "done")
       ELSE UNCHANGED member /\ Advance(c, "refused")
    /\ UNCHANGED left

-------------------------------------------------------------------------------
(* Faulty variant: owners may close their accounts.                        *)
OwnsNothingAlways(u) == TRUE

OwnsNothing(u) == u \notin Owners

(* deleteAccount reads the memberships, compares the password, ...         *)
AskToLeave(c) ==
    \E u \in People \ left :
        /\ Begin(c, IF OwnsNothing(u) THEN "close" ELSE "refused")
        /\ job' = IF OwnsNothing(u)
                  THEN [job EXCEPT ![c] = [NoJob EXCEPT !.op = "leave", !.by = u, !.who = u]]
                  ELSE job
        /\ UNCHANGED <<member, left>>

(* ... and closes the account.  Its memberships stay.                      *)
Leave(c) ==
    /\ pc[c] = "close"
    /\ left' = left \cup {job[c].who}
    /\ Advance(c, "done")
    /\ UNCHANGED member

TeamCutShort(c) ==
    /\ CutShort(c)
    /\ job' = [job EXCEPT ![c] = NoJob]
    /\ UNCHANGED <<member, left>>

TeamNext ==
    \/ \E c \in TeamCalls :
        \/ AssertOwner(c) \/ FindInvitee(c) \/ CreateMember(c) \/ FindMember(c)
        \/ CountOwners(c) \/ UpdateRole(c) \/ DeleteMember(c)
    \/ \E c \in LeaveCalls : AskToLeave(c) \/ Leave(c)
    \/ \E c \in TeamCalls \cup LeaveCalls : TeamCutShort(c)

-------------------------------------------------------------------------------
(* Requests handled one after the other never leave the organizer without  *)
(* an owner, also if some end halfway: nobody can demote or remove himself *)
(* and the last owner cannot be removed.                                   *)
OwnerRemains == overlapped \/ Owners # {}

(* An account is never closed while it owns the organizer, unless it was   *)
(* made an owner after deleteAccount had asked.                            *)
OwnersStay == [][\A u \in left' \ left : overlapped \/ u \notin Owners]_teamVars

(* Both: the organizer has an owner, who has an account.                   *)
OwnersKept == []OwnerRemains /\ OwnersStay
================================================================================
