--------------------------------- MODULE SignUps ---------------------------------
(***************************************************************************)
(* How the account of one e-mail address comes to be: by signing up with a *)
(* password, perhaps by referral, and by signing in with Google or Apple,  *)
(* whose token may or may not tell the address.                            *)
(***************************************************************************)
EXTENDS Requests

CONSTANTS
    SignUpCalls,    \* POST /auth/signup with the address
    SocialCalls,    \* sign-ins with an identity of a provider
    Identities,     \* provider and providerId
    Referrers,      \* users whose referral code may be given
    MailUser,       \* the user who has the address
    Unset           \* null

ASSUME SignUpsAssumption ==
    /\ SignUpCalls \cup SocialCalls \subseteq Calls
    /\ SignUpCalls \cap SocialCalls = {}
    /\ Unset \notin SignUpCalls \cup Referrers \cup Identities \cup {MailUser}
    /\ MailUser \notin Referrers \cup Identities

VARIABLES
    users,          \* the users that exist, but for the referrers
    passwordOf,     \* User.passwordHash of MailUser, as the call that set it
    referredBy,     \* User.referredById of MailUser
    referral,       \* Referral.referrerId of the row of MailUser
    linked,         \* linked[i]: SocialAccount.userId
    claim,          \* claim[c]: what call c was sent and has read
    answered        \* history: answered[c]: the user that social call c signed in

signUpVars == <<users, passwordOf, referredBy, referral, linked, claim, answered>>

(* An identity whose token tells no address gets a user with an address    *)
(* made of its id: that user goes by the identity here.                    *)
AllUsers == {MailUser} \cup Identities

SignUpsTypeOK ==
    /\ users \subseteq AllUsers
    /\ passwordOf \in SignUpCalls \cup {Unset}
    /\ referredBy \in Referrers \cup {MailUser, Unset} /\ referral \in Referrers \cup {Unset}
    /\ linked \in [Identities -> AllUsers \cup {Unset}]
    /\ answered \in [SocialCalls -> AllUsers \cup {Unset}]
    /\ \A c \in SignUpCalls : pc[c] \in {"idle", "write", "refer", "token"} \cup Ended
    /\ \A c \in SocialCalls : pc[c] \in {"idle", "email", "link", "create"} \cup Ended

SignUpsInit ==
    /\ users = {}
    /\ passwordOf = Unset /\ referredBy = Unset /\ referral = Unset
    /\ linked = [i \in Identities |-> Unset]
    /\ claim = [c \in SignUpCalls \cup SocialCalls |-> <<>>]
    /\ answered = [c \in SocialCalls |-> Unset]

-------------------------------------------------------------------------------
(* Signing up.                                                             *)

(* Faulty variant: an account with a password may be signed up for again.  *)
RegisteredNever == FALSE

Registered == passwordOf # Unset

(* Which call a request becomes makes no difference.                       *)
Unused(S) == {c \in S : pc[c] = "idle"}
NextOf(S) == CHOOSE c \in S : pc[c] = "idle"

(* signup reads the account; the code is looked up, which may be the       *)
(* account's own, and the password hashed before it is written.            *)
ReadExisting ==
    /\ Unused(SignUpCalls) # {}
    /\ \E r \in Referrers \cup {Unset} \cup (users \cap {MailUser}) :
        LET c == NextOf(SignUpCalls)
        IN  /\ Begin(c, IF Registered THEN "refused" ELSE "write")
            /\ claim' = [claim EXCEPT ![c] =
                   [code |-> r, exists |-> MailUser \in users, referredBy |-> referredBy]]
            /\ UNCHANGED <<users, passwordOf, referredBy, referral, linked, answered>>

(* Faulty variant: only a new account gets its referral.                   *)
RefersNew(c) == claim[c].code \in Referrers /\ ~claim[c].exists

Refers(c) == claim[c].code \in Referrers

(* update by id, which leaves a field that is undefined, or create, which  *)
(* throws when the address is taken by now.                                *)
WriteAccount(c) ==
    /\ pc[c] = "write"
    /\ IF claim[c].exists \/ MailUser \notin users
       THEN /\ users' = users \cup {MailUser}
            /\ passwordOf' = c
            /\ referredBy' = CASE claim[c].referredBy # Unset -> claim[c].referredBy
                               [] claim[c].referredBy = Unset /\ claim[c].code # Unset -> claim[c].code
                               [] claim[c].referredBy = Unset /\ claim[c].code = Unset -> referredBy
            /\ Goto(c, IF Refers(c) THEN "refer" ELSE "token")
       ELSE Goto(c, "refused") /\ UNCHANGED <<users, passwordOf, referredBy>>
    /\ UNCHANGED <<referral, linked, claim, answered>>

(* referral.upsert with an empty update.                                   *)
RecordReferral(c) ==
    /\ pc[c] = "refer"
    /\ referral' = IF referral = Unset THEN claim[c].code ELSE referral
    /\ Goto(c, "token")
    /\ UNCHANGED <<users, passwordOf, referredBy, linked, claim, answered>>

AnswerSignUp(c) ==
    /\ pc[c] = "token"
    /\ Goto(c, "done")
    /\ UNCHANGED signUpVars

-------------------------------------------------------------------------------
(* linkOrCreate.                                                           *)

(* An identity that is linked signs its user in.                           *)
FindIdentity ==
    /\ Unused(SocialCalls) # {}
    /\ \E i \in Identities, told \in BOOLEAN :
        LET c == NextOf(SocialCalls)
        IN  /\ Begin(c, CASE linked[i] # Unset -> "done"
                          [] linked[i] = Unset /\ told -> "email"
                          [] linked[i] = Unset /\ ~told -> "create")
            /\ claim' = [claim EXCEPT ![c] = [identity |-> i, told |-> told]]
            /\ answered' = [answered EXCEPT ![c] = linked[i]]
            /\ UNCHANGED <<users, passwordOf, referredBy, referral, linked>>

FindByEmail(c) ==
    /\ pc[c] = "email"
    /\ Goto(c, IF MailUser \in users THEN "link" ELSE "create")
    /\ UNCHANGED signUpVars

(* Faulty variant: an identity may be linked again.                        *)
MayLinkAgain(i) == TRUE

MayLink(i) == linked[i] = Unset

UserOfClaim(c) == IF claim[c].told THEN MailUser ELSE claim[c].identity

(* The account of the identity is created, alone or with its user: each    *)
(* throws when the row exists by now.                                      *)
LinkIdentity(c) ==
    LET i == claim[c].identity
        u == UserOfClaim(c)
    IN  /\ pc[c] \in {"link", "create"}
        /\ IF MayLink(i) /\ (pc[c] = "link" \/ u \notin users)
           THEN /\ linked' = [linked EXCEPT ![i] = u]
                /\ users' = users \cup {u}
                /\ answered' = [answered EXCEPT ![c] = u]
                /\ Goto(c, "done")
           ELSE Goto(c, "refused") /\ UNCHANGED <<users, linked, answered>>
        /\ UNCHANGED <<passwordOf, referredBy, referral, claim>>

SignUpCutShort(c) == CutShort(c) /\ UNCHANGED signUpVars

SignUpsNext ==
    \/ ReadExisting \/ FindIdentity
    \/ \E c \in SignUpCalls : WriteAccount(c) \/ RecordReferral(c) \/ AnswerSignUp(c)
    \/ \E c \in SocialCalls : FindByEmail(c) \/ LinkIdentity(c)
    \/ \E c \in SignUpCalls \cup SocialCalls : SignUpCutShort(c)

-------------------------------------------------------------------------------
(* The password of a sign-up that succeeded is the account's.  Two at once *)
(* both succeed only for an account that was there before, without one.    *)
PasswordsSurvive ==
    \A c \in SignUpCalls :
        pc[c] = "done" /\ passwordOf # c => overlapped /\ claim[c].exists

(* The referral that is rewarded and the account go together: a row says   *)
(* that the account names someone; who names someone else has a row once   *)
(* no sign-up is under way and none was cut short; and if they took turns  *)
(* both name the same.                                                     *)
ReferralsMatch ==
    /\ referral # Unset => referredBy # Unset
    /\ Busy = {} /\ failures = 0 =>
        /\ referredBy \in Referrers => referral # Unset
        /\ ~overlapped /\ referredBy # MailUser => referral = referredBy

(* However they race, all sign-ins with one identity lead to one user.     *)
OneUserPerIdentity ==
    \A c \in SocialCalls :
        pc[c] = "done" => answered[c] = linked[claim[c].identity] /\ answered[c] \in users
================================================================================
