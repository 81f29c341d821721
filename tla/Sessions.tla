-------------------------------- MODULE Sessions --------------------------------
(***************************************************************************)
(* One account: password sign-ins with lockout and second factor           *)
(* (AuthService), e-mail verification, password reset and enrolment of the *)
(* second factor (SecurityService), magic links, authorization codes of    *)
(* third-party clients, and the closing of the account (PrivacyService).   *)
(* A call reads the user's row when it begins and writes it by id later,   *)
(* so what it knows of it may be stale.                                    *)
(***************************************************************************)
EXTENDS Requests

CONSTANTS
    Signins,        \* POST auth/signin requests, with the 2FA request that follows
    Issues,         \* requests for a one-time token
    Uses,           \* requests that present one
    Tokens, Kind,   \* the tokens; Kind[k]: what token k is for
    Setups, Enables, Disables,  \* requests about the second factor
    LogOuts,        \* requests to revoke one session, or all but one
    Closes,         \* requests to delete the account
    LockAfter       \* wrong passwords that lock the account (5 in the code)

Openers == Signins \cup Uses
AccountCalls == Issues \cup Openers \cup Setups \cup Enables \cup Disables \cup LogOuts \cup Closes

ASSUME SessionsAssumption ==
    /\ AccountCalls \subseteq Calls
    /\ Signins \cap Uses = {}
    /\ Setups \cap Enables = {} /\ Disables \cap (Setups \cup Enables) = {}
    /\ Closes \cap (Setups \cup Enables \cup Disables) = {}
    /\ Kind \in [Tokens -> {"verify", "reset", "link", "code"}]
    /\ LockAfter \in Nat \ {0}
    /\ "none" \notin Tokens \cup Uses \cup Setups
    /\ "first" \notin Uses

VARIABLES
    user,           \* the User row
    seen,           \* seen[c]: the row as call c read it
    token,          \* token[k]: a row not yet made, fresh, used, or deleted
    using,          \* using[c]: the token that c presents
    winners,        \* history: winners[k]: the calls that burned token k
    session,        \* session[c]: what became of the Session that c opened
    since,          \* since[c]: the password of the account at that time
    proved,         \* history: secrets and sign-ins with a right TOTP code
    streak          \* history: wrong passwords since an issued session

tokenVars == <<token, using, winners>>
sessionVars == <<user, seen, tokenVars, session, since, proved, streak>>

(* A password is the request that set it, "first" at registration, "none"  *)
(* when there is none; a TOTP secret is the setup that generated it.       *)
Passwords == Uses \cup {"first", "none"}
Rows == [password : Passwords, failed : 0..LockAfter, locked : BOOLEAN,
         secret : Setups \cup {"none"}, enabled : BOOLEAN, email : BOOLEAN, closed : BOOLEAN]
NewUser == [password |-> "first", failed |-> 0, locked |-> FALSE, secret |-> "none",
            enabled |-> FALSE, email |-> FALSE, closed |-> FALSE]

SessionSteps == {"compare", "second", "totp", "clear", "open", "burn", "effect",
                 "spoil", "revoke", "account", "write"}

(* Sessions of the web and mobile clients; an exchanged code opens an      *)
(* access token of a third party instead.                                  *)
IsToken(c, kind) == c \in Uses /\ using[c] # "none" /\ Kind[using[c]] = kind
Live == {c \in Openers : session[c] = "live" /\ ~IsToken(c, "code")}

SessionsTypeOK ==
    /\ user \in Rows
    /\ seen \in [Signins -> Rows]
    /\ token \in [Tokens -> {"none", "fresh", "used", "deleted"}]
    /\ using \in [Uses -> Tokens \cup {"none"}]
    /\ winners \in [Tokens -> SUBSET Uses]
    /\ session \in [Openers -> {"none", "live", "revoked", "deleted"}]
    /\ since \in [Openers -> Passwords]
    /\ proved \subseteq Setups \cup Signins
    /\ streak \in Nat
    /\ \A c \in AccountCalls : pc[c] \in SessionSteps \cup Ended \cup {"idle"}

SessionsInit ==
    /\ user = NewUser
    /\ seen = [c \in Signins |-> NewUser]
    /\ token = [k \in Tokens |-> "none"]
    /\ using = [c \in Uses |-> "none"]
    /\ winners = [k \in Tokens |-> {}]
    /\ session = [c \in Openers |-> "none"]
    /\ since = [c \in Openers |-> "none"]
    /\ proved = {}
    /\ streak = 0

-------------------------------------------------------------------------------
(* AuthService.signin.                                                     *)

ReadAccount(c) ==
    /\ Begin(c, IF user.closed \/ user.password = "none" \/ user.locked
                THEN "refused" ELSE "compare")
    /\ seen' = [seen EXCEPT ![c] = user]
    /\ UNCHANGED <<user, tokenVars, session, since, proved, streak>>

(* Faulty variant: the counter starts again with every failure.            *)
NextCountFromZero(c) == 1

NextCount(c) == seen[c].failed + 1

(* Faulty variant: failures are counted, nothing comes of them.            *)
WrongPasswordNeverLocks(c) ==
    /\ pc[c] = "compare"
    /\ user' = [user EXCEPT !.failed = NextCount(c)]
    /\ streak' = streak + 1
    /\ Goto(c, "refused")
    /\ UNCHANGED <<seen, tokenVars, session, since, proved>>

(* The row is written from what was read before bcrypt.compare.            *)
WrongPassword(c) ==
    LET lock == NextCount(c) >= LockAfter
    IN  /\ pc[c] = "compare"
        /\ user' = [user EXCEPT !.failed = IF lock THEN 0 ELSE NextCount(c),
                                !.locked = lock \/ seen[c].locked]
        /\ streak' = streak + 1
        /\ Goto(c, "refused")
        /\ UNCHANGED <<seen, tokenVars, session, since, proved>>

(* Faulty variant: the second factor is never asked for.                   *)
StepAfterPasswordAlways(c) == {"clear"}

(* With a code in the request it is verified at once; without one the      *)
(* client gets a challenge, and sends the code in a second request.        *)
StepAfterPassword(c) == IF seen[c].enabled THEN {"totp", "second"} ELSE {"clear"}

RightPassword(c) ==
    /\ pc[c] = "compare"
    /\ \E step \in StepAfterPassword(c) : Goto(c, step)
    /\ UNCHANGED sessionVars

(* signin2FA reads the account again, but not its password.                *)
SecondRequest(c) ==
    /\ pc[c] = "second"
    /\ Goto(c, IF user.closed THEN "refused" ELSE "totp")
    /\ UNCHANGED sessionVars

(* verifyTotpForSignin; whatever is typed passes if 2FA is off by now.     *)
RightCode(c) ==
    /\ pc[c] = "totp"
    /\ proved' = IF user.enabled /\ user.secret # "none" THEN proved \cup {c} ELSE proved
    /\ Goto(c, "clear")
    /\ UNCHANGED <<user, seen, tokenVars, session, since, streak>>

WrongCode(c) ==
    /\ pc[c] = "totp"
    /\ user.enabled /\ user.secret # "none"
    /\ Goto(c, "refused")
    /\ UNCHANGED sessionVars

(* issueToken: the lockout is cleared, then the session is made.           *)
ClearLockout(c) ==
    /\ pc[c] = "clear"
    /\ user' = [user EXCEPT !.failed = 0, !.locked = FALSE]
    /\ streak' = 0
    /\ Goto(c, "open")
    /\ UNCHANGED <<seen, tokenVars, session, since, proved>>

OpenSession(c) ==
    /\ pc[c] = "open"
    /\ session' = [session EXCEPT ![c] = "live"]
    /\ since' = [since EXCEPT ![c] = user.password]
    /\ Goto(c, "done")
    /\ UNCHANGED <<user, seen, tokenVars, proved, streak>>

(* The 15 minutes of lockedUntil pass.                                     *)
LockoutPasses ==
    /\ user.locked
    /\ user' = [user EXCEPT !.locked = FALSE]
    /\ UNCHANGED <<requestVars, seen, tokenVars, session, since, proved, streak>>

(* revokeSession, or revokeAllSessions but for the caller's.               *)
LogOut(c) ==
    /\ Begin(c, "done")
    /\ \E s \in Live : \E gone \in {{s}, Live \ {s}} :
        session' = [x \in Openers |-> IF x \in gone THEN "revoked" ELSE session[x]]
    /\ UNCHANGED <<user, seen, tokenVars, since, proved, streak>>

-------------------------------------------------------------------------------
(* One-time tokens.                                                        *)

(* sendEmailVerification, requestPasswordReset, magicLink.request and      *)
(* issueAuthorizationCode.                                                 *)
IssueToken(c, k) ==
    /\ token[k] = "none"
    /\ ~user.closed
    /\ Kind[k] = "verify" => ~user.email
    /\ Begin(c, "done")
    /\ token' = [token EXCEPT ![k] = "fresh"]
    /\ UNCHANGED <<user, seen, using, winners, session, since, proved, streak>>

ReadToken(c, k) ==
    /\ token[k] # "none"
    /\ Begin(c, IF token[k] = "fresh" THEN "burn" ELSE "refused")
    /\ using' = [using EXCEPT ![c] = k]
    /\ UNCHANGED <<user, seen, token, winners, session, since, proved, streak>>

(* Faulty variant: the UPDATE does not ask whether the token was used.     *)
BurnableAlways(k) == token[k] # "deleted"

Burnable(k) == token[k] = "fresh"

(* The conditional updateMany by which one of the readers wins.            *)
BurnToken(c) ==
    LET k == using[c]
    IN  /\ pc[c] = "burn"
        /\ IF Burnable(k)
           THEN /\ token' = [token EXCEPT ![k] = "used"]
                /\ winners' = [winners EXCEPT ![k] = @ \cup {c}]
                /\ Goto(c, "effect")
           ELSE UNCHANGED <<token, winners>> /\ Goto(c, "refused")
        /\ UNCHANGED <<user, seen, using, session, since, proved, streak>>

(* confirmEmail; confirmPasswordReset, by id; a confirmed magic link, whose*)
(* account is looked at next.                                              *)
WriteUser(c) ==
    /\ pc[c] = "effect" /\ ~IsToken(c, "code")
    /\ user' = IF IsToken(c, "reset") THEN [user EXCEPT !.password = c]
               ELSE [user EXCEPT !.email = TRUE]
    /\ Goto(c, CASE IsToken(c, "verify") -> "done"
                 [] IsToken(c, "reset") -> "spoil"
                 [] IsToken(c, "link") -> "account")
    /\ UNCHANGED <<seen, tokenVars, session, since, proved, streak>>

(* exchangeCode makes the access token.                                    *)
GrantAccess(c) ==
    /\ pc[c] = "effect" /\ IsToken(c, "code")
    /\ session' = [session EXCEPT ![c] = "live"]
    /\ since' = [since EXCEPT ![c] = user.password]
    /\ Goto(c, "done")
    /\ UNCHANGED <<user, seen, tokenVars, proved, streak>>

(* confirmPasswordReset goes on: the other reset tokens are used up, ...   *)
SpoilResets(c) ==
    /\ pc[c] = "spoil"
    /\ token' = [k \in Tokens |->
                    IF Kind[k] = "reset" /\ token[k] = "fresh" THEN "used" ELSE token[k]]
    /\ Goto(c, "revoke")
    /\ UNCHANGED <<user, seen, using, winners, session, since, proved, streak>>

(* Faulty variant: sessions opened by magic link are overlooked.           *)
RevokedByResetSome == Live \cap Signins

RevokedByReset == Live

(* ... and every session is revoked.                                       *)
RevokeSessions(c) ==
    /\ pc[c] = "revoke"
    /\ session' = [x \in Openers |->
                      IF x \in Live /\ x \in RevokedByReset THEN "revoked" ELSE session[x]]
    /\ Goto(c, "done")
    /\ UNCHANGED <<user, seen, tokenVars, since, proved, streak>>

(* Faulty variant: whoever holds a link may sign in.                       *)
AccountOpenAlways == TRUE

AccountOpen == ~user.closed

(* issueSessionForUserId.                                                  *)
ReadAccountOfLink(c) ==
    /\ pc[c] = "account"
    /\ Goto(c, IF AccountOpen THEN "clear" ELSE "refused")
    /\ UNCHANGED sessionVars

-------------------------------------------------------------------------------
(* The second factor, for a user who is signed in.                         *)

SetupTotp(c) ==
    /\ ~user.closed
    /\ Begin(c, IF user.enabled THEN "refused" ELSE "write")
    /\ UNCHANGED sessionVars

ProvisionSecret(c) ==
    /\ pc[c] = "write"
    /\ user' = [user EXCEPT !.secret = c, !.enabled = FALSE]
    /\ Goto(c, "done")
    /\ UNCHANGED <<seen, tokenVars, session, since, proved, streak>>

(* Faulty variant: the code is not verified.                               *)
EnableTotpUnverified(c) ==
    /\ ~user.closed
    /\ Begin(c, IF user.secret # "none" /\ ~user.enabled THEN "write" ELSE "refused")
    /\ UNCHANGED sessionVars

(* enableTotp with a code of the secret it reads; any other is refused.    *)
EnableTotp(c) ==
    /\ ~user.closed
    /\ IF user.secret # "none" /\ ~user.enabled
       THEN Begin(c, "write") /\ proved' = proved \cup {user.secret}
       ELSE Begin(c, "refused") /\ UNCHANGED proved
    /\ UNCHANGED <<user, seen, tokenVars, session, since, streak>>

WriteEnabled(c) ==
    /\ pc[c] = "write"
    /\ user' = [user EXCEPT !.enabled = TRUE]
    /\ Goto(c, "done")
    /\ UNCHANGED <<seen, tokenVars, session, since, proved, streak>>

(* disableTotp, with the right password.                                   *)
DisableTotp(c) ==
    /\ ~user.closed
    /\ Begin(c, CASE ~user.enabled -> "done"
                  [] user.enabled /\ user.password = "none" -> "refused"
                  [] user.enabled /\ user.password # "none" -> "write")
    /\ UNCHANGED sessionVars

WriteDisabled(c) ==
    /\ pc[c] = "write"
    /\ user' = [user EXCEPT !.secret = "none", !.enabled = FALSE]
    /\ Goto(c, "done")
    /\ UNCHANGED <<seen, tokenVars, session, since, proved, streak>>

-------------------------------------------------------------------------------
(* deleteAccount, with the right password.                                 *)
AskToClose(c) ==
    /\ Begin(c, IF user.closed THEN "done" ELSE IF user.password = "none" THEN "refused"
                ELSE "write")
    /\ UNCHANGED sessionVars

(* Its transaction; magic links are not deleted.                           *)
CloseAccount(c) ==
    /\ pc[c] = "write"
    /\ user' = [user EXCEPT !.closed = TRUE, !.password = "none",
                            !.secret = "none", !.enabled = FALSE]
    /\ token' = [k \in Tokens |->
                    IF Kind[k] # "link" /\ token[k] # "none" THEN "deleted" ELSE token[k]]
    /\ session' = [x \in Openers |-> IF session[x] = "none" THEN "none" ELSE "deleted"]
    /\ Goto(c, "done")
    /\ UNCHANGED <<seen, using, winners, since, proved, streak>>

AccountCutShort(c) == CutShort(c) /\ UNCHANGED sessionVars

SessionsNext ==
    \/ \E c \in Signins :
        \/ ReadAccount(c) \/ WrongPassword(c) \/ RightPassword(c)
        \/ SecondRequest(c) \/ RightCode(c) \/ WrongCode(c)
    \/ \E c \in Openers : ClearLockout(c) \/ OpenSession(c)
    \/ \E c \in Issues, k \in Tokens : IssueToken(c, k)
    \/ \E c \in Uses, k \in Tokens : ReadToken(c, k)
    \/ \E c \in Uses :
        \/ BurnToken(c) \/ WriteUser(c) \/ GrantAccess(c) \/ SpoilResets(c)
        \/ RevokeSessions(c) \/ ReadAccountOfLink(c)
    \/ \E c \in Setups : SetupTotp(c) \/ ProvisionSecret(c)
    \/ \E c \in Enables : EnableTotp(c) \/ WriteEnabled(c)
    \/ \E c \in Disables : DisableTotp(c) \/ WriteDisabled(c)
    \/ \E c \in Closes : AskToClose(c) \/ CloseAccount(c)
    \/ \E c \in LogOuts : LogOut(c)
    \/ \E c \in AccountCalls : AccountCutShort(c)
    \/ LockoutPasses

-------------------------------------------------------------------------------
(* However many requests present a token at once, one of them burns it,    *)
(* and nobody else sets a password or opens a session by it.               *)
TokensUsedOnce ==
    /\ \A k \in Tokens : Cardinality(winners[k]) <= 1
    /\ \A c \in Uses : session[c] # "none" \/ user.password = c => c \in winners[using[c]]

(* When a reset has ended, no session from before it is live, as long as   *)
(* no sign-in was under way meanwhile and the reset did not die halfway.   *)
ResetRevokes ==
    Undisturbed /\ Busy = {} => \A c \in Live : since[c] = user.password

(* A closed account stays closed: whoever still holds a link, a code or a  *)
(* token gets no session by it, unless his request was under way.          *)
ClosedIsFinal ==
    user.closed /\ ~overlapped =>
        /\ \A c \in Openers : session[c] # "live"
        /\ user.password = "none"
        /\ \A k \in Tokens : token[k] = "fresh" => Kind[k] = "link"

(* Sign-ins one after the other lock the account at every LockAfter-th     *)
(* wrong password in a row; at once, they may count one failure for many.  *)
LockoutCounts ==
    ~overlapped =>
        /\ user.failed = streak % LockAfter
        /\ user.locked => streak > 0 /\ user.failed = 0

(* Two-factor sign-in is never on for a secret that the user has not shown *)
(* a code of, unless another setup ran between the check and the write.    *)
EnrolledSecretWasShown ==
    user.enabled /\ ~overlapped => user.secret \in proved

(* While it is on, a password alone opens no session, unless it was        *)
(* switched on while the sign-in was under way.                            *)
SecondFactorAsked ==
    [][\A c \in Signins :
        session'[c] = "live" /\ session[c] # "live" /\ user.enabled /\ ~overlapped
            => c \in proved]_sessionVars
================================================================================
