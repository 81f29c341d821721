----------------------------- MODULE AccountsProofs -----------------------------
(***************************************************************************)
(* What the parts of Accounts keep, for any number of users, rows and      *)
(* requests at once, cut short at any point: one-time tokens, identities   *)
(* and admissions are used once; screens, pages, browser, app and push     *)
(* show whom and what they should; grants and keys serve within what was   *)
(* granted; teams, consoles, sign-ups and sessions keep their order.       *)
(***************************************************************************)
EXTENDS Accounts, FiniteSetTheorems, TLAPS

(* A step is made for one part; the rows of the other parts stay.          *)
StepOf(i) ==
    /\ Only(Parts[i]) /\ Only(Parts[i])'
    /\ IF i = 1 THEN TeamNext ELSE UNCHANGED teamVars
    /\ IF i = 2 THEN SessionsNext ELSE UNCHANGED sessionVars
    /\ IF i = 3 THEN SignUpsNext ELSE UNCHANGED signUpVars
    /\ IF i = 4 THEN OrganizersNext ELSE UNCHANGED organizerVars
    /\ IF i = 5 THEN DevicesNext ELSE UNCHANGED deviceVars
    /\ IF i = 6 THEN WebPushNext ELSE UNCHANGED webPushVars
    /\ IF i = 7 THEN ScreensNext ELSE UNCHANGED screenVars
    /\ IF i = 8 THEN PagesNext ELSE UNCHANGED pageVars
    /\ IF i = 9 THEN PartnersNext ELSE UNCHANGED partnerVars
    /\ IF i = 10 THEN BrowserNext ELSE UNCHANGED browserVars
    /\ IF i = 11 THEN IdentityNext ELSE UNCHANGED identityVars

LEMMA PartsByNumber ==
    /\ Parts[1] = TeamPart /\ Parts[2] = AccountCalls /\ Parts[3] = SignUpPart
    /\ Parts[4] = ConsolePart /\ Parts[5] = DevicePart /\ Parts[6] = Toggles
    /\ Parts[7] = Scans /\ Parts[8] = Acts /\ Parts[9] = PartnerCalls
    /\ Parts[10] = BrowserCalls /\ Parts[11] = IdentityPart
    BY DEF Parts

LEMMA StepsOfParts ==
    ASSUME Next
    PROVE  \E i \in 1..11 : StepOf(i)
<1>1. StepOf(1) \/ StepOf(2) \/ StepOf(3) \/ StepOf(4) \/ StepOf(5) \/ StepOf(6) \/ StepOf(7)
        \/ StepOf(8) \/ StepOf(9) \/ StepOf(10) \/ StepOf(11)
    BY PartsByNumber DEF Next, StepOf
<1> QED
    BY <1>1

(* While one part acts, no call of another is under way.                   *)
LEMMA OthersAreIdle ==
    ASSUME NEW i \in 1..11, NEW j \in 1..11, i # j, StepOf(i)
    PROVE  \A c \in Parts[j] \cap Calls : pc[c] = "idle" /\ pc'[c] = "idle"
<1>1. Parts[i] \cap Parts[j] = {}
    BY AccountsAssumption
<1> QED
    BY <1>1 DEF StepOf, Only, Started

-------------------------------------------------------------------------------
(* Failures are counted and never forgotten, and neither is an overlap.    *)

FailuresGrow ==
    \/ failures' = failures
    \/ failures < MaxFailures /\ failures' = failures + 1
OverlapStays ==
    /\ overlapped => overlapped'
    /\ overlapped \in BOOLEAN => overlapped' \in BOOLEAN
OverlapNoted == overlapped' = overlapped \/ overlapped' = (overlapped \/ Busy # {})

LEMMA OverlapKept == OverlapNoted => OverlapStays
<1> SUFFICES ASSUME OverlapNoted PROVE OverlapStays
    OBVIOUS
<1>1. CASE overlapped' = overlapped
    BY <1>1 DEF OverlapStays
<1>2. CASE overlapped' = (overlapped \/ Busy # {})
    <2>1. (overlapped \/ Busy # {}) \in BOOLEAN
        BY Zenon
    <2> QED
        BY <1>2, <2>1 DEF OverlapStays
<1> QED
    BY <1>1, <1>2 DEF OverlapNoted

LEMMA FailuresOfTeam == ASSUME TeamNext PROVE FailuresGrow
BY DEF FailuresGrow, Begin, Goto, CutShort, requestVars, TeamNext,
       Advance, AssertOwner, FindInvitee, CreateMember, FindMember,
       CountOwners, UpdateRole, DeleteMember, AskToLeave, Leave,
       TeamCutShort

LEMMA OverlapOfTeam == ASSUME TeamNext PROVE OverlapStays
<1>1. OverlapNoted
    BY DEF OverlapNoted, Begin, Goto, CutShort, requestVars, TeamNext,
           Advance, AssertOwner, FindInvitee, CreateMember, FindMember,
           CountOwners, UpdateRole, DeleteMember, AskToLeave, Leave,
           TeamCutShort
<1> QED
    BY <1>1, OverlapKept

LEMMA FailuresOfSessions == ASSUME SessionsNext PROVE FailuresGrow
BY DEF FailuresGrow, Begin, Goto, CutShort, requestVars, SessionsNext,
       ReadAccount, WrongPassword, RightPassword, SecondRequest,
       RightCode, WrongCode, ClearLockout, OpenSession, IssueToken,
       ReadToken, BurnToken, WriteUser, GrantAccess, SpoilResets,
       RevokeSessions, ReadAccountOfLink, SetupTotp, ProvisionSecret,
       EnableTotp, WriteEnabled, DisableTotp, WriteDisabled, AskToClose,
       CloseAccount, LogOut, AccountCutShort, LockoutPasses

LEMMA OverlapOfSessions == ASSUME SessionsNext PROVE OverlapStays
<1>1. OverlapNoted
    BY DEF OverlapNoted, Begin, Goto, CutShort, requestVars, SessionsNext,
           ReadAccount, WrongPassword, RightPassword, SecondRequest,
           RightCode, WrongCode, ClearLockout, OpenSession, IssueToken,
           ReadToken, BurnToken, WriteUser, GrantAccess, SpoilResets,
           RevokeSessions, ReadAccountOfLink, SetupTotp, ProvisionSecret,
           EnableTotp, WriteEnabled, DisableTotp, WriteDisabled, AskToClose,
           CloseAccount, LogOut, AccountCutShort, LockoutPasses
<1> QED
    BY <1>1, OverlapKept

LEMMA FailuresOfSignUps == ASSUME SignUpsNext PROVE FailuresGrow
BY DEF FailuresGrow, Begin, Goto, CutShort, requestVars, SignUpsNext,
       ReadExisting, FindIdentity, WriteAccount, RecordReferral,
       AnswerSignUp, FindByEmail, LinkIdentity, SignUpCutShort

LEMMA OverlapOfSignUps == ASSUME SignUpsNext PROVE OverlapStays
<1>1. OverlapNoted
    BY DEF OverlapNoted, Begin, Goto, CutShort, requestVars, SignUpsNext,
           ReadExisting, FindIdentity, WriteAccount, RecordReferral,
           AnswerSignUp, FindByEmail, LinkIdentity, SignUpCutShort
<1> QED
    BY <1>1, OverlapKept

LEMMA FailuresOfOrganizers == ASSUME OrganizersNext PROVE FailuresGrow
BY DEF FailuresGrow, Begin, Goto, CutShort, requestVars, OrganizersNext,
       Approve, Suspend, SetCommission, AskToPublish, Publish, ReadEventToEdit,
       UpdateEvent, ReadEventToStream, SetStream, CreateSubaccount,
       StoreBankDetails, ConsoleCutShort

LEMMA OverlapOfOrganizers == ASSUME OrganizersNext PROVE OverlapStays
<1>1. OverlapNoted
    BY DEF OverlapNoted, Begin, Goto, CutShort, requestVars, OrganizersNext,
           Approve, Suspend, SetCommission, AskToPublish, Publish, ReadEventToEdit,
           UpdateEvent, ReadEventToStream, SetStream, CreateSubaccount,
           StoreBankDetails, ConsoleCutShort
<1> QED
    BY <1>1, OverlapKept

LEMMA FailuresOfDevices == ASSUME DevicesNext PROVE FailuresGrow
BY DEF FailuresGrow, Begin, Goto, CutShort, requestVars, DevicesNext,
       GetFcmToken, DeviceCutShort, SignIn, RegisterDevice,
       ListenForRefresh, SignOut, UnregisterDevice, UnregisterFails,
       ClearSession, RotateToken, RegisterRefreshed, DropStaleDevice

LEMMA OverlapOfDevices == ASSUME DevicesNext PROVE OverlapStays
<1>1. OverlapNoted
    BY DEF OverlapNoted, Begin, Goto, CutShort, requestVars, DevicesNext,
           GetFcmToken, DeviceCutShort, SignIn, RegisterDevice,
           ListenForRefresh, SignOut, UnregisterDevice, UnregisterFails,
           ClearSession, RotateToken, RegisterRefreshed, DropStaleDevice
<1> QED
    BY <1>1, OverlapKept

LEMMA FailuresOfWebPush == ASSUME WebPushNext PROVE FailuresGrow
BY DEF FailuresGrow, Begin, Goto, CutShort, requestVars, WebPushNext,
       PressToggle, ReloadTab, AnswerPermission, Subscribe,
       RegisterBrowser, Unsubscribe, UnregisterBrowser, ToggleFails,
       SwitchUser, DropBrowser

LEMMA OverlapOfWebPush == ASSUME WebPushNext PROVE OverlapStays
<1>1. OverlapNoted
    BY DEF OverlapNoted, Begin, Goto, CutShort, requestVars, WebPushNext,
           PressToggle, ReloadTab, AnswerPermission, Subscribe,
           RegisterBrowser, Unsubscribe, UnregisterBrowser, ToggleFails,
           SwitchUser, DropBrowser
<1> QED
    BY <1>1, OverlapKept

LEMMA FailuresOfScreens == ASSUME ScreensNext PROVE FailuresGrow
BY DEF FailuresGrow, Begin, Goto, CutShort, requestVars, ScreensNext,
       DetectCode, ReadTicket, ScanTicket, ShowOutcome, ScanLost, VoidTicket,
       LosesRole

LEMMA OverlapOfScreens == ASSUME ScreensNext PROVE OverlapStays
<1>1. OverlapNoted
    BY DEF OverlapNoted, Begin, Goto, CutShort, requestVars, ScreensNext,
           DetectCode, ReadTicket, ScanTicket, ShowOutcome, ScanLost, VoidTicket,
       LosesRole
<1> QED
    BY <1>1, OverlapKept

LEMMA FailuresOfPages == ASSUME PagesNext PROVE FailuresGrow
BY DEF FailuresGrow, Begin, Goto, CutShort, requestVars, PagesNext, Press,
       PressInvalid, PerformAct, RefuseAct, AskForList, ReadRows,
       ShowRows, Succeed, FailAct

LEMMA OverlapOfPages == ASSUME PagesNext PROVE OverlapStays
<1>1. OverlapNoted
    BY DEF OverlapNoted, Begin, Goto, CutShort, requestVars, PagesNext, Press,
           PressInvalid, PerformAct, RefuseAct, AskForList, ReadRows,
           ShowRows, Succeed, FailAct
<1> QED
    BY <1>1, OverlapKept

LEMMA FailuresOfPartners == ASSUME PartnersNext PROVE FailuresGrow
BY DEF FailuresGrow, Begin, Goto, CutShort, requestVars, PartnersNext,
       Register, CreateClient, RevokeClient, AskToRevoke, Grant,
       ReadClientToGrant, IssueCode, Exchange, ReadClientToExchange,
       ReadCode, BurnCode, IssueUserToken, AskToken, ReadClientToIssue,
       IssueClientToken, VerifyToken, CallWithToken, AskForKey, CreateKey,
       RevokeKey, AskToRevokeKey, ResolveKey, TouchKey, CallWithKey,
       PartnerCutShort, Expire, MinutePasses

LEMMA OverlapOfPartners == ASSUME PartnersNext PROVE OverlapStays
<1>1. OverlapNoted
    BY DEF OverlapNoted, Begin, Goto, CutShort, requestVars, PartnersNext,
           Register, CreateClient, RevokeClient, AskToRevoke, Grant,
           ReadClientToGrant, IssueCode, Exchange, ReadClientToExchange,
           ReadCode, BurnCode, IssueUserToken, AskToken, ReadClientToIssue,
           IssueClientToken, VerifyToken, CallWithToken, AskForKey, CreateKey,
           RevokeKey, AskToRevokeKey, ResolveKey, TouchKey, CallWithKey,
           PartnerCutShort, Expire, MinutePasses
<1> QED
    BY <1>1, OverlapKept

LEMMA FailuresOfBrowser == ASSUME BrowserNext PROVE FailuresGrow
BY DEF FailuresGrow, Begin, Goto, CutShort, requestVars, BrowserNext,
       OpenWindow, Change, SendAs, ChangeElsewhere, ChangeHere,
       HearStorage, ShowPage, PressOnPage, ShowData, TurnAway, ActDone,
       ActRefused, PageCallFails, Follow, CheckOk, CheckFails

LEMMA OverlapOfBrowser == ASSUME BrowserNext PROVE OverlapStays
<1>1. OverlapNoted
    BY DEF OverlapNoted, Begin, Goto, CutShort, requestVars, BrowserNext,
           OpenWindow, Change, SendAs, ChangeElsewhere, ChangeHere,
           HearStorage, ShowPage, PressOnPage, ShowData, TurnAway, ActDone,
           ActRefused, PageCallFails, Follow, CheckOk, CheckFails
<1> QED
    BY <1>1, OverlapKept

LEMMA FailuresOfIdentity == ASSUME IdentityNext PROVE FailuresGrow
BY DEF FailuresGrow, Begin, Goto, CutShort, requestVars, IdentityNext,
       LogIn, LogOff, DeviceForgotten, PutToken, PutEmail, PutName,
       Remember, Relaunch

LEMMA OverlapOfIdentity == ASSUME IdentityNext PROVE OverlapStays
<1>1. OverlapNoted
    BY DEF OverlapNoted, Begin, Goto, CutShort, requestVars, IdentityNext,
           LogIn, LogOff, DeviceForgotten, PutToken, PutEmail, PutName,
           Remember, Relaunch
<1> QED
    BY <1>1, OverlapKept

LEMMA CountersStep ==
    ASSUME [Next]_vars
    PROVE  FailuresGrow /\ OverlapStays
<1>1. CASE UNCHANGED vars
    BY <1>1 DEF vars, requestVars, FailuresGrow, OverlapStays
<1>2. CASE Next
    BY <1>2, FailuresOfTeam, OverlapOfTeam, FailuresOfSessions, OverlapOfSessions,
       FailuresOfSignUps, OverlapOfSignUps, FailuresOfOrganizers, OverlapOfOrganizers,
       FailuresOfDevices, OverlapOfDevices, FailuresOfWebPush, OverlapOfWebPush,
       FailuresOfScreens, OverlapOfScreens, FailuresOfPages, OverlapOfPages,
       FailuresOfPartners, OverlapOfPartners, FailuresOfBrowser, OverlapOfBrowser,
       FailuresOfIdentity, OverlapOfIdentity
       DEF Next
<1> QED
    BY <1>1, <1>2

-------------------------------------------------------------------------------
(* One-time tokens.                                                        *)

(* Steps that a request comes to only by burning its token.                *)
AfterBurn == {"effect", "spoil", "revoke", "account", "clear", "open"}

(* A token that can still be burned was burned by nobody; who is past the  *)
(* burning, or has opened a session or set the password, is its winner.    *)
TokenInv ==
    /\ DOMAIN user = DOMAIN NewUser
    /\ DOMAIN token = Tokens /\ DOMAIN using = Uses /\ DOMAIN session = Openers
    /\ winners \in [Tokens -> SUBSET Uses]
    /\ \A k \in Tokens :
        /\ token[k] \in {"none", "fresh"} => winners[k] = {}
        /\ \A c, d \in winners[k] : c = d
    /\ \A c \in Uses :
        /\ pc[c] = "burn" \/ pc[c] \in AfterBurn => using[c] \in Tokens
        /\ pc[c] \in AfterBurn \/ session[c] # "none" \/ user.password = c
               => c \in winners[using[c]]
        /\ pc[c] = "idle" => session[c] = "none" /\ user.password # c

LEMMA TokenInit == Init => TokenInv
<1> SUFFICES ASSUME Init PROVE TokenInv
    OBVIOUS
<1>1. \A c \in Uses : pc[c] = "idle" /\ session[c] = "none" /\ user.password # c
    BY SessionsAssumption DEF Init, RequestsInit, SessionsInit, AccountCalls, Openers, NewUser
<1> QED
    BY <1>1 DEF Init, SessionsInit, TokenInv, AfterBurn

LEMMA TokenStep ==
    ASSUME TokenInv, SessionsNext
    PROVE  TokenInv'
<1> USE SessionsAssumption
    DEF TokenInv, AfterBurn, Openers, AccountCalls, Begin, Goto, CutShort, MovesTo,
        sessionVars, tokenVars, NewUser
<1>1. ASSUME NEW c \in Signins,
             \/ ReadAccount(c) \/ RightPassword(c) \/ SecondRequest(c) \/ RightCode(c)
             \/ WrongCode(c)
      PROVE  TokenInv'
    BY <1>1 DEF ReadAccount, RightPassword, SecondRequest, RightCode, WrongCode
<1>2. ASSUME NEW c \in Signins, WrongPassword(c) PROVE TokenInv'
    BY <1>2 DEF WrongPassword
<1>3. ASSUME NEW c \in Openers, ClearLockout(c) PROVE TokenInv'
    BY <1>3 DEF ClearLockout
<1>4. ASSUME NEW c \in Openers, OpenSession(c) PROVE TokenInv'
    BY <1>4 DEF OpenSession
<1>5. ASSUME NEW c \in Issues, NEW k \in Tokens, IssueToken(c, k) PROVE TokenInv'
    BY <1>5 DEF IssueToken
<1>6. ASSUME NEW c \in Uses, NEW k \in Tokens, ReadToken(c, k) PROVE TokenInv'
    BY <1>6 DEF ReadToken
<1>7. ASSUME NEW c \in Uses, BurnToken(c) PROVE TokenInv'
    <2>1. c \in Calls /\ using[c] \in Tokens
        BY <1>7 DEF BurnToken
    <2>2. CASE Burnable(using[c])
        <3> DEFINE k == using[c]
        <3>1. /\ token' = [token EXCEPT ![k] = "used"]
              /\ winners' = [winners EXCEPT ![k] = winners[k] \cup {c}]
              /\ winners[k] = {}
              /\ UNCHANGED <<user, using, session>>
              /\ \A d \in Calls : pc'[d] = IF d = c THEN "effect" ELSE pc[d]
            BY <1>7, <2>1, <2>2 DEF BurnToken, Burnable
        <3>2. /\ DOMAIN token' = Tokens /\ winners' \in [Tokens -> SUBSET Uses]
              /\ token'[k] = "used" /\ winners'[k] = {c}
              /\ \A j \in Tokens : j # k => token'[j] = token[j] /\ winners'[j] = winners[j]
            BY <2>1, <3>1
        <3>3. \A j \in Tokens :
                  /\ token'[j] \in {"none", "fresh"} => winners'[j] = {}
                  /\ \A d, e \in winners'[j] : d = e
            BY <3>2
        <3>4. \A d \in Uses :
                  /\ pc'[d] = "burn" \/ pc'[d] \in AfterBurn => using'[d] \in Tokens
                  /\ pc'[d] \in AfterBurn \/ session'[d] # "none" \/ user'.password = d
                         => d \in winners'[using'[d]]
                  /\ pc'[d] = "idle" => session'[d] = "none" /\ user'.password # d
            BY <2>1, <3>1, <3>2
        <3> QED
            BY <3>1, <3>2, <3>3, <3>4
    <2>3. CASE ~Burnable(using[c])
        BY <1>7, <2>1, <2>3 DEF BurnToken
    <2> QED
        BY <2>2, <2>3
<1>8. ASSUME NEW c \in Uses, WriteUser(c) PROVE TokenInv'
    <2>1. c \in winners[using[c]] /\ using[c] \in Tokens
        BY <1>8 DEF WriteUser
    <2>2. pc'[c] \in {"done", "spoil", "account"}
        BY <1>8, <2>1 DEF WriteUser, IsToken
    <2>3. DOMAIN user' = DOMAIN user /\ user'.password \in {user.password, c}
        BY <1>8 DEF WriteUser
    <2> QED
        <3>1. UNCHANGED <<token, using, winners, session>>
            BY <1>8 DEF WriteUser
        <3>2. \A d \in Calls : d # c => pc'[d] = pc[d]
            BY <1>8 DEF WriteUser
        <3> QED
            BY <2>1, <2>2, <2>3, <3>1, <3>2
<1>9. ASSUME NEW c \in Uses, GrantAccess(c) PROVE TokenInv'
    BY <1>9 DEF GrantAccess
<1>10. ASSUME NEW c \in Uses, SpoilResets(c) PROVE TokenInv'
    BY <1>10 DEF SpoilResets
<1>11. ASSUME NEW c \in Uses, RevokeSessions(c) PROVE TokenInv'
    BY <1>11 DEF RevokeSessions, Live
<1>12. ASSUME NEW c \in Uses, ReadAccountOfLink(c) PROVE TokenInv'
    BY <1>12 DEF ReadAccountOfLink
<1>13. ASSUME NEW c \in Setups, SetupTotp(c) PROVE TokenInv'
    BY <1>13 DEF SetupTotp
<1>21. ASSUME NEW c \in Setups, ProvisionSecret(c) PROVE TokenInv'
    <2>1. DOMAIN user' = DOMAIN user /\ user'.password = user.password
        BY <1>21 DEF ProvisionSecret
    <2> QED
        BY <1>21, <2>1 DEF ProvisionSecret
<1>14. ASSUME NEW c \in Enables, EnableTotp(c) \/ WriteEnabled(c) PROVE TokenInv'
    BY <1>14 DEF EnableTotp, WriteEnabled
<1>15. ASSUME NEW c \in Disables, DisableTotp(c) PROVE TokenInv'
    BY <1>15 DEF DisableTotp
<1>22. ASSUME NEW c \in Disables, WriteDisabled(c) PROVE TokenInv'
    <2>1. DOMAIN user' = DOMAIN user /\ user'.password = user.password
        BY <1>22 DEF WriteDisabled
    <2> QED
        BY <1>22, <2>1 DEF WriteDisabled
<1>16. ASSUME NEW c \in Closes, AskToClose(c) PROVE TokenInv'
    BY <1>16 DEF AskToClose
<1>17. ASSUME NEW c \in Closes, CloseAccount(c) PROVE TokenInv'
    BY <1>17 DEF CloseAccount
<1>18. ASSUME NEW c \in LogOuts, LogOut(c) PROVE TokenInv'
    BY <1>18 DEF LogOut, Live
<1>19. ASSUME NEW c \in AccountCalls, AccountCutShort(c) PROVE TokenInv'
    BY <1>19 DEF AccountCutShort, Busy, Started
<1>20. ASSUME LockoutPasses PROVE TokenInv'
    BY <1>20 DEF LockoutPasses, requestVars
<1> QED
    BY <1>1, <1>2, <1>3, <1>4, <1>5, <1>6, <1>7, <1>8, <1>9, <1>10, <1>11, <1>12, <1>13,
       <1>14, <1>15, <1>16, <1>17, <1>18, <1>19, <1>20, <1>21, <1>22 DEF SessionsNext

LEMMA TokenInductive == TokenInv /\ [Next]_vars => TokenInv'
<1> SUFFICES ASSUME TokenInv, [Next]_vars PROVE TokenInv'
    OBVIOUS
<1>1. CASE UNCHANGED vars
    BY <1>1 DEF TokenInv, vars, sessionVars, tokenVars, requestVars
<1>2. CASE Next
    <2>1. PICK i \in 1..11 : StepOf(i)
        BY <1>2, StepsOfParts
    <2>2. CASE i = 2
        BY <2>1, <2>2, TokenStep DEF StepOf
    <2>3. CASE i # 2
        <3>1. \A c \in Uses : pc[c] = "idle" /\ pc'[c] = "idle"
            <4>1. Uses \subseteq Parts[2] \cap Calls
                BY PartsByNumber, SessionsAssumption DEF AccountCalls, Openers
            <4> QED
                BY <2>1, <2>3, <4>1, OthersAreIdle
        <3>2. UNCHANGED sessionVars
            BY <2>1, <2>3 DEF StepOf
        <3> QED
            BY <3>1, <3>2 DEF TokenInv, AfterBurn, sessionVars, tokenVars
    <2> QED
        BY <2>2, <2>3
<1> QED
    BY <1>1, <1>2

(* A set in which any two are the same has at most one member.             *)
LEMMA AtMostOne ==
    ASSUME NEW S, \A c, d \in S : c = d
    PROVE  Cardinality(S) <= 1
<1>1. CASE S = {}
    BY <1>1, FS_EmptySet
<1>2. CASE S # {}
    <2>1. PICK c \in S : TRUE
        BY <1>2
    <2>2. S = {c} /\ Cardinality({c}) = 1
        BY <2>1, FS_Singleton
    <2> QED
        BY <2>2
<1> QED
    BY <1>1, <1>2

(* The conditional UPDATE of confirmEmail, confirmPasswordReset, confirm   *)
(* and exchangeCode makes a token good for one request however many race,  *)
(* and nothing comes of the others.                                        *)
THEOREM TokensOnce == Spec => []TokensUsedOnce
<1>1. TokenInv => TokensUsedOnce
    BY AtMostOne DEF TokenInv, TokensUsedOnce
<1> QED
    BY <1>1, TokenInit, TokenInductive, PTL DEF Spec

-------------------------------------------------------------------------------
(* Identities of Google and Apple.                                         *)

LEMMA NextIsUnused ==
    ASSUME NEW S, Unused(S) # {}
    PROVE  NextOf(S) \in S /\ pc[NextOf(S)] = "idle"
<1>1. \E c \in S : pc[c] = "idle"
    BY DEF Unused
<1> QED
    BY <1>1 DEF NextOf

(* An identity is linked to a user that exists, and whoever was answered   *)
(* got that user.                                                          *)
IdentityInv ==
    /\ DOMAIN linked = Identities /\ DOMAIN answered = SocialCalls
    /\ DOMAIN claim = SignUpCalls \cup SocialCalls
    /\ Unset \notin users
    /\ \A i \in Identities : linked[i] # Unset => linked[i] \in users
    /\ \A c \in SocialCalls :
        /\ pc[c] \in {"email", "link", "create", "done"} => claim[c].identity \in Identities
        /\ pc[c] = "done" => answered[c] = linked[claim[c].identity] /\ answered[c] \in users

LEMMA IdentityInvInit == Init => IdentityInv
<1> SUFFICES ASSUME Init PROVE IdentityInv
    OBVIOUS
<1>1. \A c \in SocialCalls : pc[c] = "idle"
    BY SignUpsAssumption DEF Init, RequestsInit
<1> QED
    BY <1>1 DEF Init, SignUpsInit, IdentityInv

LEMMA IdentityStep ==
    ASSUME IdentityInv, SignUpsNext
    PROVE  IdentityInv'
<1> USE SignUpsAssumption DEF IdentityInv, Begin, Goto, CutShort, MovesTo, signUpVars
<1>1. ASSUME ReadExisting PROVE IdentityInv'
    <2>1. NextOf(SignUpCalls) \in SignUpCalls
        BY <1>1, NextIsUnused DEF ReadExisting
    <2>2. UNCHANGED <<users, linked, answered>> /\ DOMAIN claim' = DOMAIN claim
        BY <1>1 DEF ReadExisting
    <2>3. \A c \in SocialCalls : claim'[c] = claim[c] /\ pc'[c] = pc[c]
        BY <1>1, <2>1 DEF ReadExisting
    <2> QED
        BY <2>2, <2>3
<1>2. ASSUME FindIdentity PROVE IdentityInv'
    <2> DEFINE c == NextOf(SocialCalls)
    <2>1. c \in SocialCalls /\ c \in Calls
        BY <1>2, NextIsUnused DEF FindIdentity
    <2> HIDE DEF c, Begin
    <2>2. PICK i \in Identities, told \in BOOLEAN :
              /\ Begin(c, CASE linked[i] # Unset -> "done"
                            [] linked[i] = Unset /\ told -> "email"
                            [] linked[i] = Unset /\ ~told -> "create")
              /\ claim' = [claim EXCEPT ![c] = [identity |-> i, told |-> told]]
              /\ answered' = [answered EXCEPT ![c] = linked[i]]
              /\ UNCHANGED <<users, passwordOf, referredBy, referral, linked>>
        BY <1>2 DEF FindIdentity, c
    <2>3. /\ \A d \in Calls : d # c => pc'[d] = pc[d]
          /\ linked[i] = Unset => pc'[c] # "done"
          /\ claim' = [claim EXCEPT ![c] = [identity |-> i, told |-> told]]
          /\ answered' = [answered EXCEPT ![c] = linked[i]]
          /\ UNCHANGED <<users, linked>>
        BY <2>1, <2>2 DEF Begin
    <2>4. \A d \in SocialCalls \ {c} :
              claim'[d] = claim[d] /\ answered'[d] = answered[d] /\ pc'[d] = pc[d]
        BY <2>3
    <2>5. claim'[c].identity = i /\ answered'[c] = linked[i]
        BY <2>1, <2>3
    <2>6. pc'[c] = "done" => linked[i] # Unset
        BY <2>1, <2>3
    <2>7. DOMAIN claim' = DOMAIN claim /\ DOMAIN answered' = DOMAIN answered
        BY <2>3
    <2> QED
        BY <2>3, <2>4, <2>5, <2>6, <2>7
<1>3. ASSUME NEW c \in SignUpCalls, WriteAccount(c) PROVE IdentityInv'
    <2>1. users \subseteq users' /\ Unset \notin users' /\ UNCHANGED <<linked, claim, answered>>
        BY <1>3 DEF WriteAccount
    <2>2. \A d \in SocialCalls : pc'[d] = pc[d]
        BY <1>3 DEF WriteAccount
    <2> QED
        BY <2>1, <2>2
<1>4. ASSUME NEW c \in SignUpCalls, RecordReferral(c) \/ AnswerSignUp(c) PROVE IdentityInv'
    BY <1>4 DEF RecordReferral, AnswerSignUp
<1>5. ASSUME NEW c \in SocialCalls, FindByEmail(c) PROVE IdentityInv'
    BY <1>5 DEF FindByEmail
<1>6. ASSUME NEW c \in SocialCalls, LinkIdentity(c) PROVE IdentityInv'
    <2> DEFINE i == claim[c].identity
               u == UserOfClaim(c)
    <2>1. i \in Identities /\ u # Unset /\ c \in Calls
        BY <1>6 DEF LinkIdentity, UserOfClaim
    <2>2. CASE MayLink(i) /\ (pc[c] = "link" \/ u \notin users)
        <3>1. /\ linked' = [linked EXCEPT ![i] = u] /\ linked[i] = Unset
              /\ users' = users \cup {u}
              /\ answered' = [answered EXCEPT ![c] = u]
              /\ UNCHANGED claim
              /\ \A d \in Calls : pc'[d] = IF d = c THEN "done" ELSE pc[d]
            BY <1>6, <2>2 DEF LinkIdentity, MayLink
        <3>2. linked'[i] = u /\ \A j \in Identities \ {i} : linked'[j] = linked[j]
            BY <2>1, <3>1
        <3>3. \A d \in SocialCalls \ {c} : pc'[d] = "done" => claim[d].identity # i
            BY <3>1
        <3>4. answered'[c] = u /\ \A d \in SocialCalls \ {c} : answered'[d] = answered[d]
            BY <3>1
        <3> QED
            BY <2>1, <3>1, <3>2, <3>3, <3>4
    <2>3. CASE ~(MayLink(i) /\ (pc[c] = "link" \/ u \notin users))
        BY <1>6, <2>1, <2>3 DEF LinkIdentity
    <2> QED
        BY <2>2, <2>3
<1>7. ASSUME NEW c \in SignUpCalls \cup SocialCalls, SignUpCutShort(c) PROVE IdentityInv'
    BY <1>7 DEF SignUpCutShort
<1> QED
    BY <1>1, <1>2, <1>3, <1>4, <1>5, <1>6, <1>7 DEF SignUpsNext

LEMMA IdentityInductive == IdentityInv /\ [Next]_vars => IdentityInv'
<1> SUFFICES ASSUME IdentityInv, [Next]_vars PROVE IdentityInv'
    OBVIOUS
<1>1. CASE UNCHANGED vars
    BY <1>1 DEF IdentityInv, vars, signUpVars, requestVars
<1>2. CASE Next
    <2>1. PICK i \in 1..11 : StepOf(i)
        BY <1>2, StepsOfParts
    <2>2. CASE i = 3
        BY <2>1, <2>2, IdentityStep DEF StepOf
    <2>3. CASE i # 3
        <3>1. \A c \in SocialCalls : pc[c] = "idle" /\ pc'[c] = "idle"
            <4>1. SocialCalls \subseteq Parts[3] \cap Calls
                BY PartsByNumber, SignUpsAssumption DEF SignUpPart
            <4> QED
                BY <2>1, <2>3, <4>1, OthersAreIdle
        <3>2. UNCHANGED signUpVars
            BY <2>1, <2>3 DEF StepOf
        <3> QED
            BY <3>1, <3>2 DEF IdentityInv, signUpVars
    <2> QED
        BY <2>2, <2>3
<1> QED
    BY <1>1, <1>2

(* linkOrCreate: every sign-in with an identity that succeeded, raced or   *)
(* not, signed in the one user the identity is linked to.                  *)
THEOREM IdentitiesOnce == Spec => []OneUserPerIdentity
<1>1. IdentityInv => OneUserPerIdentity
    BY DEF IdentityInv, OneUserPerIdentity
<1> QED
    BY <1>1, IdentityInvInit, IdentityInductive, PTL DEF Spec

-------------------------------------------------------------------------------
(* Admissions at the door.                                                 *)

(* Code k was, or is to be, admitted by what request c was told.           *)
Admits(c, k) ==
    c \in admitted[k] \/ (pc[c] = "answer" /\ scan[c].says = "admit" /\ scan[c].code = k)

(* Code k is to be denied by what request c was told.                      *)
Denies(c, k) == pc[c] = "answer" /\ scan[c].says \in {"used", "voided"} /\ scan[c].code = k

(* One request is told to admit a code; a code that was admitted or denied *)
(* is that of a ticket which is not, or no longer, good; and what was read *)
(* as void is void.                                                        *)
AdmissionInv ==
    /\ admitted \in [Codes -> SUBSET Scans] /\ denied \subseteq Codes
    /\ status \in [Tickets -> Statuses]
    /\ DOMAIN scan = Scans /\ \A c \in Scans : DOMAIN scan[c] = DOMAIN NoScan
    /\ \A c \in Scans : pc[c] \in AtApi => scan[c].code \in Codes
    /\ \A c \in Scans : pc[c] = "claim" =>
        /\ scan[c].code \in Tickets
        /\ scan[c].read = "VOIDED" => status[scan[c].code] = "VOIDED"
    /\ \A k \in Codes, c \in Scans :
        Admits(c, k) \/ Denies(c, k) \/ k \in denied => k \in Tickets /\ status[k] # "ISSUED"
    /\ \A k \in Codes, c \in Scans, d \in Scans : Admits(c, k) /\ Admits(d, k) => c = d
    /\ \A k \in denied : k \in Tickets /\ status[k] # "ISSUED"

(* A ticket is not made good again, and a voided one stays so.             *)
TicketsKept ==
    \A k \in Tickets : /\ status[k] = "VOIDED" => status'[k] = "VOIDED"
                       /\ status[k] # "ISSUED" => status'[k] # "ISSUED"

LEMMA AdmissionInit == Init => AdmissionInv
<1> SUFFICES ASSUME Init PROVE AdmissionInv
    OBVIOUS
<1>1. \A c \in Scans : pc[c] = "idle"
    BY ScreensAssumption DEF Init, RequestsInit
<1> QED
    BY <1>1 DEF Init, ScreensInit, NoScan, AdmissionInv, Admits, Denies, AtApi, Statuses

(* What the steps do to the status of tickets.                             *)
LEMMA StatusStep ==
    ASSUME AdmissionInv, ScreensNext
    PROVE  TicketsKept /\ status' \in [Tickets -> Statuses]
<1>0. status \in [Tickets -> Statuses]
    BY DEF AdmissionInv
<1>1. ASSUME NEW c \in Scans, ScanTicket(c)
      PROVE  TicketsKept /\ status' \in [Tickets -> Statuses]
    <2> DEFINE k == scan[c].code
    <2>1. \/ status' = status
          \/ status[k] = "ISSUED" /\ status' = [status EXCEPT ![k] = "SCANNED"]
        BY <1>1 DEF ScanTicket, FirstScan
    <2> HIDE DEF k
    <2> QED
        BY <1>0, <2>1 DEF TicketsKept, Statuses
<1>2. ASSUME NEW k \in Tickets, VoidTicket(k)
      PROVE  TicketsKept /\ status' \in [Tickets -> Statuses]
    BY <1>0, <1>2 DEF VoidTicket, TicketsKept, Statuses
<1>3. ASSUME NEW c \in Scans, (\E s \in Scanners : DetectCode(c, s)) \/ ReadTicket(c)
                                \/ ShowOutcome(c) \/ ScanLost(c)
      PROVE  status' = status
    BY <1>3 DEF DetectCode, ReadTicket, ShowOutcome, ScanLost
<1>4. ASSUME NEW s \in Scanners, LosesRole(s) PROVE status' = status
    BY <1>4 DEF LosesRole
<1>5. status' = status => TicketsKept /\ status' \in [Tickets -> Statuses]
    BY <1>0 DEF TicketsKept
<1> QED
    BY <1>1, <1>2, <1>3, <1>4, <1>5 DEF ScreensNext

(* A step after which whoever is told to admit or deny was so before, or   *)
(* is a request c that is told it of a ticket that is no longer good.      *)
LEMMA AdmissionKept ==
    ASSUME AdmissionInv, TicketsKept, status' \in [Tickets -> Statuses],
           NEW c \in Scans,
           admitted' \in [Codes -> SUBSET Scans],
           DOMAIN scan' = Scans /\ \A d \in Scans : DOMAIN scan'[d] = DOMAIN NoScan,
           \A d \in Scans : pc'[d] \in AtApi => scan'[d].code \in Codes,
           \A d \in Scans : pc'[d] = "claim" =>
               /\ scan'[d].code \in Tickets
               /\ scan'[d].read = "VOIDED" => status'[scan'[d].code] = "VOIDED",
           \A d \in Scans, j \in Codes : Admits(d, j)' =>
               Admits(d, j) \/ (d = c /\ j \in Tickets /\ status[j] = "ISSUED"
                                /\ status'[j] # "ISSUED"),
           \A d \in Scans, j \in Codes : Denies(d, j)' =>
               Denies(d, j) \/ (j \in Tickets /\ status'[j] # "ISSUED"),
           denied' \subseteq denied \cup {j \in Codes : \E d \in Scans : Denies(d, j)}
    PROVE  AdmissionInv'
<1>1. \A j \in Codes : j \in Tickets /\ status[j] # "ISSUED" => status'[j] # "ISSUED"
    BY DEF TicketsKept
<1>2. \A k \in Codes, d \in Scans :
          /\ Admits(d, k) => k \in Tickets /\ status[k] # "ISSUED"
          /\ Denies(d, k) => k \in Tickets /\ status[k] # "ISSUED"
    BY DEF AdmissionInv
<1>3. \A k \in denied' : k \in Codes /\ k \in Tickets /\ status'[k] # "ISSUED"
    BY <1>1, <1>2 DEF AdmissionInv
<1>4. \A k \in Codes, d \in Scans :
          Admits(d, k)' \/ Denies(d, k)' \/ k \in denied' => k \in Tickets /\ status'[k] # "ISSUED"
    BY <1>1, <1>2, <1>3
<1>5. \A k \in Codes, d \in Scans, e \in Scans : Admits(d, k)' /\ Admits(e, k)' => d = e
    BY <1>2 DEF AdmissionInv
<1> QED
    BY <1>3, <1>4, <1>5 DEF AdmissionInv

LEMMA AdmissionStep ==
    ASSUME AdmissionInv, ScreensNext
    PROVE  AdmissionInv' /\ TicketsKept
<1>0. /\ TicketsKept /\ status' \in [Tickets -> Statuses]
      /\ admitted \in [Codes -> SUBSET Scans] /\ denied \subseteq Codes
      /\ DOMAIN scan = Scans /\ \A c \in Scans : DOMAIN scan[c] = DOMAIN NoScan
      /\ \A c \in Scans : pc[c] \in AtApi => scan[c].code \in Codes
      /\ \A c \in Scans : pc[c] = "claim" =>
            /\ scan[c].code \in Tickets
            /\ scan[c].read = "VOIDED" => status[scan[c].code] = "VOIDED"
    BY StatusStep DEF AdmissionInv
<1>k. \A d \in Scans : pc[d] = "claim" /\ scan[d].read = "VOIDED"
                          => status'[scan[d].code] = "VOIDED"
    BY <1>0 DEF TicketsKept
<1> USE ScreensAssumption DEF Begin, Goto, CutShort, MovesTo, screenVars, AtApi
<1>1. ASSUME NEW c \in Scans, NEW s \in Scanners, DetectCode(c, s) PROVE AdmissionInv'
    <2>1. PICK k \in Codes :
              /\ scan' = [scan EXCEPT ![c] = ScanOf(s, k)]
              /\ UNCHANGED <<status, admitted, denied>>
              /\ \A d \in Scans : pc'[d] = IF d = c THEN "server" ELSE pc[d]
        BY <1>1 DEF DetectCode
    <2>2. /\ scan'[c].code = k /\ DOMAIN scan' = Scans /\ DOMAIN scan'[c] = DOMAIN NoScan
          /\ \A d \in Scans \ {c} : scan'[d] = scan[d] /\ pc'[d] = pc[d]
          /\ pc'[c] = "server"
        BY <1>0, <2>1 DEF NoScan, ScanOf
    <2>3. \A d \in Scans, j \in Codes : /\ Admits(d, j)' => Admits(d, j)
                                        /\ Denies(d, j)' => Denies(d, j)
        BY <2>1, <2>2 DEF Admits, Denies
    <2> QED
        BY <1>0, <1>k, <2>1, <2>2, <2>3, AdmissionKept
<1>2. ASSUME NEW c \in Scans, ReadTicket(c) PROVE AdmissionInv'
    <2> DEFINE k == scan[c].code
    <2>1. /\ UNCHANGED <<status, admitted, denied>> /\ pc[c] = "server"
          /\ \A d \in Scans \ {c} : scan'[d] = scan[d] /\ pc'[d] = pc[d]
          /\ DOMAIN scan' = Scans /\ DOMAIN scan'[c] = DOMAIN NoScan /\ scan'[c].code = k
          /\ \/ pc'[c] = "claim" /\ k \in Tickets /\ scan'[c].read = status[k]
             \/ pc'[c] = "answer" /\ scan'[c].says = "error"
        BY <1>0, <1>2 DEF ReadTicket, NoScan
    <2>2. \A d \in Scans, j \in Codes : /\ Admits(d, j)' => Admits(d, j)
                                        /\ Denies(d, j)' => Denies(d, j)
        BY <2>1 DEF Admits, Denies
    <2> QED
        BY <1>0, <1>k, <2>1, <2>2, AdmissionKept
<1>3. ASSUME NEW c \in Scans, ScanTicket(c) PROVE AdmissionInv'
    <2> DEFINE k == scan[c].code
    <2>1. /\ UNCHANGED <<admitted, denied>> /\ pc[c] = "claim" /\ pc'[c] = "answer"
          /\ \A d \in Scans \ {c} : scan'[d] = scan[d] /\ pc'[d] = pc[d]
          /\ DOMAIN scan' = Scans /\ DOMAIN scan'[c] = DOMAIN NoScan /\ scan'[c].code = k
        BY <1>0, <1>3 DEF ScanTicket, NoScan
    <2>2. k \in Tickets /\ k \in Codes /\ (scan[c].read = "VOIDED" => status[k] = "VOIDED")
        BY <1>0, <2>1
    <2>3. scan'[c].says = IF Refusal(c) # "none" THEN Refusal(c)
                          ELSE IF Refusal(c) = "none" /\ FirstScan(c) THEN "admit" ELSE "used"
        BY <1>0, <1>3 DEF ScanTicket, NoScan
    <2>4. Refusal(c) # "admit" /\ Refusal(c) # "used"
          /\ (Refusal(c) = "voided" => scan[c].read = "VOIDED")
        BY DEF Refusal
    <2>5. scan'[c].says = "admit" => status[k] = "ISSUED" /\ status'[k] = "SCANNED"
        <3>1. scan'[c].says = "admit" => Refusal(c) = "none" /\ FirstScan(c)
            BY <2>3, <2>4
        <3>2. status \in [Tickets -> Statuses]
            BY DEF AdmissionInv
        <3> QED
            BY <1>3, <2>2, <3>1, <3>2 DEF ScanTicket, FirstScan
    <2>6. scan'[c].says \in {"used", "voided"} => status'[k] # "ISSUED"
        <3>1. scan'[c].says = "used" => status[k] # "ISSUED"
            BY <2>3, <2>4 DEF FirstScan
        <3>2. scan'[c].says = "voided" => status[k] = "VOIDED"
            BY <2>2, <2>3, <2>4
        <3> QED
            BY <1>0, <2>2, <3>1, <3>2 DEF TicketsKept
    <2> HIDE DEF k
    <2>7. \A d \in Scans, j \in Codes :
              /\ Admits(d, j)' => Admits(d, j) \/ (d = c /\ j = k /\ scan'[c].says = "admit")
              /\ Denies(d, j)' => Denies(d, j) \/ (j = k /\ scan'[c].says \in {"used", "voided"})
        BY <2>1 DEF Admits, Denies
    <2> QED
        BY <1>0, <1>k, <2>1, <2>2, <2>5, <2>6, <2>7, AdmissionKept
<1>4. ASSUME NEW c \in Scans, ShowOutcome(c) PROVE AdmissionInv'
    <2> DEFINE k == scan[c].code
    <2>1. /\ k \in Codes /\ pc[c] = "answer" /\ pc'[c] = "done"
          /\ admitted' = IF scan[c].says = "admit"
                         THEN [admitted EXCEPT ![k] = admitted[k] \cup {c}] ELSE admitted
          /\ denied' = IF scan[c].says \in {"used", "voided"} THEN denied \cup {k} ELSE denied
          /\ scan' = [scan EXCEPT ![c] = NoScan]
          /\ UNCHANGED status
          /\ \A d \in Scans \ {c} : scan'[d] = scan[d] /\ pc'[d] = pc[d]
        BY <1>0, <1>4 DEF ShowOutcome
    <2>2. /\ DOMAIN scan' = Scans /\ DOMAIN scan'[c] = DOMAIN NoScan
          /\ admitted' \in [Codes -> SUBSET Scans]
        BY <1>0, <2>1
    <2>3. \A d \in Scans, j \in Codes : d \in admitted'[j] =>
              d \in admitted[j] \/ (d = c /\ j = k /\ scan[c].says = "admit")
        BY <1>0, <2>1
    <2>4. \A d \in Scans, j \in Codes : /\ Admits(d, j)' => Admits(d, j)
                                        /\ Denies(d, j)' => Denies(d, j)
        BY <2>1, <2>3 DEF Admits, Denies
    <2>5. denied' \subseteq denied \cup {j \in Codes : \E d \in Scans : Denies(d, j)}
        BY <2>1 DEF Denies
    <2> HIDE DEF k
    <2> QED
        BY <1>0, <1>k, <2>1, <2>2, <2>4, <2>5, AdmissionKept
<1>5. ASSUME NEW c \in Scans, ScanLost(c) PROVE AdmissionInv'
    <2>1. /\ UNCHANGED <<status, admitted, denied>> /\ pc'[c] = "dead"
          /\ scan' = [scan EXCEPT ![c] = NoScan]
          /\ \A d \in Scans \ {c} : scan'[d] = scan[d] /\ pc'[d] = pc[d]
          /\ DOMAIN scan' = Scans /\ DOMAIN scan'[c] = DOMAIN NoScan
        BY <1>0, <1>5 DEF ScanLost
    <2>2. \A d \in Scans, j \in Codes : /\ Admits(d, j)' => Admits(d, j)
                                        /\ Denies(d, j)' => Denies(d, j)
        BY <2>1 DEF Admits, Denies
    <2> QED
        BY <1>0, <1>k, <2>1, <2>2, AdmissionKept
<1>6. ASSUME UNCHANGED <<pc, scan, admitted, denied>> PROVE AdmissionInv'
    <2>1. \A d \in Scans, j \in Codes : Admits(d, j)' = Admits(d, j) /\ Denies(d, j)' = Denies(d, j)
        BY <1>6 DEF Admits, Denies
    <2>2. CASE Scans = {}
        BY <1>0, <1>6, <2>1, <2>2 DEF AdmissionInv, TicketsKept
    <2>3. CASE Scans # {}
        BY <1>0, <1>k, <1>6, <2>1, <2>3, AdmissionKept
    <2> QED
        BY <2>2, <2>3
<1>7. ASSUME NEW s \in Scanners, LosesRole(s) PROVE AdmissionInv'
    BY <1>6, <1>7 DEF LosesRole, requestVars
<1>8. ASSUME NEW k \in Tickets, VoidTicket(k) PROVE AdmissionInv'
    BY <1>6, <1>8 DEF VoidTicket, requestVars
<1> QED
    BY <1>0, <1>1, <1>2, <1>3, <1>4, <1>5, <1>7, <1>8 DEF ScreensNext

LEMMA AdmissionInductive == AdmissionInv /\ [Next]_vars => AdmissionInv' /\ [TicketsKept]_screenVars
<1> SUFFICES ASSUME AdmissionInv, [Next]_vars PROVE AdmissionInv' /\ [TicketsKept]_screenVars
    OBVIOUS
<1>1. CASE UNCHANGED vars
    BY <1>1 DEF AdmissionInv, Admits, Denies, vars, screenVars, requestVars
<1>2. CASE Next
    <2>1. PICK i \in 1..11 : StepOf(i)
        BY <1>2, StepsOfParts
    <2>2. CASE i = 7
        BY <2>1, <2>2, AdmissionStep DEF StepOf
    <2>3. CASE i # 7
        <3>1. \A c \in Scans : pc[c] = "idle" /\ pc'[c] = "idle"
            <4>1. Scans \subseteq Parts[7] \cap Calls
                BY PartsByNumber, ScreensAssumption
            <4> QED
                BY <2>1, <2>3, <4>1, OthersAreIdle
        <3>2. UNCHANGED screenVars
            BY <2>1, <2>3 DEF StepOf
        <3> QED
            BY <3>1, <3>2 DEF AdmissionInv, Admits, Denies, screenVars
    <2> QED
        BY <2>2, <2>3
<1> QED
    BY <1>1, <1>2

(* The conditional updateMany of TicketsService.scan and the screens that  *)
(* show its answers: a ticket gets one person in, whatever scanners read   *)
(* it at once, and a ticket that a refund voids in between stays void.     *)
THEOREM AdmissionsOnce == Spec => AdmittedOnce
<1>1. AdmissionInv => OneAdmission
    <2> SUFFICES ASSUME AdmissionInv, NEW k \in Codes PROVE Cardinality(admitted[k]) <= 1
        BY DEF OneAdmission
    <2>1. \A c, d \in admitted[k] : c = d
        BY DEF AdmissionInv, Admits
    <2> QED
        BY <2>1, AtMostOne
<1>2. [TicketsKept]_screenVars
        => [\A k \in Tickets : status[k] = "VOIDED" => status'[k] = "VOIDED"]_screenVars
    BY DEF TicketsKept
<1> QED
    BY <1>1, <1>2, AdmissionInit, AdmissionInductive, PTL
    DEF Spec, AdmittedOnce, VoidedForGood

-------------------------------------------------------------------------------
(* Third parties.                                                          *)

(* Clients and keys that were revoked; a client that is still being made   *)
(* is not one of them.                                                     *)
Gone ==
    {k \in MadeClients : ~client[k].active} \cup {k \in KeyCreations : apiKey[k] = "revoked"}

ClientRow == [active : BOOLEAN, scopes : SUBSET Scopes, uris : SUBSET Uris]
AskRow ==
    [client : Registrations \cup {NoParty}, user : GrantUsers \cup {NoParty},
     uri : Uris \cup {NoParty}, scopes : SUBSET Scopes, of : PartnerCalls \cup {NoParty}]

(* Where a request stands tells what its ask names, who has a token is a   *)
(* client, and what was revoked is gone for good.                          *)
PartnerInv ==
    /\ client \in [Registrations -> ClientRow] /\ ask \in [PartnerCalls -> AskRow]
    /\ DOMAIN access = Askers /\ \A c \in Askers : DOMAIN access[c] = DOMAIN NoAccess
    /\ DOMAIN apiKey = KeyCreations
    /\ DOMAIN served = TokenCalls \cup KeyCalls
    /\ DOMAIN revokedBefore = TokenCalls \cup KeyCalls
    /\ \A c \in Registrations :
        /\ pc[c] \in {"idle", "create"} => client[c].scopes = {}
        /\ pc[c] = "create" => ask[c].scopes # {}
    /\ \A c \in Revocations :
        /\ pc[c] \in {"revoke", "done"} => ask[c].client \in MadeClients
        /\ pc[c] = "done" => ask[c].client \in Gone
    /\ \A c \in KeyRevocations :
        /\ pc[c] = "revoke" => ask[c].of \in KeyCreations
        /\ pc[c] = "done" => ask[c].of \in Gone
    /\ \A c \in KeyCreations : pc[c] \in {"idle", "create"} => apiKey[c] = "none"
    /\ \A c \in Askers :
        /\ pc[c] \in {"client", "code", "burn", "token"} => ask[c].client \in Registrations
        /\ access[c].state # "none" => access[c].client \in Registrations
    /\ \A c \in TokenCalls : pc[c] = "verify" => ask[c].of \in Askers
    /\ \A c \in KeyCalls : pc[c] = "verify" => ask[c].of \in KeyCreations
    /\ \A c \in TokenCalls \cup KeyCalls :
        /\ pc[c] = "idle" => served[c] = NoParty
        /\ revokedBefore[c] \subseteq Gone
        /\ served[c] \notin revokedBefore[c]

LEMMA PartnerInvInit == Init => PartnerInv
<1> SUFFICES ASSUME Init PROVE PartnerInv
    OBVIOUS
<1>1. \A c \in PartnerCalls : pc[c] = "idle"
    BY PartnersAssumption DEF Init, RequestsInit
<1>2. NoClient \in ClientRow /\ NoAsk \in AskRow
    BY DEF NoClient, NoAsk, ClientRow, AskRow
<1> QED
    BY <1>1, <1>2, PartnersAssumption
    DEF Init, PartnersInit, PartnerInv, PartnerCalls, Askers, NoClient, NoAccess

(* Requests of different kinds are different.                              *)
LEMMA KindsDiffer ==
    /\ \A c \in Registrations : c \notin Grants \cup Askers \cup Revocations \cup TokenCalls
            \cup KeyCreations \cup KeyRevocations \cup KeyCalls
    /\ \A c \in Revocations : c \notin Grants \cup Askers \cup TokenCalls
            \cup KeyCreations \cup KeyRevocations \cup KeyCalls
    /\ \A c \in KeyRevocations : c \notin Grants \cup Askers \cup TokenCalls
            \cup KeyCreations \cup KeyCalls
    /\ \A c \in KeyCreations : c \notin Grants \cup Askers \cup TokenCalls \cup KeyCalls
    /\ \A c \in Askers : c \notin Grants \cup TokenCalls \cup KeyCalls
    /\ \A c \in TokenCalls : c \notin Grants \cup KeyCalls
    /\ \A c \in Grants : c \notin KeyCalls
<1> DEFINE K(i) == PartnerKinds[i]
<1>1. /\ K(1) = Registrations /\ K(2) = Grants /\ K(3) = Exchanges /\ K(4) = Issuings
      /\ K(5) = Revocations /\ K(6) = TokenCalls /\ K(7) = KeyCreations
      /\ K(8) = KeyRevocations /\ K(9) = KeyCalls
    BY DEF PartnerKinds
<1>2. \A i, j \in 1..9 : i # j => K(i) \cap K(j) = {}
    BY PartnersAssumption
<1> HIDE DEF K
<1>3. /\ \A j \in 2..9 : K(1) \cap K(j) = {} 
      /\ \A j \in {2, 3, 4, 6, 7, 8, 9} : K(5) \cap K(j) = {}
      /\ \A j \in {2, 3, 4, 6, 7, 9} : K(8) \cap K(j) = {}
      /\ \A j \in {2, 3, 4, 6, 9} : K(7) \cap K(j) = {}
      /\ \A j \in {2, 6, 9} : K(3) \cap K(j) = {} /\ K(4) \cap K(j) = {}
      /\ \A j \in {2, 9} : K(6) \cap K(j) = {}
      /\ K(2) \cap K(9) = {}
    BY <1>2
<1> QED
    BY <1>1, <1>3 DEF Askers

LEMMA SwitchedOff ==
    ASSUME client \in [Registrations -> ClientRow], NEW k \in Registrations,
           client' = [client EXCEPT ![k].active = FALSE]
    PROVE  /\ client' \in [Registrations -> ClientRow]
           /\ ~client'[k].active /\ client'[k].scopes = client[k].scopes
           /\ \A j \in Registrations \ {k} : client'[j] = client[j]
<1>1. client[k] \in ClientRow
    OBVIOUS
<1>2. client' = [client EXCEPT ![k] = [client[k] EXCEPT !.active = FALSE]]
    OBVIOUS
<1>3. /\ [client[k] EXCEPT !.active = FALSE] \in ClientRow
      /\ ~[client[k] EXCEPT !.active = FALSE].active
      /\ [client[k] EXCEPT !.active = FALSE].scopes = client[k].scopes
    BY <1>1 DEF ClientRow
<1> QED
    BY <1>2, <1>3

(* A step of an organizer, a user or a third party.                        *)
LEMMA PartnerStep ==
    ASSUME PartnerInv, PartnersNext
    PROVE  PartnerInv'
<1> USE KindsDiffer, PartnersAssumption
    DEF PartnerInv, PartnerCalls, AsksFor, Begin, Goto, CutShort, MovesTo, partnerVars
<1>0. /\ \A k \in Registrations : Asked(k) \in AskRow
      /\ NoAsk \in AskRow
    BY DEF Asked, NoAsk, AskRow
<1>1. ASSUME NEW c \in Registrations, Register(c) PROVE PartnerInv'
    <2>1. PICK S \in ScopeSets \ {{}}, u \in Uris \cup {NoParty} :
              ask' = [ask EXCEPT ![c] = [NoAsk EXCEPT !.scopes = S, !.uri = u]]
        BY <1>1 DEF Register
    <2>2. /\ [NoAsk EXCEPT !.scopes = S, !.uri = u] \in AskRow
          /\ [NoAsk EXCEPT !.scopes = S, !.uri = u].scopes # {}
        BY DEF NoAsk, AskRow, Scopes
    <2>3. ask'[c] \in AskRow /\ ask'[c].scopes # {} /\ ask' \in [PartnerCalls -> AskRow]
        BY <2>1, <2>2
    <2> QED
        BY <1>1, <2>1, <2>3 DEF Register, Gone, MadeClients
<1>2. ASSUME NEW c \in Registrations, CreateClient(c) PROVE PartnerInv'
    <2>1. /\ client' \in [Registrations -> ClientRow]
          /\ client'[c].active /\ client'[c].scopes # {}
          /\ \A k \in Registrations \ {c} : client'[k] = client[k]
        BY <1>2 DEF CreateClient, ClientRow, AskRow
    <2>2. MadeClients' = MadeClients \cup {c} /\ Gone' = Gone
        BY <1>2, <2>1 DEF CreateClient, MadeClients, Gone
    <2> QED
        BY <1>2, <2>1, <2>2 DEF CreateClient
<1>3. ASSUME NEW c \in Revocations, RevokeClient(c) PROVE PartnerInv'
    <2> DEFINE k == ask[c].client
    <2>1. k \in MadeClients /\ k \in Registrations
        BY <1>3 DEF RevokeClient, MadeClients
    <2>4. client[k] \in ClientRow /\ client' = [client EXCEPT ![k].active = FALSE]
        BY <1>3, <2>1 DEF RevokeClient
    <2>2. /\ client' \in [Registrations -> ClientRow]
          /\ ~client'[k].active /\ client'[k].scopes = client[k].scopes
          /\ \A j \in Registrations \ {k} : client'[j] = client[j]
        BY <2>1, <2>4, SwitchedOff
    <2>3. MadeClients' = MadeClients /\ Gone' = Gone \cup {k}
        BY <1>3, <2>1, <2>2 DEF RevokeClient, MadeClients, Gone
    <2> QED
        BY <1>3, <2>1, <2>2, <2>3 DEF RevokeClient
<1>4. ASSUME NEW c \in Revocations, NEW k \in Registrations, AskToRevoke(c, k)
      PROVE  PartnerInv'
    <2>1. ask'[c] \in AskRow /\ ask'[c].client = k
        BY <1>4 DEF AskToRevoke, Asked, NoAsk, AskRow
    <2> QED
        BY <1>4, <2>1 DEF AskToRevoke, Gone, MadeClients
<1>5. ASSUME NEW c \in Grants, NEW k \in Registrations, NEW u \in GrantUsers,
             NEW uri \in Uris \cup {NoParty}, NEW S \in ScopeSets, Grant(c, k, u, uri, S)
      PROVE  PartnerInv'
    <2>1. ask'[c] \in AskRow
        BY <1>5 DEF Grant, Asked, NoAsk, AskRow, Scopes
    <2> QED
        BY <1>5, <2>1 DEF Grant, Gone, MadeClients
<1>6. ASSUME NEW c \in Grants, ReadClientToGrant(c) \/ IssueCode(c) PROVE PartnerInv'
    BY <1>6 DEF ReadClientToGrant, IssueCode, Gone, MadeClients
<1>7. ASSUME NEW c \in Exchanges, NEW k \in Registrations, NEW g \in Grants,
             NEW uri \in Uris \cup {NoParty}, Exchange(c, k, g, uri)
      PROVE  PartnerInv'
    <2>3. /\ [Asked(k) EXCEPT !.of = g, !.uri = uri] \in AskRow
          /\ [Asked(k) EXCEPT !.of = g, !.uri = uri].client = k
        BY DEF Asked, NoAsk, AskRow
    <2>1. ask'[c] \in AskRow /\ ask'[c].client = k
        BY <1>7, <2>3 DEF Exchange, Askers
    <2> QED
        BY <1>7, <2>1 DEF Exchange, Gone, MadeClients, Askers
<1>8. ASSUME NEW c \in Exchanges, ReadClientToExchange(c) \/ ReadCode(c) \/ BurnCode(c)
      PROVE  PartnerInv'
    BY <1>8 DEF ReadClientToExchange, ReadCode, BurnCode, Gone, MadeClients, Askers
<1>9. ASSUME NEW c \in Askers,
             \/ c \in Exchanges /\ IssueUserToken(c)
             \/ c \in Issuings /\ IssueClientToken(c)
      PROVE  PartnerInv'
    <2>1. /\ access'[c].client = ask[c].client
          /\ DOMAIN access' = Askers /\ DOMAIN access'[c] = DOMAIN NoAccess
          /\ \A d \in Askers \ {c} : access'[d] = access[d]
        <3>1. CASE IssueUserToken(c)
            BY <1>9, <3>1 DEF IssueUserToken, NoAccess
        <3>2. CASE IssueClientToken(c)
            BY <1>9, <3>2 DEF IssueClientToken, NoAccess
        <3> QED
            BY <1>9, <3>1, <3>2
    <2>2. pc[c] = "token" /\ \A d \in Calls : pc'[d] = IF d = c THEN "done" ELSE pc[d]
        BY <1>9 DEF IssueUserToken, IssueClientToken
    <2>3. UNCHANGED <<client, ask, apiKey, served, revokedBefore>>
        BY <1>9 DEF IssueUserToken, IssueClientToken
    <2> QED
        BY <2>1, <2>2, <2>3 DEF Gone, MadeClients, Askers
<1>10. ASSUME NEW c \in Issuings, NEW k \in Registrations, NEW S \in ScopeSets,
              AskToken(c, k, S)
       PROVE  PartnerInv'
    <2>3. /\ [Asked(k) EXCEPT !.scopes = S] \in AskRow
          /\ [Asked(k) EXCEPT !.scopes = S].client = k
        BY DEF Asked, NoAsk, AskRow, Scopes
    <2>1. ask'[c] \in AskRow /\ ask'[c].client = k
        BY <1>10, <2>3 DEF AskToken, Askers
    <2> QED
        BY <1>10, <2>1 DEF AskToken, Gone, MadeClients, Askers
<1>11. ASSUME NEW c \in Issuings, ReadClientToIssue(c) PROVE PartnerInv'
    BY <1>11 DEF ReadClientToIssue, Gone, MadeClients, Askers
<1>12. ASSUME NEW c \in TokenCalls, NEW t \in Askers, CallWithToken(c, t) PROVE PartnerInv'
    <2>1. ask'[c] \in AskRow /\ ask'[c].of = t
        BY <1>12 DEF CallWithToken, NoAsk, AskRow, Askers
    <2>2. Revoked \subseteq Gone
        BY DEF Revoked
    <2> QED
        BY <1>12, <2>1, <2>2 DEF CallWithToken, Gone, MadeClients
<1>13. ASSUME NEW c \in TokenCalls, VerifyToken(c) PROVE PartnerInv'
    <2> DEFINE k == access[ask[c].of].client
    <2>1. CASE Verified(ask[c].of)
        <3>1. k \in Registrations /\ client[k].active
            BY <1>13, <2>1 DEF VerifyToken, Verified
        <3>2. k \notin Gone
            BY <3>1 DEF Gone, MadeClients
        <3> QED
            BY <1>13, <2>1, <3>2 DEF VerifyToken, Gone, MadeClients
    <2>2. CASE ~Verified(ask[c].of)
        BY <1>13, <2>2 DEF VerifyToken, Gone, MadeClients
    <2> QED
        BY <2>1, <2>2
<1>14. ASSUME NEW c \in KeyCreations, AskForKey(c) PROVE PartnerInv'
    BY <1>14 DEF AskForKey, Gone, MadeClients
<1>15. ASSUME NEW c \in KeyCreations, CreateKey(c) PROVE PartnerInv'
    <2>1. /\ DOMAIN apiKey' = KeyCreations /\ apiKey[c] = "none" /\ apiKey'[c] = "live"
          /\ \A k \in KeyCreations \ {c} : apiKey'[k] = apiKey[k]
        BY <1>15 DEF CreateKey
    <2>2. Gone' = Gone
        BY <1>15, <2>1 DEF CreateKey, Gone, MadeClients
    <2> QED
        BY <1>15, <2>1, <2>2 DEF CreateKey, MadeClients
<1>16. ASSUME NEW c \in KeyRevocations, NEW k \in KeyCreations, AskToRevokeKey(c, k)
       PROVE  PartnerInv'
    <2>1. ask'[c] \in AskRow /\ ask'[c].of = k
        BY <1>16 DEF AskToRevokeKey, NoAsk, AskRow
    <2> QED
        BY <1>16, <2>1 DEF AskToRevokeKey, Gone, MadeClients
<1>17. ASSUME NEW c \in KeyRevocations, RevokeKey(c) PROVE PartnerInv'
    <2> DEFINE k == ask[c].of
    <2>1. k \in KeyCreations
        BY <1>17 DEF RevokeKey
    <2>2. CASE apiKey[k] = "live"
        <3>1. /\ DOMAIN apiKey' = KeyCreations /\ apiKey'[k] = "revoked"
              /\ \A j \in KeyCreations \ {k} : apiKey'[j] = apiKey[j]
            BY <1>17, <2>1, <2>2 DEF RevokeKey
        <3>2. Gone' = Gone \cup {k}
            BY <1>17, <2>1, <3>1 DEF RevokeKey, Gone, MadeClients
        <3>3. \A j \in KeyCreations : pc[j] \in {"idle", "create"} => j # k
            BY <2>2
        <3> QED
            BY <1>17, <2>1, <2>2, <3>1, <3>2, <3>3 DEF RevokeKey, MadeClients
    <2>3. CASE apiKey[k] # "live"
        BY <1>17, <2>3 DEF RevokeKey, Gone, MadeClients
    <2> QED
        BY <2>2, <2>3
<1>18. ASSUME NEW c \in KeyCalls, NEW k \in KeyCreations, CallWithKey(c, k) PROVE PartnerInv'
    <2>1. ask'[c] \in AskRow /\ ask'[c].of = k
        BY <1>18 DEF CallWithKey, NoAsk, AskRow
    <2>2. Revoked \subseteq Gone
        BY DEF Revoked
    <2> QED
        BY <1>18, <2>1, <2>2 DEF CallWithKey, Gone, MadeClients
<1>19. ASSUME NEW c \in KeyCalls, ResolveKey(c) PROVE PartnerInv'
    <2> DEFINE k == ask[c].of
    <2>1. CASE apiKey[k] = "live"
        <3>1. k \in KeyCreations /\ k \notin Gone
            BY <1>19, <2>1 DEF ResolveKey, Gone, MadeClients
        <3> QED
            BY <1>19, <2>1, <3>1 DEF ResolveKey, Gone, MadeClients
    <2>2. CASE apiKey[k] # "live"
        BY <1>19, <2>2 DEF ResolveKey, Gone, MadeClients
    <2> QED
        BY <2>1, <2>2
<1>20. ASSUME NEW c \in KeyCalls, TouchKey(c) PROVE PartnerInv'
    BY <1>20 DEF TouchKey, Gone, MadeClients
<1>21. ASSUME NEW c \in PartnerCalls, PartnerCutShort(c) PROVE PartnerInv'
    BY <1>21 DEF PartnerCutShort, Gone, MadeClients, Busy, Started
<1>22. ASSUME Expire PROVE PartnerInv'
    <2>1. /\ DOMAIN access' = Askers
          /\ \A c \in Askers :
                /\ DOMAIN access'[c] = DOMAIN NoAccess
                /\ access'[c].client = access[c].client
                /\ access'[c].state # "none" => access[c].state # "none"
        BY <1>22 DEF Expire, NoAccess
    <2>2. UNCHANGED <<pc, client, ask, apiKey, served, revokedBefore>>
        BY <1>22 DEF Expire, requestVars
    <2> QED
        BY <2>1, <2>2 DEF Gone, MadeClients
<1>23. ASSUME MinutePasses PROVE PartnerInv'
    BY <1>23 DEF MinutePasses, Gone, MadeClients, requestVars
<1> QED
    BY <1>1, <1>2, <1>3, <1>4, <1>5, <1>6, <1>7, <1>8, <1>9, <1>10, <1>11, <1>12, <1>13,
       <1>14, <1>15, <1>16, <1>17, <1>18, <1>19, <1>20, <1>21, <1>22, <1>23
    DEF PartnersNext, Askers

LEMMA PartnerInductive == PartnerInv /\ [Next]_vars => PartnerInv'
<1> SUFFICES ASSUME PartnerInv, [Next]_vars PROVE PartnerInv'
    OBVIOUS
<1>1. CASE UNCHANGED vars
    BY <1>1 DEF PartnerInv, Gone, MadeClients, vars, partnerVars, requestVars
<1>2. CASE Next
    <2>1. PICK i \in 1..11 : StepOf(i)
        BY <1>2, StepsOfParts
    <2>2. CASE i = 9
        BY <2>1, <2>2, PartnerStep DEF StepOf
    <2>3. CASE i # 9
        <3>1. \A c \in PartnerCalls : pc[c] = "idle" /\ pc'[c] = "idle"
            <4>1. PartnerCalls \subseteq Parts[9] \cap Calls
                BY PartsByNumber, PartnersAssumption
            <4> QED
                BY <2>1, <2>3, <4>1, OthersAreIdle
        <3>2. UNCHANGED partnerVars
            BY <2>1, <2>3 DEF StepOf
        <3> QED
            BY <3>1, <3>2 DEF PartnerInv, PartnerCalls, Askers, Gone, MadeClients, partnerVars
    <2> QED
        BY <2>2, <2>3
<1> QED
    BY <1>1, <1>2

(* revoke, verifyToken and resolve: from its revocation on a client or a   *)
(* key opens no door, also by tokens that requests under way got later.    *)
THEOREM RevocationsHold == Spec => []RevokedServesNobody
<1>1. PartnerInv => RevokedServesNobody
    BY DEF PartnerInv, RevokedServesNobody
<1> QED
    BY <1>1, PartnerInvInit, PartnerInductive, PTL DEF Spec

-------------------------------------------------------------------------------
(* What the screens at the door show.                                      *)

(* Scanner s waits for the answer to request c.                            *)
WaitsFor(s, c) == pc[c] \in AtApi /\ scan[c].by = s

(* Scanner s, which had one request under way at a time, waits for the     *)
(* code it submitted last, or shows it.                                    *)
InOrder(s) ==
    /\ \A c, d \in Scans : WaitsFor(s, c) /\ WaitsFor(s, d) => c = d
    /\ \A c \in Scans : WaitsFor(s, c) => scan[c].code = last[s] /\ failed[s] = Nothing
    /\ OnShow(s) = last[s] \/ \E c \in Scans : WaitsFor(s, c)

(* As long as nothing failed, whatever is scanned was admitted or is about *)
(* to be.                                                                  *)
ScannedAreAdmitted ==
    \A k \in Tickets : status[k] = "SCANNED" => \E c \in Scans : Admits(c, k)

ScreenInv ==
    /\ AdmissionInv
    /\ failures \in Nat
    /\ \A c \in Scans : pc[c] \in {"idle"} \cup AtApi \cup Ended
    /\ DOMAIN last = Scanners /\ DOMAIN shown = Scanners /\ DOMAIN failed = Scanners
    /\ crossed \subseteq WebScanners
    /\ \A s \in WebScanners : failed[s] = Nothing
    /\ \A c \in Scans : pc[c] \in AtApi => scan[c].by \in Scanners
    /\ \A s \in Scanners \ crossed : InOrder(s)
    /\ failures = 0 => ScannedAreAdmitted

LEMMA ScreenInit == Init => ScreenInv
<1> SUFFICES ASSUME Init PROVE ScreenInv
    OBVIOUS
<1>1. \A c \in Scans : pc[c] = "idle"
    BY ScreensAssumption DEF Init, RequestsInit
<1>2. failures = 0
    BY DEF Init, RequestsInit
<1>3. \A s \in Scanners, c \in Scans : ~WaitsFor(s, c)
    BY <1>1 DEF WaitsFor, AtApi
<1>4. /\ last = [s \in Scanners |-> Nothing] /\ shown = [s \in Scanners |-> Nothing]
      /\ failed = [s \in Scanners |-> Nothing] /\ crossed = {}
      /\ status = [k \in Tickets |-> "ISSUED"]
    BY DEF Init, ScreensInit
<1>5. \A s \in Scanners : InOrder(s)
    BY <1>3, <1>4 DEF InOrder, OnShow
<1>6. ScannedAreAdmitted /\ \A s \in WebScanners : failed[s] = Nothing
    BY <1>4 DEF ScannedAreAdmitted, Scanners
<1> QED
    BY <1>1, <1>2, <1>4, <1>5, <1>6, AdmissionInit DEF ScreenInv, AtApi

LEMMA ScreenStep ==
    ASSUME ScreenInv, AdmissionInv', TicketsKept, ScreensNext
    PROVE  ScreenInv'
<1>0. /\ AdmissionInv /\ failures \in Nat
      /\ DOMAIN last = Scanners /\ DOMAIN shown = Scanners /\ DOMAIN failed = Scanners
      /\ DOMAIN scan = Scans /\ \A c \in Scans : DOMAIN scan[c] = DOMAIN NoScan
      /\ \A c \in Scans : pc[c] \in {"idle"} \cup AtApi \cup Ended
      /\ WebScanners \subseteq Scanners /\ crossed \subseteq WebScanners
      /\ \A k \in Tickets : k \in Codes
      /\ \A s \in WebScanners : failed[s] = Nothing
      /\ \A c \in Scans : pc[c] \in AtApi => scan[c].by \in Scanners /\ scan[c].code \in Codes
      /\ status \in [Tickets -> Statuses]
    BY ScreensAssumption DEF ScreenInv, AdmissionInv, Scanners
<1> USE <1>0, ScreensAssumption DEF MovesTo, screenVars, Ended
(* Scanners that the step is not about.                                    *)
<1>o. ASSUME NEW t \in Scanners, InOrder(t),
             last'[t] = last[t], shown'[t] = shown[t], failed'[t] = failed[t],
             \A d \in Scans : WaitsFor(t, d)' <=> WaitsFor(t, d),
             \A d \in Scans : WaitsFor(t, d) => scan'[d].code = scan[d].code
      PROVE  InOrder(t)'
    BY <1>o DEF InOrder, OnShow
<1>1. ASSUME NEW c \in Scans, NEW s \in Scanners, DetectCode(c, s) PROVE ScreenInv'
    <2>1. PICK k \in Codes :
              /\ Ready(s) /\ pc[c] = "idle"
              /\ scan' = [scan EXCEPT ![c] = ScanOf(s, k)]
              /\ last' = [last EXCEPT ![s] = k]
              /\ failed' = [failed EXCEPT ![s] = Nothing]
              /\ crossed' = IF Waiting(s) = {} THEN crossed ELSE crossed \cup {s}
              /\ UNCHANGED <<status, shown, admitted, failures>>
              /\ \A d \in Scans : pc'[d] = IF d = c THEN "server" ELSE pc[d]
        <3>1. Begin(c, "server")
            BY <1>1 DEF DetectCode
        <3>2. /\ pc[c] = "idle" /\ UNCHANGED failures
              /\ \A d \in Scans : pc'[d] = IF d = c THEN "server" ELSE pc[d]
            BY <3>1 DEF Begin
        <3> QED
            BY <1>1, <3>2 DEF DetectCode
    <2>2. \A d \in Scans : WaitsFor(s, d) <=> d \in Waiting(s)
        BY DEF WaitsFor, Waiting, Busy, Started, AtApi
    <2>3. Waiting(s) # {} => s \in WebScanners
        BY <2>1 DEF Ready
    <2>4. s \notin crossed' => \A d \in Scans : ~WaitsFor(s, d)
        BY <2>1, <2>2
    <2>5. /\ last'[s] = k /\ scan'[c].code = k /\ scan'[c].by = s /\ failed'[s] = Nothing
          /\ \A d \in Scans \ {c} : scan'[d] = scan[d] /\ pc'[d] = pc[d]
          /\ \A t \in Scanners \ {s} : last'[t] = last[t] /\ failed'[t] = failed[t]
          /\ pc[c] \notin AtApi /\ pc'[c] = "server" /\ pc'[c] \in AtApi
        BY <2>1 DEF NoScan, ScanOf, AtApi
    <2>6. \A t \in Scanners, d \in Scans :
              WaitsFor(t, d)' <=> (IF d = c THEN t = s ELSE WaitsFor(t, d))
        BY <2>5 DEF WaitsFor
    <2>7. ASSUME NEW t \in Scanners \ crossed' PROVE InOrder(t)'
        <3>1. CASE t = s
            <4>1. \A d \in Scans : WaitsFor(t, d)' <=> d = c
                BY <2>4, <2>6, <2>7, <3>1
            <4> QED
                BY <2>5, <3>1, <4>1 DEF InOrder
        <3>2. CASE t # s
            <4>1. t \notin crossed /\ ~WaitsFor(t, c)
                BY <2>1, <2>5, <2>7 DEF WaitsFor
            <4>2. InOrder(t)
                BY <4>1 DEF ScreenInv
            <4>3. \A d \in Scans : /\ WaitsFor(t, d)' <=> WaitsFor(t, d)
                                   /\ WaitsFor(t, d) => scan'[d].code = scan[d].code
                BY <2>5, <2>6, <3>2, <4>1
            <4> QED
                BY <1>o, <2>1, <2>5, <3>2, <4>2, <4>3
        <3> QED
            BY <3>1, <3>2
    <2>8. failures' = 0 => ScannedAreAdmitted'
        <3>1. \A d \in Scans, j \in Codes : Admits(d, j) => Admits(d, j)'
            BY <2>1, <2>5 DEF Admits
        <3> QED
            BY <2>1, <3>1 DEF ScreenInv, ScannedAreAdmitted
    <2>9. crossed' \subseteq WebScanners /\ \A t \in WebScanners : failed'[t] = Nothing
        BY <2>1, <2>3, <2>5
    <2>10. \A d \in Scans : pc'[d] \in AtApi => scan'[d].by \in Scanners
        BY <2>5
    <2>11. DOMAIN last' = Scanners /\ DOMAIN shown' = Scanners /\ DOMAIN failed' = Scanners
        BY <2>1
    <2>12. \A d \in Scans : pc'[d] \in {"idle"} \cup AtApi \cup Ended
        BY <2>5
    <2> QED
        BY <2>1, <2>7, <2>8, <2>9, <2>10, <2>11, <2>12 DEF ScreenInv
(* A step of the API: what scanners wait for and show stays.               *)
<1>a. ASSUME UNCHANGED <<last, shown, failed, crossed, failures>>,
             \A d \in Scans : /\ pc'[d] \in {"idle"} \cup AtApi \cup Ended
                              /\ pc'[d] \in AtApi <=> pc[d] \in AtApi
                              /\ scan'[d].code = scan[d].code /\ scan'[d].by = scan[d].by,
             failures = 0 => ScannedAreAdmitted'
      PROVE  ScreenInv'
    <2>1. \A t \in Scanners, d \in Scans : WaitsFor(t, d)' <=> WaitsFor(t, d)
        BY <1>a DEF WaitsFor
    <2>2. ASSUME NEW t \in Scanners \ crossed' PROVE InOrder(t)'
        <3>1. InOrder(t)
            BY <1>a, <2>2 DEF ScreenInv
        <3> QED
            BY <1>a, <1>o, <2>1, <2>2, <3>1
    <2> QED
        BY <1>a, <2>2 DEF ScreenInv
<1>2. ASSUME NEW s \in Scanners, LosesRole(s) PROVE ScreenInv'
    <2>1. \A d \in Scans, j \in Codes : Admits(d, j) => Admits(d, j)'
        BY <1>2 DEF LosesRole, requestVars, Admits
    <2>2. failures = 0 => ScannedAreAdmitted'
        BY <1>2, <2>1 DEF LosesRole, ScreenInv, ScannedAreAdmitted
    <2> QED
        BY <1>2, <1>a, <2>2 DEF LosesRole, requestVars
<1>3. ASSUME NEW k \in Tickets, VoidTicket(k) PROVE ScreenInv'
    <2>1. \A d \in Scans, j \in Codes : Admits(d, j) => Admits(d, j)'
        BY <1>3 DEF VoidTicket, requestVars, Admits
    <2>2. \A j \in Tickets : status'[j] = "SCANNED" => status[j] = "SCANNED"
        BY <1>3 DEF VoidTicket
    <2>3. failures = 0 => ScannedAreAdmitted'
        BY <2>1, <2>2 DEF ScreenInv, ScannedAreAdmitted
    <2> QED
        BY <1>3, <1>a, <2>3 DEF VoidTicket, requestVars
<1>4. ASSUME NEW c \in Scans, ReadTicket(c) PROVE ScreenInv'
    <2>1. /\ UNCHANGED <<last, shown, failed, crossed, failures, status, admitted>>
          /\ pc[c] = "server" /\ pc'[c] \in {"claim", "answer"}
          /\ \A d \in Scans \ {c} : scan'[d] = scan[d] /\ pc'[d] = pc[d]
          /\ scan'[c].code = scan[c].code /\ scan'[c].by = scan[c].by
        BY <1>4 DEF ReadTicket, Goto, NoScan
    <2>2. \A d \in Scans, j \in Codes : Admits(d, j) => Admits(d, j)'
        BY <2>1 DEF Admits
    <2>3. failures = 0 => ScannedAreAdmitted'
        BY <2>1, <2>2 DEF ScreenInv, ScannedAreAdmitted
    <2> QED
        BY <1>a, <2>1, <2>3 DEF AtApi
<1>5. ASSUME NEW c \in Scans, ScanTicket(c) PROVE ScreenInv'
    <2> DEFINE k == scan[c].code
    <2>1. /\ UNCHANGED <<last, shown, failed, crossed, failures, admitted>>
          /\ pc[c] = "claim" /\ pc'[c] = "answer"
          /\ \A d \in Scans \ {c} : scan'[d] = scan[d] /\ pc'[d] = pc[d]
          /\ scan'[c].code = k /\ scan'[c].by = scan[c].by
        BY <1>5 DEF ScanTicket, Goto, NoScan
    <2>2. \/ status' = status
          \/ status' = [status EXCEPT ![k] = "SCANNED"] /\ scan'[c].says = "admit"
        BY <1>5 DEF ScanTicket, NoScan
    <2> HIDE DEF k
    <2>3. \A d \in Scans, j \in Codes : Admits(d, j) => Admits(d, j)'
        BY <2>1 DEF Admits
    <2>4. ASSUME failures = 0, NEW j \in Tickets, status'[j] = "SCANNED"
          PROVE  \E d \in Scans : Admits(d, j)'
        <3>1. status[j] = "SCANNED" \/ (j = k /\ scan'[c].says = "admit")
            BY <2>2, <2>4
        <3>2. j = k /\ scan'[c].says = "admit" => Admits(c, j)'
            BY <2>1 DEF Admits
        <3>3. status[j] = "SCANNED" => \E d \in Scans : Admits(d, j)
            BY <2>4 DEF ScreenInv, ScannedAreAdmitted
        <3> QED
            BY <2>3, <3>1, <3>2, <3>3
    <2>5. failures = 0 => ScannedAreAdmitted'
        BY <2>4 DEF ScannedAreAdmitted
    <2> QED
        BY <1>a, <2>1, <2>5 DEF AtApi, k
<1>6. ASSUME NEW c \in Scans, ShowOutcome(c) \/ ScanLost(c) PROVE ScreenInv'
    <2>0. PICK k, s : k = scan[c].code /\ s = scan[c].by
        OBVIOUS
    <2>1. /\ k \in Codes /\ s \in Scanners /\ pc[c] \in AtApi
          /\ \E e \in BOOLEAN : Shows(c, e)
          /\ scan' = [scan EXCEPT ![c] = NoScan]
          /\ UNCHANGED <<status, last, crossed>>
          /\ pc'[c] \in {"done", "dead"}
          /\ \A d \in Scans \ {c} : scan'[d] = scan[d] /\ pc'[d] = pc[d]
        <3>1. pc[c] \in AtApi
            BY <1>6 DEF ShowOutcome, ScanLost, AtApi
        <3>2. \E e \in BOOLEAN : Shows(c, e)
            BY <1>6 DEF ShowOutcome, ScanLost
        <3> QED
            BY <1>6, <2>0, <3>1, <3>2 DEF ShowOutcome, ScanLost, CutShort, Goto
    <2>2. PICK e \in BOOLEAN : Shows(c, e)
        BY <2>1
    <2>3. \/ shown' = [shown EXCEPT ![s] = k] /\ failed' = failed
          \/ failed' = [failed EXCEPT ![s] = k] /\ s \in AppScanners /\ shown' = shown
        BY <2>0, <2>2 DEF Shows
    <2>4. \A t \in Scanners \ {s} : /\ shown'[t] = shown[t] /\ failed'[t] = failed[t]
                                    /\ ~WaitsFor(t, c)
        BY <2>0, <2>3 DEF WaitsFor
    <2>5. \A t \in Scanners, d \in Scans : WaitsFor(t, d)' <=> d # c /\ WaitsFor(t, d)
        BY <2>1 DEF WaitsFor, AtApi
    <2>6. ASSUME NEW t \in Scanners \ crossed' PROVE InOrder(t)'
        <3>0. InOrder(t)
            BY <2>1, <2>6 DEF ScreenInv
        <3>1. CASE t = s
            <4>1. WaitsFor(s, c)
                BY <2>0, <2>1 DEF WaitsFor
            <4>2. /\ \A d \in Scans : WaitsFor(s, d) => d = c
                  /\ k = last[s] /\ failed[s] = Nothing
                BY <2>0, <3>0, <3>1, <4>1 DEF InOrder
            <4>3. \A d \in Scans : ~WaitsFor(s, d)'
                BY <2>5, <3>1, <4>2
            <4>4. (IF failed'[s] # Nothing THEN failed'[s] ELSE shown'[s]) = k
                BY <2>1, <2>3, <4>2
            <4>5. last'[s] = k
                BY <2>1, <4>2
            <4>6. /\ \A d \in Scans : ~WaitsFor(t, d)'
                  /\ (IF failed'[t] # Nothing THEN failed'[t] ELSE shown'[t]) = last'[t]
                BY <3>1, <4>3, <4>4, <4>5
            <4> QED
                BY <4>6 DEF InOrder, OnShow
        <3>2. CASE t # s
            <4>1. \A d \in Scans : /\ WaitsFor(t, d)' <=> WaitsFor(t, d)
                                   /\ WaitsFor(t, d) => scan'[d].code = scan[d].code
                BY <2>1, <2>4, <2>5, <3>2
            <4> QED
                BY <1>o, <2>1, <2>4, <3>0, <3>2, <4>1
        <3> QED
            BY <3>1, <3>2
    <2>7. failures' \in Nat /\ (failures' = 0 => failures = 0 /\ ShowOutcome(c))
        <3>1. CASE ShowOutcome(c)
            BY <3>1 DEF ShowOutcome, Goto
        <3>2. CASE ScanLost(c)
            <4>1. failures' = failures + 1
                BY <3>2 DEF ScanLost, CutShort
            <4> QED
                BY <4>1
        <3> QED
            BY <1>6, <3>1, <3>2
    <2>8. ASSUME ShowOutcome(c), NEW j \in Codes, NEW d \in Scans, Admits(d, j)
          PROVE  Admits(d, j)'
        <3>1. admitted' = IF scan[c].says = "admit"
                          THEN [admitted EXCEPT ![k] = admitted[k] \cup {c}] ELSE admitted
            BY <2>0, <2>8 DEF ShowOutcome
        <3>2. DOMAIN admitted = Codes
            BY DEF AdmissionInv
        <3>3. admitted[j] \subseteq admitted'[j]
            BY <2>1, <3>1, <3>2
        <3>4. CASE d = c
            BY <2>0, <2>1, <2>8, <3>1, <3>2, <3>3, <3>4 DEF Admits, AtApi
        <3>5. CASE d # c
            BY <2>1, <2>8, <3>3, <3>5 DEF Admits
        <3> QED
            BY <3>4, <3>5
    <2>9. failures' = 0 => ScannedAreAdmitted'
        BY <2>1, <2>7, <2>8 DEF ScreenInv, ScannedAreAdmitted
    <2>10. /\ DOMAIN last' = Scanners /\ DOMAIN shown' = Scanners /\ DOMAIN failed' = Scanners
           /\ \A t \in WebScanners : failed'[t] = Nothing
        <3>1. \A t \in WebScanners : t \notin AppScanners
            OBVIOUS
        <3> QED
            BY <2>1, <2>3, <3>1
    <2>11. \A d \in Scans : /\ pc'[d] \in {"idle"} \cup AtApi \cup Ended
                            /\ pc'[d] \in AtApi => scan'[d].by \in Scanners
        BY <2>1 DEF AtApi
    <2> QED
        BY <2>1, <2>6, <2>7, <2>9, <2>10, <2>11 DEF ScreenInv
<1> QED
    BY <1>1, <1>2, <1>3, <1>4, <1>5, <1>6 DEF ScreensNext

LEMMA ScreenInductive == ScreenInv /\ [Next]_vars => ScreenInv'
<1> SUFFICES ASSUME ScreenInv, [Next]_vars PROVE ScreenInv'
    OBVIOUS
<1>0. AdmissionInv' /\ [TicketsKept]_screenVars
    BY AdmissionInductive DEF ScreenInv
<1>1. CASE UNCHANGED vars
    BY <1>0, <1>1
    DEF ScreenInv, InOrder, OnShow, ScannedAreAdmitted, WaitsFor, Admits, vars, screenVars,
        requestVars
<1>2. CASE Next
    <2>1. PICK i \in 1..11 : StepOf(i)
        BY <1>2, StepsOfParts
    <2>2. CASE i = 7
        <3>1. TicketsKept
            BY <1>0 DEF TicketsKept, screenVars
        <3> QED
            BY <1>0, <2>1, <2>2, <3>1, ScreenStep DEF StepOf
    <2>3. CASE i # 7
        <3>1. \A c \in Scans : pc[c] = "idle" /\ pc'[c] = "idle"
            <4>1. Scans \subseteq Parts[7] \cap Calls
                BY PartsByNumber, ScreensAssumption
            <4> QED
                BY <2>1, <2>3, <4>1, OthersAreIdle
        <3>2. UNCHANGED screenVars
            BY <2>1, <2>3 DEF StepOf
        <3>3. failures' \in Nat /\ (failures' = 0 => failures = 0)
            BY CountersStep DEF ScreenInv, FailuresGrow
        <3> QED
            BY <1>0, <3>1, <3>2, <3>3
            DEF ScreenInv, InOrder, OnShow, ScannedAreAdmitted, WaitsFor, Admits, screenVars, AtApi
    <2> QED
        BY <2>2, <2>3
<1> QED
    BY <1>1, <1>2

(* handleCode and _onDetect with the answers of the scan: when a scanner   *)
(* waits for nothing the last code it read is first in Recent scans or on  *)
(* the panel of the app, unless a page had two requests under way; nobody  *)
(* is turned away with a ticket that is still good; and when no answer was *)
(* lost every scanned ticket was shown as admitted.                        *)
THEOREM ScreensAlwaysShowLast == Spec => []ScreenShowsLast
<1>1. ASSUME ScreenInv
      PROVE  ScreenShowsLast
    <2>1. \A s \in Scanners, c \in Scans : WaitsFor(s, c) => c \in Waiting(s)
        BY ScreensAssumption DEF WaitsFor, Waiting, Busy, Started, Ended, AtApi
    <2>2. ASSUME NEW s \in Scanners, Waiting(s) = {}
          PROVE  OnShow(s) = last[s] \/ s \in crossed \cap WebScanners
        BY <1>1, <2>1, <2>2 DEF ScreenInv, InOrder
    <2>3. ASSUME failures = 0, Busy = {}, NEW k \in Tickets, status[k] = "SCANNED"
          PROVE  admitted[k] # {}
        <3>1. \A c \in Scans : pc[c] # "answer"
            BY <2>3, ScreensAssumption DEF Busy, Started, Ended
        <3> QED
            BY <1>1, <2>3, <3>1 DEF ScreenInv, ScannedAreAdmitted, Admits
    <2>4. \A k \in denied : status[k] # "ISSUED"
        BY <1>1 DEF ScreenInv, AdmissionInv
    <2> QED
        BY <2>2, <2>3, <2>4 DEF ScreenShowsLast
<1> QED
    BY <1>1, ScreenInit, ScreenInductive, PTL DEF Spec

-------------------------------------------------------------------------------
(* What clients and keys do shows.                                         *)

(* What request c asks for is a client's, and within its scopes.           *)
AsksWithin(c) ==
    /\ ask[c].client \in MadeClients
    /\ ask[c].scopes \subseteq client[ask[c].client].scopes

(* Exchange c is getting the token for its code, or has it.                *)
Redeems(c) == pc[c] = "token" \/ access[c].state # "none"

(* A code is within the scopes of its client, a token is as the code was   *)
(* granted, and one exchange at most gets past a code.                     *)
GrantInv ==
    /\ PartnerInv
    /\ DOMAIN grantCode = Grants
    /\ \A g \in Grants :
        /\ grantCode[g] # "none" => pc[g] = "done"
        /\ pc[g] = "client" => ask[g].client \in MadeClients
        /\ pc[g] = "issue" \/ grantCode[g] # "none" => AsksWithin(g)
    /\ \A c \in Askers :
        /\ pc[c] # "idle" => ask[c].client \in MadeClients
        /\ pc[c] \in {"idle", "client", "code", "burn", "token"} => access[c].state = "none"
    /\ \A c \in Issuings :
        /\ pc[c] = "token" => AsksWithin(c)
        /\ access[c].state # "none" =>
              /\ access[c].client \in MadeClients
              /\ access[c].scopes \subseteq client[access[c].client].scopes
    /\ \A c \in Exchanges :
        /\ pc[c] # "idle" => ask[c].of \in Grants /\ grantCode[ask[c].of] # "none"
        /\ pc[c] \in {"burn", "token"} => ask[ask[c].of].client = ask[c].client
        /\ Redeems(c) => grantCode[ask[c].of] = "used"
        /\ access[c].state # "none" =>
              /\ access[c].client = ask[ask[c].of].client
              /\ access[c].user = ask[ask[c].of].user
              /\ access[c].scopes = ask[ask[c].of].scopes
    /\ \A c, d \in Exchanges : Redeems(c) /\ Redeems(d) /\ ask[c].of = ask[d].of => c = d

LEMMA GrantInvInit == Init => GrantInv
<1> SUFFICES ASSUME Init PROVE GrantInv
    OBVIOUS
<1>1. \A c \in PartnerCalls : pc[c] = "idle"
    BY PartnersAssumption DEF Init, RequestsInit
<1> QED
    BY <1>1, PartnerInvInit
    DEF Init, PartnersInit, GrantInv, Redeems, PartnerCalls, Askers, NoAccess

(* A client that was made keeps its scopes.                                *)
ClientsStay ==
    \A k \in MadeClients : k \in MadeClients' /\ client'[k].scopes = client[k].scopes

(* Requests that have no part in codes and tokens leave them as they are.  *)
LEMMA OthersKeepGrants ==
    ASSUME GrantInv, PartnerInv', ClientsStay, UNCHANGED <<grantCode, access>>,
           \A c \in Grants \cup Askers : pc'[c] = pc[c] /\ ask'[c] = ask[c]
    PROVE  GrantInv'
<1>1. \A c \in Grants \cup Askers : AsksWithin(c) => AsksWithin(c)'
    BY DEF AsksWithin, ClientsStay
<1>2. \A c \in Exchanges : Redeems(c)' <=> Redeems(c)
    BY DEF Redeems, Askers
<1>3. \A g \in Grants :
        /\ grantCode'[g] # "none" => pc'[g] = "done"
        /\ pc'[g] = "client" => ask'[g].client \in MadeClients'
        /\ pc'[g] = "issue" \/ grantCode'[g] # "none" => AsksWithin(g)'
    BY <1>1 DEF GrantInv, ClientsStay
<1>4. \A c \in Askers :
        /\ pc'[c] # "idle" => ask'[c].client \in MadeClients'
        /\ pc'[c] \in {"idle", "client", "code", "burn", "token"} => access'[c].state = "none"
    BY DEF GrantInv, ClientsStay
<1>5. \A c \in Issuings :
        /\ pc'[c] = "token" => AsksWithin(c)'
        /\ access'[c].state # "none" =>
              /\ access'[c].client \in MadeClients'
              /\ access'[c].scopes \subseteq client'[access'[c].client].scopes
    BY <1>1 DEF GrantInv, ClientsStay, Askers
<1>6. \A c \in Exchanges :
        /\ pc'[c] # "idle" => ask'[c].of \in Grants /\ grantCode'[ask'[c].of] # "none"
        /\ pc'[c] \in {"burn", "token"} => ask'[ask'[c].of].client = ask'[c].client
        /\ Redeems(c)' => grantCode'[ask'[c].of] = "used"
        /\ access'[c].state # "none" =>
              /\ access'[c].client = ask'[ask'[c].of].client
              /\ access'[c].user = ask'[ask'[c].of].user
              /\ access'[c].scopes = ask'[ask'[c].of].scopes
    BY <1>2 DEF GrantInv, Askers
<1>7. \A c, d \in Exchanges : Redeems(c)' /\ Redeems(d)' /\ ask'[c].of = ask'[d].of => c = d
    BY <1>2 DEF GrantInv, Askers
<1> QED
    BY <1>3, <1>4, <1>5, <1>6, <1>7 DEF GrantInv

LEMMA ClientsStayThen ==
    ASSUME PartnerInv, PartnersNext
    PROVE  ClientsStay
<1>1. ASSUME NEW c \in Registrations, CreateClient(c) PROVE ClientsStay
    <2>1. /\ c \notin MadeClients /\ client'[c].scopes # {}
          /\ \A k \in Registrations \ {c} : client'[k] = client[k]
        BY <1>1 DEF CreateClient, PartnerInv, MadeClients
    <2> QED
        BY <2>1 DEF ClientsStay, MadeClients
<1>2. ASSUME NEW c \in Revocations, RevokeClient(c) PROVE ClientsStay
    <2>1. \A k \in Registrations : client'[k].scopes = client[k].scopes
        BY <1>2 DEF RevokeClient, PartnerInv, ClientRow
    <2> QED
        BY <2>1 DEF ClientsStay, MadeClients
<1>3. ASSUME UNCHANGED client PROVE ClientsStay
    BY <1>3 DEF ClientsStay, MadeClients
<1> QED
    BY <1>1, <1>2, <1>3
    DEF PartnersNext, Register, AskToRevoke, Grant, ReadClientToGrant, IssueCode, Exchange,
        ReadClientToExchange, ReadCode, BurnCode, IssueUserToken, AskToken,
        ReadClientToIssue, IssueClientToken, CallWithToken, VerifyToken, AskForKey,
        CreateKey, AskToRevokeKey, RevokeKey, CallWithKey, ResolveKey, TouchKey,
        PartnerCutShort, Expire, MinutePasses, partnerVars

(* A step of a grant or of an asker, of which one request moves.           *)
LEMMA GrantStep ==
    ASSUME GrantInv, PartnerInv', PartnersNext
    PROVE  GrantInv'
<1>0. ClientsStay
    BY ClientsStayThen DEF GrantInv
<1>a. /\ Exchanges \subseteq Askers /\ Issuings \subseteq Askers
      /\ Exchanges \cap Issuings = {}
      /\ \A c \in Askers : c \notin Grants
    <2>1. PartnerKinds[3] = Exchanges /\ PartnerKinds[4] = Issuings
        BY DEF PartnerKinds
    <2> QED
        BY <2>1, KindsDiffer, PartnersAssumption DEF Askers
<1>b. PartnerInv
    BY DEF GrantInv
<1>1. ASSUME NEW c \in PartnerCalls \ (Grants \cup Askers),
             \A d \in PartnerCalls \ {c} : pc'[d] = pc[d] /\ ask'[d] = ask[d],
             UNCHANGED <<grantCode, access>>
      PROVE  GrantInv'
    BY <1>0, <1>1, OthersKeepGrants DEF PartnerCalls, Askers
<1>2. ASSUME NEW c \in Grants, NEW k \in Registrations, NEW u \in GrantUsers,
             NEW uri \in Uris \cup {NoParty}, NEW S \in ScopeSets, Grant(c, k, u, uri, S)
      PROVE  GrantInv'
    <2>1. /\ pc[c] = "idle" /\ pc'[c] = "client" /\ k \in MadeClients
          /\ \A d \in PartnerCalls \ {c} : pc'[d] = pc[d] /\ ask'[d] = ask[d]
          /\ UNCHANGED <<client, grantCode, access>>
        BY <1>2, <1>b, PartnersAssumption DEF Grant, Begin, MovesTo, AsksFor, PartnerInv
    <2>2. ask'[c].client = k
        BY <1>2, <1>b DEF Grant, AsksFor, PartnerInv, Asked, NoAsk, PartnerCalls
    <2>3. MadeClients' = MadeClients
        BY <2>1 DEF MadeClients
    <2>4. \A d \in (Grants \cup Askers) \ {c} : d \in PartnerCalls /\ pc'[d] = pc[d] /\ ask'[d] = ask[d]
        BY <2>1 DEF PartnerCalls, Askers
    <2>5. \A d \in Exchanges : /\ Redeems(d)' <=> Redeems(d)
                               /\ pc[d] # "idle" => ask[d].of # c
        BY <1>a, <2>1, <2>4 DEF Redeems, GrantInv
    <2>6. grantCode[c] = "none"
        BY <2>1 DEF GrantInv
    <2>7. \A d \in (Grants \cup Askers) \ {c} : AsksWithin(d)' <=> AsksWithin(d)
        BY <2>1, <2>3, <2>4 DEF AsksWithin
    <2>8. \A d \in Exchanges : access[d].state # "none" => ask[d].of \in Grants \ {c}
        BY <1>a, <2>5 DEF GrantInv
    <2> QED
        BY <1>a, <2>1, <2>2, <2>3, <2>4, <2>5, <2>6, <2>7, <2>8 DEF GrantInv
<1>3. ASSUME NEW c \in Grants, ReadClientToGrant(c) PROVE GrantInv'
    <2>1. /\ pc[c] = "client" /\ pc'[c] \in {"issue", "refused"}
          /\ pc'[c] = "issue" => Grantable(c)
          /\ \A d \in PartnerCalls \ {c} : pc'[d] = pc[d]
          /\ UNCHANGED <<client, ask, grantCode, access>>
        BY <1>3, PartnersAssumption DEF ReadClientToGrant, Goto, MovesTo, partnerVars, PartnerCalls
    <2>2. MadeClients' = MadeClients /\ \A d : AsksWithin(d)' <=> AsksWithin(d)
        BY <2>1 DEF MadeClients, AsksWithin
    <2>3. grantCode[c] = "none" /\ (pc'[c] = "issue" => AsksWithin(c))
        BY <2>1 DEF GrantInv, Grantable, AsksWithin
    <2>4. \A d \in Exchanges : Redeems(d)' <=> Redeems(d)
        BY <1>a, <2>1 DEF Redeems, PartnerCalls, Askers
    <2>5. \A d \in (Grants \cup Askers) \ {c} : pc'[d] = pc[d]
        BY <2>1 DEF PartnerCalls, Askers
    <2> QED
        BY <1>a, <2>1, <2>2, <2>3, <2>4, <2>5 DEF GrantInv
<1>4. ASSUME NEW c \in Grants, IssueCode(c) PROVE GrantInv'
    <2>1. /\ pc[c] = "issue" /\ pc'[c] = "done"
          /\ grantCode' = [grantCode EXCEPT ![c] = "fresh"]
          /\ \A d \in PartnerCalls \ {c} : pc'[d] = pc[d]
          /\ UNCHANGED <<client, ask, access>>
        BY <1>4, PartnersAssumption DEF IssueCode, Goto, MovesTo, PartnerCalls
    <2>2. MadeClients' = MadeClients /\ \A d : AsksWithin(d)' <=> AsksWithin(d)
        BY <2>1 DEF MadeClients, AsksWithin
    <2>3. DOMAIN grantCode' = Grants /\ grantCode'[c] = "fresh" /\ grantCode[c] = "none"
          /\ \A g \in Grants \ {c} : grantCode'[g] = grantCode[g]
        BY <2>1 DEF GrantInv
    <2>4. \A d \in Exchanges : /\ Redeems(d)' <=> Redeems(d)
                               /\ pc[d] # "idle" => ask[d].of \in Grants \ {c}
                               /\ Redeems(d) => ask[d].of \in Grants \ {c}
        BY <1>a, <2>1, <2>3 DEF Redeems, PartnerCalls, Askers, GrantInv
    <2>5. \A d \in (Grants \cup Askers) \ {c} : pc'[d] = pc[d]
        BY <2>1 DEF PartnerCalls, Askers
    <2> QED
        BY <1>a, <2>1, <2>2, <2>3, <2>4, <2>5 DEF GrantInv
<1>5. ASSUME NEW c \in Askers,
             \/ \E k \in Registrations, g \in Grants, uri \in Uris \cup {NoParty} :
                    c \in Exchanges /\ Exchange(c, k, g, uri)
             \/ \E k \in Registrations, S \in ScopeSets : c \in Issuings /\ AskToken(c, k, S)
      PROVE  GrantInv'
    <2>0. /\ pc[c] = "idle" /\ MovesTo(c, "client") /\ \E input : AsksFor(c, input)
          /\ UNCHANGED <<client, grantCode, access>>
        BY <1>5 DEF Exchange, AskToken, Begin
    <2>1. /\ pc[c] = "idle" /\ pc'[c] = "client" /\ access[c].state = "none"
          /\ \A d \in PartnerCalls \ {c} : pc'[d] = pc[d] /\ ask'[d] = ask[d]
          /\ UNCHANGED <<client, grantCode, access>>
        <3>1. c \in Calls /\ PartnerCalls \subseteq Calls /\ access[c].state = "none"
            BY <2>0, PartnersAssumption DEF GrantInv, PartnerCalls
        <3>2. \A d \in PartnerCalls \ {c} : ask'[d] = ask[d]
            BY <2>0, <1>b DEF AsksFor, PartnerInv
        <3> QED
            BY <2>0, <3>1, <3>2 DEF MovesTo
    <2>2. /\ ask'[c].client \in MadeClients
          /\ c \in Exchanges => ask'[c].of \in Grants /\ grantCode[ask'[c].of] # "none"
        <3>1. CASE \E k \in Registrations, g \in Grants, uri \in Uris \cup {NoParty} :
                       c \in Exchanges /\ Exchange(c, k, g, uri)
            BY <1>b, <3>1 DEF Exchange, AsksFor, PartnerInv, Asked, NoAsk, PartnerCalls
        <3>2. CASE \E k \in Registrations, S \in ScopeSets : c \in Issuings /\ AskToken(c, k, S)
            BY <1>a, <1>b, <3>2 DEF AskToken, AsksFor, PartnerInv, Asked, NoAsk, PartnerCalls
        <3> QED
            BY <1>5, <3>1, <3>2
    <2>3. MadeClients' = MadeClients
        BY <2>1 DEF MadeClients
    <2>4. \A d \in (Grants \cup Askers) \ {c} : pc'[d] = pc[d] /\ ask'[d] = ask[d]
        BY <2>1 DEF PartnerCalls, Askers
    <2>5. \A d \in Exchanges : /\ Redeems(d)' <=> Redeems(d)
                               /\ Redeems(d) => d # c
        BY <1>a, <2>1, <2>4 DEF Redeems
    <2>6. \A d \in (Grants \cup Askers) \ {c} : AsksWithin(d)' <=> AsksWithin(d)
        BY <2>1, <2>3, <2>4 DEF AsksWithin
    <2>7. \A d \in Exchanges : pc[d] # "idle" => ask'[ask[d].of] = ask[ask[d].of]
        BY <1>a, <2>4 DEF GrantInv
    <2> QED
        BY <1>a, <2>1, <2>2, <2>3, <2>4, <2>5, <2>6, <2>7 DEF GrantInv
<1>6. ASSUME NEW c \in Exchanges, ReadClientToExchange(c) \/ ReadCode(c) PROVE GrantInv'
    <2>1. /\ pc[c] \in {"client", "code"} /\ pc'[c] \in {"code", "burn", "refused"}
          /\ pc'[c] = "burn" => Redeemable(c)
          /\ \A d \in PartnerCalls \ {c} : pc'[d] = pc[d]
          /\ UNCHANGED <<client, ask, grantCode, access>>
        BY <1>6, <1>a, PartnersAssumption
        DEF ReadClientToExchange, ReadCode, Goto, MovesTo, partnerVars, PartnerCalls
    <2>2. MadeClients' = MadeClients /\ \A d : AsksWithin(d)' <=> AsksWithin(d)
        BY <2>1 DEF MadeClients, AsksWithin
    <2>3. \A d \in (Grants \cup Askers) \ {c} : pc'[d] = pc[d]
        BY <2>1 DEF PartnerCalls, Askers
    <2>4. access[c].state = "none"
        BY <1>a, <2>1 DEF GrantInv
    <2>5. \A d \in Exchanges : Redeems(d)' <=> Redeems(d)
        BY <1>a, <2>1, <2>3 DEF Redeems
    <2>6. pc'[c] = "burn" => ask[ask[c].of].client = ask[c].client
        BY <2>1 DEF Redeemable
    <2> QED
        BY <1>a, <2>1, <2>2, <2>3, <2>4, <2>5, <2>6 DEF GrantInv
<1>7. ASSUME NEW c \in Exchanges, BurnCode(c) PROVE GrantInv'
    <2> DEFINE g == ask[c].of
    <2>1. /\ pc[c] = "burn" /\ g \in Grants /\ access[c].state = "none"
          /\ \/ grantCode[g] # "used" /\ grantCode' = [grantCode EXCEPT ![g] = "used"] /\ pc'[c] = "token"
             \/ UNCHANGED grantCode /\ pc'[c] = "refused"
          /\ \A d \in PartnerCalls \ {c} : pc'[d] = pc[d]
          /\ UNCHANGED <<client, ask, access>>
        BY <1>7, <1>a, PartnersAssumption DEF BurnCode, Goto, MovesTo, PartnerCalls, GrantInv
    <2>2. MadeClients' = MadeClients /\ \A d : AsksWithin(d)' <=> AsksWithin(d)
        BY <2>1 DEF MadeClients, AsksWithin
    <2>3. \A d \in (Grants \cup Askers) \ {c} : pc'[d] = pc[d]
        BY <2>1 DEF PartnerCalls, Askers
    <2>4. /\ DOMAIN grantCode' = Grants
          /\ \A h \in Grants : grantCode'[h] # "none" <=> grantCode[h] # "none"
          /\ \A h \in Grants : grantCode[h] = "used" => grantCode'[h] = "used"
          /\ pc'[c] = "token" => grantCode'[g] = "used" /\ grantCode[g] # "used"
        BY <2>1, <1>a DEF GrantInv
    <2>5. \A d \in Exchanges \ {c} : Redeems(d)' <=> Redeems(d)
        BY <1>a, <2>1, <2>3 DEF Redeems
    <2>6. Redeems(c)' => pc'[c] = "token"
        BY <2>1 DEF Redeems
    <2>7. \A d \in Exchanges \ {c} : Redeems(d) /\ ask[d].of = g => grantCode[g] = "used"
        BY DEF GrantInv
    <2>8. \A d, e \in Exchanges : Redeems(d)' /\ Redeems(e)' /\ ask'[d].of = ask'[e].of => d = e
        BY <2>1, <2>4, <2>5, <2>6, <2>7 DEF GrantInv
    <2>9. \A d \in Exchanges : Redeems(d) => ask[d].of \in Grants
        BY <1>a DEF Redeems, GrantInv
    <2>10. \A h \in Grants :
            /\ grantCode'[h] # "none" => pc'[h] = "done"
            /\ pc'[h] = "client" => ask'[h].client \in MadeClients'
            /\ pc'[h] = "issue" \/ grantCode'[h] # "none" => AsksWithin(h)'
        BY <1>a, <2>1, <2>2, <2>3, <2>4 DEF GrantInv
    <2>11. \A d \in Askers :
            /\ pc'[d] # "idle" => ask'[d].client \in MadeClients'
            /\ pc'[d] \in {"idle", "client", "code", "burn", "token"} => access'[d].state = "none"
        BY <1>a, <2>1, <2>2, <2>3 DEF GrantInv
    <2>12. \A d \in Issuings :
            /\ pc'[d] = "token" => AsksWithin(d)'
            /\ access'[d].state # "none" =>
                  /\ access'[d].client \in MadeClients'
                  /\ access'[d].scopes \subseteq client'[access'[d].client].scopes
        BY <1>a, <2>1, <2>2, <2>3 DEF GrantInv
    <2>13. \A d \in Exchanges :
            /\ pc'[d] # "idle" => ask'[d].of \in Grants /\ grantCode'[ask'[d].of] # "none"
            /\ pc'[d] \in {"burn", "token"} => ask'[ask'[d].of].client = ask'[d].client
            /\ access'[d].state # "none" =>
                  /\ access'[d].client = ask'[ask'[d].of].client
                  /\ access'[d].user = ask'[ask'[d].of].user
                  /\ access'[d].scopes = ask'[ask'[d].of].scopes
        BY <1>a, <2>1, <2>3, <2>4 DEF GrantInv
    <2>14. \A d \in Exchanges : Redeems(d)' => grantCode'[ask'[d].of] = "used"
        BY <2>1, <2>4, <2>5, <2>6, <2>9 DEF GrantInv
    <2> QED
        BY <2>4, <2>8, <2>10, <2>11, <2>12, <2>13, <2>14 DEF GrantInv
<1>8. ASSUME NEW c \in Askers,
             \/ c \in Exchanges /\ IssueUserToken(c)
             \/ c \in Issuings /\ IssueClientToken(c)
      PROVE  GrantInv'
    <2>1. /\ pc[c] = "token" /\ pc'[c] = "done"
          /\ \A d \in PartnerCalls \ {c} : pc'[d] = pc[d]
          /\ \A d \in Askers \ {c} : access'[d] = access[d]
          /\ UNCHANGED <<client, ask, grantCode>>
        BY <1>8, <1>a, <1>b, PartnersAssumption
        DEF IssueUserToken, IssueClientToken, Goto, MovesTo, PartnerCalls, PartnerInv
    <2>2. c \in Exchanges => /\ access'[c].client = ask[c].client
                             /\ access'[c].user = ask[ask[c].of].user
                             /\ access'[c].scopes = ask[ask[c].of].scopes
        BY <1>8, <1>a, <1>b DEF IssueUserToken, PartnerInv
    <2>3. c \in Issuings => access'[c].client = ask[c].client /\ access'[c].scopes = ask[c].scopes
        <3>1. ASSUME c \in Issuings PROVE IssueClientToken(c) /\ c \in DOMAIN access
            BY <1>8, <1>a, <1>b, <3>1 DEF PartnerInv
        <3>2. ASSUME c \in Issuings
              PROVE  access'[c] = [NoAccess EXCEPT !.state = "live", !.client = ask[c].client,
                                                   !.scopes = ask[c].scopes]
            BY <3>1, <3>2 DEF IssueClientToken
        <3> QED
            BY <3>2 DEF NoAccess
    <2>4. MadeClients' = MadeClients /\ \A d : AsksWithin(d)' <=> AsksWithin(d)
        BY <2>1 DEF MadeClients, AsksWithin
    <2>5. \A d \in (Grants \cup Askers) \ {c} : pc'[d] = pc[d]
        BY <2>1 DEF PartnerCalls, Askers
    <2>6. \A d \in Exchanges : Redeems(d)' => Redeems(d)
        BY <1>a, <2>1, <2>5 DEF Redeems
    <2>7. c \in Exchanges => ask[ask[c].of].client = ask[c].client
        BY <2>1 DEF GrantInv
    <2>8. c \in Issuings => AsksWithin(c)
        BY <2>1 DEF GrantInv
    <2>9. \A g \in Grants :
            /\ grantCode'[g] # "none" => pc'[g] = "done"
            /\ pc'[g] = "client" => ask'[g].client \in MadeClients'
            /\ pc'[g] = "issue" \/ grantCode'[g] # "none" => AsksWithin(g)'
        BY <1>a, <2>1, <2>4, <2>5 DEF GrantInv
    <2>10. \A d \in Askers :
            /\ pc'[d] # "idle" => ask'[d].client \in MadeClients'
            /\ pc'[d] \in {"idle", "client", "code", "burn", "token"} => access'[d].state = "none"
        BY <2>1, <2>4, <2>5 DEF GrantInv
    <2>11. \A d \in Issuings :
            /\ pc'[d] = "token" => AsksWithin(d)'
            /\ access'[d].state # "none" =>
                  /\ access'[d].client \in MadeClients'
                  /\ access'[d].scopes \subseteq client'[access'[d].client].scopes
        BY <1>a, <2>1, <2>3, <2>4, <2>5, <2>8 DEF GrantInv, AsksWithin
    <2>12. \A d \in Exchanges :
            /\ pc'[d] # "idle" => ask'[d].of \in Grants /\ grantCode'[ask'[d].of] # "none"
            /\ pc'[d] \in {"burn", "token"} => ask'[ask'[d].of].client = ask'[d].client
            /\ access'[d].state # "none" =>
                  /\ access'[d].client = ask'[ask'[d].of].client
                  /\ access'[d].user = ask'[ask'[d].of].user
                  /\ access'[d].scopes = ask'[ask'[d].of].scopes
        BY <1>a, <2>1, <2>2, <2>5, <2>7 DEF GrantInv
    <2>13. /\ \A d \in Exchanges : Redeems(d)' => grantCode'[ask'[d].of] = "used"
           /\ \A d, e \in Exchanges : Redeems(d)' /\ Redeems(e)' /\ ask'[d].of = ask'[e].of => d = e
        BY <2>1, <2>6 DEF GrantInv
    <2> QED
        BY <2>1, <2>9, <2>10, <2>11, <2>12, <2>13 DEF GrantInv
<1>9. ASSUME NEW c \in Issuings, ReadClientToIssue(c) PROVE GrantInv'
    <2>1. /\ pc[c] = "client" /\ pc'[c] \in {"token", "refused"}
          /\ pc'[c] = "token" => ask[c].scopes \subseteq client[ask[c].client].scopes
          /\ \A d \in PartnerCalls \ {c} : pc'[d] = pc[d]
          /\ UNCHANGED <<client, ask, grantCode, access>>
        BY <1>9, <1>a, PartnersAssumption
        DEF ReadClientToIssue, Goto, MovesTo, partnerVars, PartnerCalls
    <2>2. MadeClients' = MadeClients /\ \A d : AsksWithin(d)' <=> AsksWithin(d)
        BY <2>1 DEF MadeClients, AsksWithin
    <2>3. \A d \in (Grants \cup Askers) \ {c} : pc'[d] = pc[d]
        BY <2>1 DEF PartnerCalls, Askers
    <2>4. \A d \in Exchanges : Redeems(d)' <=> Redeems(d)
        BY <1>a, <2>1, <2>3 DEF Redeems
    <2>5. pc'[c] = "token" => AsksWithin(c)
        BY <1>a, <2>1 DEF GrantInv, AsksWithin
    <2> QED
        BY <1>a, <2>1, <2>2, <2>3, <2>4, <2>5 DEF GrantInv
<1>10. ASSUME NEW c \in PartnerCalls, PartnerCutShort(c) PROVE GrantInv'
    <2>1. /\ pc[c] \notin {"idle", "done"} /\ pc'[c] = "dead"
          /\ \A d \in PartnerCalls \ {c} : pc'[d] = pc[d]
          /\ UNCHANGED <<client, ask, grantCode, access>>
        BY <1>10, PartnersAssumption
        DEF PartnerCutShort, CutShort, Busy, Started, Ended, MovesTo, partnerVars
    <2>2. MadeClients' = MadeClients /\ \A d : AsksWithin(d)' <=> AsksWithin(d)
        BY <2>1 DEF MadeClients, AsksWithin
    <2>3. \A d \in (Grants \cup Askers) \ {c} : pc'[d] = pc[d]
        BY <2>1 DEF PartnerCalls, Askers
    <2>4. \A d \in Exchanges : Redeems(d)' => Redeems(d)
        BY <1>a, <2>1, <2>3 DEF Redeems
    <2>5. \A g \in Grants : grantCode[g] # "none" => pc'[g] = "done"
        BY <2>1, <2>3 DEF GrantInv
    <2> QED
        BY <1>a, <2>1, <2>2, <2>3, <2>4, <2>5 DEF GrantInv
<1>11. ASSUME Expire PROVE GrantInv'
    <2>1. /\ DOMAIN grantCode' = Grants
          /\ \A g \in Grants : /\ grantCode'[g] # "none" <=> grantCode[g] # "none"
                               /\ grantCode[g] = "used" => grantCode'[g] = "used"
        BY <1>11 DEF Expire, GrantInv
    <2>2. \A c \in Askers : /\ access'[c].state # "none" <=> access[c].state # "none"
                            /\ access'[c].client = access[c].client
                            /\ access'[c].user = access[c].user
                            /\ access'[c].scopes = access[c].scopes
        BY <1>11, <1>b DEF Expire, PartnerInv, NoAccess
    <2>3. UNCHANGED <<pc, client, ask>>
        BY <1>11 DEF Expire, requestVars
    <2>4. MadeClients' = MadeClients /\ \A d : AsksWithin(d)' <=> AsksWithin(d)
        BY <2>3 DEF MadeClients, AsksWithin
    <2>5. \A d \in Exchanges : /\ Redeems(d)' <=> Redeems(d)
                               /\ Redeems(d) => ask[d].of \in Grants
        BY <1>a, <2>2, <2>3 DEF Redeems, GrantInv
    <2> QED
        BY <1>a, <2>1, <2>2, <2>3, <2>4, <2>5 DEF GrantInv
<1>12. ASSUME MinutePasses PROVE GrantInv'
    BY <1>0, <1>12, OthersKeepGrants DEF MinutePasses, requestVars
<1>13. ASSUME NEW c \in Registrations, Register(c) \/ CreateClient(c) PROVE GrantInv'
    <2>1. c \in PartnerCalls \ (Grants \cup Askers)
        BY KindsDiffer DEF PartnerCalls
    <2> QED
        BY <1>1, <1>13, <1>b, <2>1, PartnersAssumption
        DEF Register, CreateClient, Begin, Goto, MovesTo, AsksFor, PartnerInv
<1>14. ASSUME NEW c \in Revocations,
              RevokeClient(c) \/ \E k \in Registrations : AskToRevoke(c, k)
       PROVE  GrantInv'
    <2>1. c \in PartnerCalls \ (Grants \cup Askers)
        BY KindsDiffer DEF PartnerCalls
    <2> QED
        BY <1>1, <1>14, <1>b, <2>1, PartnersAssumption
        DEF RevokeClient, AskToRevoke, Begin, Goto, MovesTo, AsksFor, PartnerInv
<1>15. ASSUME NEW c \in TokenCalls, VerifyToken(c) \/ \E t \in Askers : CallWithToken(c, t)
       PROVE  GrantInv'
    <2>1. c \in PartnerCalls \ (Grants \cup Askers)
        BY KindsDiffer DEF PartnerCalls
    <2> QED
        BY <1>1, <1>15, <1>b, <2>1, PartnersAssumption
        DEF VerifyToken, CallWithToken, Begin, Goto, MovesTo, AsksFor, PartnerInv
<1>16. ASSUME NEW c \in KeyCreations, AskForKey(c) \/ CreateKey(c) PROVE GrantInv'
    <2>1. c \in PartnerCalls \ (Grants \cup Askers)
        BY KindsDiffer DEF PartnerCalls
    <2> QED
        BY <1>1, <1>16, <1>b, <2>1, PartnersAssumption
        DEF AskForKey, CreateKey, Begin, Goto, MovesTo, partnerVars, PartnerInv
<1>17. ASSUME NEW c \in KeyRevocations,
              RevokeKey(c) \/ \E k \in KeyCreations : AskToRevokeKey(c, k)
       PROVE  GrantInv'
    <2>1. c \in PartnerCalls \ (Grants \cup Askers)
        BY KindsDiffer DEF PartnerCalls
    <2> QED
        BY <1>1, <1>17, <1>b, <2>1, PartnersAssumption
        DEF RevokeKey, AskToRevokeKey, Begin, Goto, MovesTo, AsksFor, PartnerInv
<1>18. ASSUME NEW c \in KeyCalls,
              ResolveKey(c) \/ TouchKey(c) \/ \E k \in KeyCreations : CallWithKey(c, k)
       PROVE  GrantInv'
    <2>1. c \in PartnerCalls \ (Grants \cup Askers)
        BY KindsDiffer DEF PartnerCalls
    <2> QED
        BY <1>1, <1>18, <1>b, <2>1, PartnersAssumption
        DEF ResolveKey, TouchKey, CallWithKey, Begin, Goto, MovesTo, AsksFor, PartnerInv
<1> QED
    BY <1>a, <1>2, <1>3, <1>4, <1>5, <1>6, <1>7, <1>8, <1>9, <1>10, <1>11, <1>12, <1>13,
       <1>14, <1>15, <1>16, <1>17, <1>18
    DEF PartnersNext

LEMMA GrantInductive == GrantInv /\ [Next]_vars => GrantInv'
<1> SUFFICES ASSUME GrantInv, [Next]_vars PROVE GrantInv'
    OBVIOUS
<1>0. PartnerInv'
    BY PartnerInductive DEF GrantInv
<1>1. CASE UNCHANGED vars
    BY <1>0, <1>1 DEF GrantInv, AsksWithin, Redeems, MadeClients, vars, partnerVars, requestVars
<1>2. CASE Next
    <2>1. PICK i \in 1..11 : StepOf(i)
        BY <1>2, StepsOfParts
    <2>2. CASE i = 9
        BY <1>0, <2>1, <2>2, GrantStep DEF StepOf
    <2>3. CASE i # 9
        <3>1. \A c \in PartnerCalls : pc[c] = "idle" /\ pc'[c] = "idle"
            <4>1. PartnerCalls \subseteq Parts[9] \cap Calls
                BY PartsByNumber, PartnersAssumption
            <4> QED
                BY <2>1, <2>3, <4>1, OthersAreIdle
        <3>2. UNCHANGED partnerVars
            BY <2>1, <2>3 DEF StepOf
        <3>3. ClientsStay
            BY <3>2 DEF ClientsStay, MadeClients, partnerVars
        <3> QED
            BY <1>0, <3>1, <3>2, <3>3, OthersKeepGrants DEF PartnerCalls, Askers, partnerVars
    <2> QED
        BY <2>2, <2>3
<1> QED
    BY <1>1, <1>2

(* As long as nothing failed, a key that let a call in was touched, or is  *)
(* about to be by that call.                                               *)
KeyInv ==
    /\ PartnerInv
    /\ failures \in Nat
    /\ DOMAIN lastUsed = KeyCreations
    /\ failures = 0 => \A c \in KeyCalls : served[c] # NoParty =>
            /\ served[c] \in KeyCreations
            /\ lastUsed[served[c]] # "never" \/ (pc[c] = "touch" /\ ask[c].of = served[c])

LEMMA KeyStep ==
    ASSUME KeyInv, PartnerInv', PartnersNext
    PROVE  KeyInv'
<1>0. FailuresGrow
    BY FailuresOfPartners
<1>1. failures' \in Nat /\ (failures' = 0 => failures = 0)
    BY <1>0 DEF FailuresGrow, KeyInv
<1>3. PartnerCalls \subseteq Calls /\ PartnerInv /\ DOMAIN ask = PartnerCalls
    BY PartnersAssumption DEF KeyInv, PartnerInv
<1> USE <1>3 DEF Begin, Goto, MovesTo, AsksFor, partnerVars
<1>4. ASSUME NEW c \in PartnerCalls \ KeyCalls,
             \A d \in PartnerCalls \ {c} : pc'[d] = pc[d] /\ ask'[d] = ask[d],
             \A d \in KeyCalls : served'[d] = served[d], UNCHANGED lastUsed
      PROVE  KeyInv'
    BY <1>1, <1>4 DEF KeyInv, PartnerCalls
<1>5. ASSUME NEW c \in Registrations, Register(c) \/ CreateClient(c) PROVE KeyInv'
    <2>1. c \in PartnerCalls \ KeyCalls
        BY KindsDiffer DEF PartnerCalls
    <2> QED
        BY <1>4, <1>5, <2>1 DEF Register, CreateClient
<1>6. ASSUME NEW c \in Revocations,
             RevokeClient(c) \/ \E k \in Registrations : AskToRevoke(c, k)
      PROVE  KeyInv'
    <2>1. c \in PartnerCalls \ KeyCalls
        BY KindsDiffer DEF PartnerCalls
    <2> QED
        BY <1>4, <1>6, <2>1 DEF RevokeClient, AskToRevoke
<1>7. ASSUME NEW c \in Grants,
             \/ ReadClientToGrant(c) \/ IssueCode(c)
             \/ \E k \in Registrations, u \in GrantUsers, uri \in Uris \cup {NoParty}, S \in ScopeSets :
                    Grant(c, k, u, uri, S)
      PROVE  KeyInv'
    <2>1. c \in PartnerCalls \ KeyCalls
        BY KindsDiffer DEF PartnerCalls
    <2> QED
        BY <1>4, <1>7, <2>1 DEF ReadClientToGrant, IssueCode, Grant
<1>8. ASSUME NEW c \in Exchanges,
             \/ \E k \in Registrations, g \in Grants, uri \in Uris \cup {NoParty} :
                    Exchange(c, k, g, uri)
             \/ ReadClientToExchange(c) \/ ReadCode(c) \/ BurnCode(c) \/ IssueUserToken(c)
      PROVE  KeyInv'
    <2>1. c \in PartnerCalls \ KeyCalls
        BY KindsDiffer DEF PartnerCalls, Askers
    <2>2. CASE \E k \in Registrations, g \in Grants, uri \in Uris \cup {NoParty} : Exchange(c, k, g, uri)
        BY <1>4, <2>1, <2>2 DEF Exchange
    <2>3. CASE ReadClientToExchange(c) \/ ReadCode(c)
        BY <1>4, <2>1, <2>3 DEF ReadClientToExchange, ReadCode
    <2>4. CASE BurnCode(c)
        BY <1>4, <2>1, <2>4 DEF BurnCode
    <2>5. CASE IssueUserToken(c)
        BY <1>4, <2>1, <2>5 DEF IssueUserToken
    <2> QED
        BY <1>8, <2>2, <2>3, <2>4, <2>5
<1>9. ASSUME NEW c \in Issuings,
             \/ \E k \in Registrations, S \in ScopeSets : AskToken(c, k, S)
             \/ ReadClientToIssue(c) \/ IssueClientToken(c)
      PROVE  KeyInv'
    <2>1. c \in PartnerCalls \ KeyCalls
        BY KindsDiffer DEF PartnerCalls, Askers
    <2> QED
        BY <1>4, <1>9, <2>1 DEF AskToken, ReadClientToIssue, IssueClientToken
<1>10. ASSUME NEW c \in TokenCalls, VerifyToken(c) \/ \E t \in Askers : CallWithToken(c, t)
       PROVE  KeyInv'
    <2>1. c \in PartnerCalls \ KeyCalls
        BY KindsDiffer DEF PartnerCalls
    <2>2. \A d \in KeyCalls : served'[d] = served[d]
        BY <1>10, <2>1 DEF VerifyToken, CallWithToken, PartnerInv
    <2> QED
        BY <1>4, <1>10, <2>1, <2>2 DEF VerifyToken, CallWithToken
<1>11. ASSUME NEW c \in KeyCreations, AskForKey(c) \/ CreateKey(c) PROVE KeyInv'
    <2>1. c \in PartnerCalls \ KeyCalls
        BY KindsDiffer DEF PartnerCalls
    <2> QED
        BY <1>4, <1>11, <2>1 DEF AskForKey, CreateKey
<1>12. ASSUME NEW c \in KeyRevocations,
              RevokeKey(c) \/ \E k \in KeyCreations : AskToRevokeKey(c, k)
       PROVE  KeyInv'
    <2>1. c \in PartnerCalls \ KeyCalls
        BY KindsDiffer DEF PartnerCalls
    <2> QED
        BY <1>4, <1>12, <2>1 DEF RevokeKey, AskToRevokeKey
<1>13. ASSUME NEW c \in KeyCalls, NEW k \in KeyCreations, CallWithKey(c, k) PROVE KeyInv'
    <2>1. c \in PartnerCalls /\ served[c] = NoParty
        BY <1>13 DEF PartnerCalls, CallWithKey, PartnerInv
    <2> QED
        BY <1>1, <1>13, <2>1 DEF CallWithKey, KeyInv, PartnerCalls
<1>14. ASSUME NEW c \in KeyCalls, ResolveKey(c) PROVE KeyInv'
    <2> DEFINE k == ask[c].of
    <2>1. /\ c \in PartnerCalls /\ pc[c] = "verify" /\ k \in KeyCreations
          /\ \A d \in PartnerCalls \ {c} : pc'[d] = pc[d]
          /\ UNCHANGED <<ask, lastUsed>>
        BY <1>14 DEF PartnerCalls, ResolveKey, PartnerInv
    <2>2. CASE apiKey[k] = "live"
        <3>1. /\ served'[c] = k /\ \A d \in KeyCalls \ {c} : served'[d] = served[d]
              /\ pc'[c] = IF TouchDue(k) THEN "touch" ELSE "done"
            BY <1>14, <2>1, <2>2 DEF ResolveKey, PartnerInv
        <3> QED
            BY <1>1, <2>1, <3>1 DEF TouchDue, KeyInv, PartnerCalls
    <2>3. CASE apiKey[k] # "live"
        BY <1>1, <1>14, <2>1, <2>3 DEF ResolveKey, KeyInv, PartnerCalls
    <2> QED
        BY <2>2, <2>3
<1>15. ASSUME NEW c \in KeyCalls, TouchKey(c) PROVE KeyInv'
    <2>1. c \in PartnerCalls
        BY DEF PartnerCalls
    <2>2. /\ DOMAIN lastUsed' = KeyCreations
          /\ \A k \in KeyCreations : lastUsed[k] # "never" \/ k = ask[c].of => lastUsed'[k] # "never"
        BY <1>15 DEF TouchKey, KeyInv
    <2>3. /\ UNCHANGED <<ask, served>> /\ \A d \in PartnerCalls \ {c} : pc'[d] = pc[d]
        BY <1>15 DEF TouchKey
    <2>4. \A d \in KeyCalls : d \in PartnerCalls
        BY DEF PartnerCalls
    <2> QED
        BY <1>1, <2>1, <2>2, <2>3, <2>4 DEF KeyInv
<1>16. ASSUME NEW c \in PartnerCalls, PartnerCutShort(c) PROVE KeyInv'
    <2>1. failures' = failures + 1 /\ UNCHANGED lastUsed
        BY <1>16 DEF PartnerCutShort, CutShort
    <2> QED
        BY <2>1 DEF KeyInv
<1>17. ASSUME Expire PROVE KeyInv'
    BY <1>17 DEF Expire, KeyInv, requestVars
<1>18. ASSUME MinutePasses PROVE KeyInv'
    <2>1. /\ DOMAIN lastUsed' = KeyCreations
          /\ \A k \in KeyCreations : lastUsed[k] # "never" => lastUsed'[k] # "never"
        BY <1>18 DEF MinutePasses, KeyInv
    <2>2. UNCHANGED <<pc, failures, ask, served>>
        BY <1>18 DEF MinutePasses, requestVars
    <2> QED
        BY <2>1, <2>2 DEF KeyInv
<1> QED
    BY <1>5, <1>6, <1>7, <1>8, <1>9, <1>10, <1>11, <1>12, <1>13, <1>14, <1>15, <1>16,
       <1>17, <1>18
    DEF PartnersNext

LEMMA KeyInductive == KeyInv /\ [Next]_vars => KeyInv'
<1> SUFFICES ASSUME KeyInv, [Next]_vars PROVE KeyInv'
    OBVIOUS
<1>0. PartnerInv'
    BY PartnerInductive DEF KeyInv
<1>1. CASE UNCHANGED vars
    BY <1>0, <1>1 DEF KeyInv, vars, partnerVars, requestVars
<1>2. CASE Next
    <2>1. PICK i \in 1..11 : StepOf(i)
        BY <1>2, StepsOfParts
    <2>2. CASE i = 9
        BY <1>0, <2>1, <2>2, KeyStep DEF StepOf
    <2>3. CASE i # 9
        <3>1. \A c \in PartnerCalls : pc[c] = "idle" /\ pc'[c] = "idle"
            <4>1. PartnerCalls \subseteq Parts[9] \cap Calls
                BY PartsByNumber, PartnersAssumption
            <4> QED
                BY <2>1, <2>3, <4>1, OthersAreIdle
        <3>2. UNCHANGED partnerVars
            BY <2>1, <2>3 DEF StepOf
        <3>3. failures' \in Nat /\ (failures' = 0 => failures = 0)
            BY <1>2, CountersStep DEF KeyInv, FailuresGrow
        <3> QED
            BY <1>0, <3>1, <3>2, <3>3 DEF KeyInv, PartnerCalls, partnerVars
    <2> QED
        BY <2>2, <2>3
<1> QED
    BY <1>1, <1>2

(* exchangeCode, issueClientToken and resolve: a token is the client's and *)
(* the user's of the grant, within its scopes, one for a code, however     *)
(* exchanges race each other and revocations, and a key that let a call in *)
(* is shown as used.                                                       *)
THEOREM GrantsAlwaysShow == Spec => []GrantsShow
<1>1. Init => KeyInv
    BY PartnerInvInit, RequestsAssumption
    DEF Init, RequestsInit, PartnersInit, KeyInv
<1>2. GrantInv => TokensFitGrants
    <2> SUFFICES ASSUME GrantInv PROVE TokensFitGrants
        OBVIOUS
    <2>1. \A c \in Exchanges : c \in Askers /\ (access[c].state # "none" => Redeems(c))
        BY DEF Askers, Redeems
    <2>2. ASSUME NEW c \in Exchanges, access[c].state # "none"
          PROVE  /\ access[c].client = ask[ask[c].of].client
                 /\ access[c].user = ask[ask[c].of].user
                 /\ access[c].scopes = ask[ask[c].of].scopes
                 /\ grantCode[ask[c].of] = "used"
                 /\ AsksWithin(ask[c].of)
        <3>1. pc[c] # "idle"
            BY <2>1, <2>2 DEF GrantInv
        <3>2. ask[c].of \in Grants /\ grantCode[ask[c].of] # "none"
            BY <3>1 DEF GrantInv
        <3> QED
            BY <2>1, <2>2, <3>2 DEF GrantInv
    <2>3. \A c, d \in Exchanges :
            access[c].state # "none" /\ access[d].state # "none" /\ ask[d].of = ask[c].of => d = c
        BY <2>1 DEF GrantInv
    <2>4. \A c \in Askers : access[c].state # "none" =>
            access[c].scopes \subseteq client[access[c].client].scopes
        BY <2>2 DEF GrantInv, Askers, AsksWithin
    <2> QED
        BY <2>2, <2>3, <2>4 DEF TokensFitGrants
<1>3. KeyInv => UsedKeysShow
    <2> SUFFICES ASSUME KeyInv, failures = 0, Busy \cap KeyCalls = {}, NEW c \in KeyCalls,
                        served[c] # NoParty
                 PROVE  lastUsed[served[c]] # "never"
        BY DEF UsedKeysShow
    <2>1. pc[c] # "touch"
        BY PartnersAssumption DEF PartnerCalls, Busy, Started, Ended
    <2> QED
        BY <2>1 DEF KeyInv
<1>4. GrantInv /\ KeyInv => GrantsShow
    BY <1>2, <1>3 DEF GrantsShow
<1> QED
    BY <1>1, <1>4, GrantInvInit, GrantInductive, KeyInductive, PTL DEF Spec

-------------------------------------------------------------------------------
(* Who the app takes its user for.                                         *)

(* Sign-ins and sign-outs that are under way.                              *)
Running == {c \in IdentityPart : pc[c] \in {"device", "token", "email", "name", "memory"}}

(* What is kept of a user who signed in, and of nobody.                    *)
Session(u) ==
    [token |-> u, email |-> u, name |-> IF u \in NamedUsers THEN u ELSE NoOwner]

(* E-mail and token are of one user, if both are there.                    *)
Agree(owner) == owner.token = owner.email \/ NoOwner \in {owner.token, owner.email}

(* The app was killed once, or calls overlapped, but not both.             *)
Sound == failures = 0 \/ (failures = 1 /\ ~overlapped)

(* Preferences and memory agree but while a sign-in is between token and   *)
(* e-mail.  As long as nothing went wrong, where the one call under way    *)
(* stands tells what the preferences hold.                                 *)
SignInInv ==
    /\ failures \in Nat
    /\ DOMAIN entering = LogIns
    /\ DOMAIN prefs = DOMAIN Unknown /\ DOMAIN known = DOMAIN Unknown
    /\ \A c \in IdentityPart :
        pc[c] \in {"idle", "device", "token", "email", "name", "memory"} \cup Ended
    /\ \A c \in LogIns : pc[c] # "device"
    /\ ~overlapped => \A c, d \in Running : c = d
    /\ \A c, d \in Running \cap LogIns : c = d
    /\ Sound =>
        /\ Agree(known)
        /\ (\A c \in LogIns : pc[c] # "email") => Agree(prefs)
        /\ \A c \in LogIns :
            /\ pc[c] \in {"email", "name", "memory"} => prefs.token \in {NoOwner, entering[c]}
            /\ pc[c] \in {"name", "memory"} => prefs.email \in {NoOwner, entering[c]}
    /\ Undisturbed =>
        /\ known = Session(known.token)
        /\ Running = {} => prefs = known
        /\ \A c \in LogIns \cap Running :
            /\ known = Unknown
            /\ pc[c] = "token" => prefs = Unknown
            /\ pc[c] = "email" => prefs = [Unknown EXCEPT !.token = entering[c]]
            /\ pc[c] = "name" =>
                  /\ entering[c] \in NamedUsers
                  /\ prefs = [Session(entering[c]) EXCEPT !.name = NoOwner]
            /\ pc[c] = "memory" => prefs = Session(entering[c])
        /\ \A c \in LogOffs \cap Running :
            /\ pc[c] \in {"device", "token"} => prefs = known
            /\ pc[c] = "email" =>
                  prefs = [token |-> NoOwner, email |-> prefs.email, name |-> prefs.name]
            /\ pc[c] = "name" => prefs = [token |-> NoOwner, email |-> NoOwner, name |-> prefs.name]
            /\ pc[c] = "memory" => prefs = Unknown

LEMMA SignInInit == Init => SignInInv
<1> SUFFICES ASSUME Init PROVE SignInInv
    OBVIOUS
<1>1. \A c \in IdentityPart : pc[c] = "idle"
    BY IdentityAssumption DEF Init, RequestsInit, IdentityPart
<1>2. Running = {}
    BY <1>1 DEF Running
<1>3. failures = 0 /\ known = Unknown /\ prefs = Unknown /\ DOMAIN entering = LogIns
    BY DEF Init, RequestsInit, IdentityInit
<1>4. Session(NoOwner) = Unknown
    BY IdentityAssumption DEF Session, Unknown
<1> QED
    BY <1>1, <1>2, <1>3, <1>4 DEF SignInInv, Agree, Unknown, IdentityPart

LEMMA SignInStep ==
    ASSUME SignInInv, IdentityNext, Only(IdentityPart), Only(IdentityPart)'
    PROVE  SignInInv'
<1>0. /\ failures \in Nat /\ DOMAIN entering = LogIns
      /\ DOMAIN prefs = {"token", "email", "name"} /\ DOMAIN known = {"token", "email", "name"}
      /\ \A c \in IdentityPart :
            pc[c] \in {"idle", "device", "token", "email", "name", "memory"} \cup Ended
      /\ \A c \in LogIns : pc[c] # "device"
      /\ IdentityPart \subseteq Calls
      /\ LogIns \subseteq IdentityPart /\ LogOffs \subseteq IdentityPart
      /\ \A c \in LogOffs : c \notin LogIns
    BY IdentityAssumption DEF SignInInv, Unknown, IdentityPart
<1>a. Running = Busy
    BY <1>0 DEF Running, Busy, Started, Only, Ended
<1>b. Session(NoOwner) = Unknown
    BY IdentityAssumption DEF Session, Unknown
<1> USE <1>0
<1>1. ASSUME NEW c \in LogIns, NEW u \in AppUsers, LogIn(c, u) PROVE SignInInv'
    <2>1. /\ pc[c] = "idle" /\ known.token = NoOwner /\ Running \cap LogIns = {}
          /\ \A d \in IdentityPart : pc'[d] = IF d = c THEN "token" ELSE pc[d]
          /\ overlapped' = (overlapped \/ Running # {})
          /\ UNCHANGED <<failures, prefs, known>>
          /\ DOMAIN entering' = LogIns
          /\ \A d \in LogIns \ {c} : entering'[d] = entering[d]
        BY <1>1, <1>a DEF LogIn, Begin, MovesTo
    <2>2. Running' = Running \cup {c}
        BY <2>1 DEF Running
    <2>3. ~overlapped' => ~overlapped /\ Running' = {c}
        BY <2>1, <2>2
    <2>4. \A d, e \in Running' \cap LogIns : d = e
        BY <2>1, <2>2
    <2>5. Undisturbed' => Undisturbed /\ Running = {}
        BY <2>1 DEF Undisturbed
    <2>6. Undisturbed' => prefs = Unknown /\ known = Unknown
        BY <1>b, <2>1, <2>5 DEF SignInInv
    <2>7. Sound' => Sound
        BY <2>1 DEF Sound
    <2>8. Sound' =>
            /\ Agree(known)'
            /\ (\A d \in LogIns : pc'[d] # "email") => Agree(prefs)'
            /\ \A d \in LogIns :
                /\ pc'[d] \in {"email", "name", "memory"} => prefs'.token \in {NoOwner, entering'[d]}
                /\ pc'[d] \in {"name", "memory"} => prefs'.email \in {NoOwner, entering'[d]}
        BY <2>1, <2>7 DEF SignInInv, Agree
    <2>9. /\ \A d \in IdentityPart :
                pc'[d] \in {"idle", "device", "token", "email", "name", "memory"} \cup Ended
          /\ \A d \in LogIns : pc'[d] # "device"
        BY <2>1
    <2>10. Undisturbed' =>
            /\ known' = Session(known.token)'
            /\ Running' = {c} /\ pc'[c] = "token" /\ c \notin LogOffs
        BY <1>b, <2>1, <2>3, <2>5, <2>6 DEF Session, Undisturbed
    <2> QED
        BY <2>1, <2>3, <2>4, <2>6, <2>8, <2>9, <2>10 DEF SignInInv, Unknown
<1>2. ASSUME NEW c \in LogOffs, LogOff(c) PROVE SignInInv'
    <2>1. /\ pc[c] = "idle"
          /\ \A d \in IdentityPart : pc'[d] = IF d = c THEN "device" ELSE pc[d]
          /\ overlapped' = (overlapped \/ Running # {})
          /\ UNCHANGED <<failures, prefs, known, entering>>
        BY <1>2, <1>a DEF LogOff, Begin, MovesTo, identityVars
    <2>2. Running' = Running \cup {c}
        BY <2>1 DEF Running
    <2>3. ~overlapped' => ~overlapped /\ Running' = {c}
        BY <2>1, <2>2
    <2>4. \A d, e \in Running' \cap LogIns : d = e
        BY <2>1, <2>2 DEF SignInInv
    <2>5. Undisturbed' => Undisturbed /\ Running = {} /\ Running' = {c}
        BY <2>1, <2>2 DEF Undisturbed
    <2>6. Undisturbed' => prefs = known /\ known = Session(known.token)
        BY <2>5 DEF SignInInv
    <2>7. Sound' => Sound
        BY <2>1 DEF Sound
    <2>8. \A d \in LogIns : pc'[d] = pc[d]
        BY <2>1
    <2>9. Sound' =>
            /\ Agree(known)'
            /\ (\A d \in LogIns : pc'[d] # "email") => Agree(prefs)'
            /\ \A d \in LogIns :
                /\ pc'[d] \in {"email", "name", "memory"} => prefs'.token \in {NoOwner, entering'[d]}
                /\ pc'[d] \in {"name", "memory"} => prefs'.email \in {NoOwner, entering'[d]}
        BY <2>1, <2>7, <2>8 DEF SignInInv, Agree
    <2>10. known' = known /\ (Undisturbed' => known' = Session(known'.token))
        BY <2>1, <2>6 DEF Session
    <2> QED
        BY <2>1, <2>3, <2>4, <2>5, <2>6, <2>8, <2>9, <2>10 DEF SignInInv, Unknown
<1>3. ASSUME NEW c \in LogOffs, DeviceForgotten(c) PROVE SignInInv'
    <2>1. /\ pc[c] = "device"
          /\ \A d \in IdentityPart : pc'[d] = IF d = c THEN "token" ELSE pc[d]
          /\ UNCHANGED <<failures, overlapped, prefs, known, entering>>
        BY <1>3 DEF DeviceForgotten, Goto, MovesTo, identityVars
    <2>2. Running' = Running /\ c \in Running
        BY <2>1 DEF Running
    <2>3. /\ Sound' <=> Sound
          /\ Undisturbed' <=> Undisturbed
          /\ \A d \in LogIns : pc'[d] = pc[d]
        BY <2>1 DEF Sound, Undisturbed
    <2>4. \A d \in IdentityPart :
            pc'[d] \in {"idle", "device", "token", "email", "name", "memory"} \cup Ended
        BY <2>1
    <2>5. Sound =>
            /\ Agree(known)'
            /\ (\A d \in LogIns : pc'[d] # "email") => Agree(prefs)'
            /\ \A d \in LogIns :
                /\ pc'[d] \in {"email", "name", "memory"} => prefs'.token \in {NoOwner, entering'[d]}
                /\ pc'[d] \in {"name", "memory"} => prefs'.email \in {NoOwner, entering'[d]}
        BY <2>1, <2>3 DEF SignInInv, Agree
    <2>6. ASSUME Undisturbed
          PROVE  /\ Running = {c} /\ c \notin LogIns /\ pc'[c] = "token"
                 /\ prefs' = known' /\ known' = Session(known.token)'
        BY <2>1, <2>2, <2>6 DEF SignInInv, Undisturbed, Session
    <2>7. /\ ~overlapped' => \A d, e \in Running' : d = e
          /\ \A d, e \in Running' \cap LogIns : d = e
        BY <2>1, <2>2 DEF SignInInv
    <2>8. ASSUME Undisturbed
          PROVE  /\ \A d \in LogIns \cap Running' : FALSE
                 /\ \A d \in LogOffs \cap Running' : d = c /\ pc'[d] = "token"
                 /\ Running' # {}
        BY <2>2, <2>6, <2>8
    <2> QED
        BY <2>1, <2>3, <2>4, <2>5, <2>6, <2>7, <2>8 DEF SignInInv, Unknown
<1>4. ASSUME NEW c \in IdentityPart, PutToken(c) PROVE SignInInv'
    <2>1. /\ pc[c] = "token" /\ c \in Running
          /\ \A d \in IdentityPart : pc'[d] = IF d = c THEN "email" ELSE pc[d]
          /\ UNCHANGED <<failures, overlapped, known, entering>>
          /\ prefs' = [prefs EXCEPT !.token = Owner(c)]
        BY <1>4 DEF PutToken, Goto, MovesTo, Running
    <2>2. /\ Running' = Running
          /\ Sound' <=> Sound
          /\ Undisturbed' <=> Undisturbed
        BY <2>1 DEF Running, Sound, Undisturbed
    <2>3. /\ prefs'.token = Owner(c) /\ prefs'.email = prefs.email /\ prefs'.name = prefs.name
          /\ DOMAIN prefs' = DOMAIN prefs
        BY <2>1
    <2>4. \A d \in LogIns : d # c /\ c \in LogIns => pc[d] \notin {"email", "name", "memory"}
        BY <2>1 DEF SignInInv, Running
    <2>5. c \notin LogIns => Owner(c) = NoOwner /\ \A d \in LogIns : pc'[d] = pc[d]
        BY <2>1 DEF Owner
    <2>6. c \in LogIns => Owner(c) = entering[c] /\ pc'[c] = "email"
        BY <2>1 DEF Owner
    <2>7. ASSUME Sound
          PROVE  /\ Agree(known)'
                 /\ (\A d \in LogIns : pc'[d] # "email") => Agree(prefs)'
                 /\ \A d \in LogIns :
                      /\ pc'[d] \in {"email", "name", "memory"} => prefs'.token \in {NoOwner, entering'[d]}
                      /\ pc'[d] \in {"name", "memory"} => prefs'.email \in {NoOwner, entering'[d]}
        <3>1. CASE c \in LogIns
            BY <2>1, <2>3, <2>4, <2>6, <2>7, <3>1 DEF SignInInv, Agree
        <3>2. CASE c \notin LogIns
            BY <2>1, <2>3, <2>5, <2>7, <3>2 DEF SignInInv, Agree
        <3> QED
            BY <3>1, <3>2
    <2>8. ASSUME Undisturbed
          PROVE  /\ Running = {c}
                 /\ c \in LogIns => prefs = Unknown /\ known = Unknown
                 /\ c \notin LogIns => prefs = known
                 /\ known = Session(known.token)
        BY <2>1, <2>8 DEF SignInInv, Undisturbed, IdentityPart
    <2>9. c \in LogIns => [Unknown EXCEPT !.token = Owner(c)] = [Unknown EXCEPT !.token = entering'[c]]
        BY <2>1, <2>6
    <2>10. /\ \A d \in IdentityPart :
                 pc'[d] \in {"idle", "device", "token", "email", "name", "memory"} \cup Ended
           /\ \A d \in LogIns : pc'[d] # "device"
        BY <2>1
    <2>11. ASSUME Undisturbed
           PROVE  /\ known' = Session(known.token)'
                  /\ Running' # {}
                  /\ \A d \in LogIns \cap Running' :
                        /\ d = c /\ pc'[c] = "email" /\ known' = Unknown
                        /\ prefs' = [Unknown EXCEPT !.token = entering'[d]]
                  /\ \A d \in LogOffs \cap Running' :
                        /\ d = c /\ pc'[c] = "email"
                        /\ prefs' = [token |-> NoOwner, email |-> prefs'.email, name |-> prefs'.name]
        <3>1. c \notin LogIns =>
                prefs' = [token |-> NoOwner, email |-> prefs'.email, name |-> prefs'.name]
            <4>1. c \notin LogIns =>
                    /\ prefs = [token |-> known.token, email |-> prefs.email, name |-> prefs.name]
                    /\ prefs' = [prefs EXCEPT !.token = NoOwner]
                BY <2>1, <2>5, <2>8, <2>11 DEF Session
            <4>2. c \notin LogIns =>
                    prefs' = [token |-> NoOwner, email |-> prefs.email, name |-> prefs.name]
                BY <4>1
            <4> QED
                BY <2>3, <4>2
        <3> QED
            BY <2>1, <2>2, <2>3, <2>5, <2>8, <2>9, <2>11, <3>1 DEF Session
    <2> QED
        BY <2>1, <2>2, <2>3, <2>7, <2>10, <2>11 DEF SignInInv, Unknown
<1>5. ASSUME NEW c \in IdentityPart, PutEmail(c) PROVE SignInInv'
    <2> DEFINE next == IF WritesName(c) THEN "name" ELSE "memory"
    <2>1. /\ pc[c] = "email" /\ c \in Running
          /\ \A d \in IdentityPart : pc'[d] = IF d = c THEN next ELSE pc[d]
          /\ UNCHANGED <<failures, overlapped, known, entering>>
          /\ prefs' = [prefs EXCEPT !.email = Owner(c)]
          /\ next \in {"name", "memory"}
        BY <1>5 DEF PutEmail, Goto, MovesTo, Running
    <2>0. /\ c \notin LogIns => next = "name"
          /\ next = "memory" => c \in LogIns /\ Owner(c) \notin NamedUsers
          /\ next = "name" /\ c \in LogIns => Owner(c) \in NamedUsers
        BY DEF WritesName
    <2> HIDE DEF next
    <2>2. /\ Running' = Running
          /\ Sound' <=> Sound
          /\ Undisturbed' <=> Undisturbed
        BY <2>1 DEF Running, Sound, Undisturbed
    <2>3. /\ prefs'.token = prefs.token /\ prefs'.email = Owner(c) /\ prefs'.name = prefs.name
          /\ DOMAIN prefs' = DOMAIN prefs
        BY <2>1
    <2>4. \A d \in LogIns : d # c /\ c \in LogIns => pc[d] \notin {"email", "name", "memory"}
        BY <2>1 DEF SignInInv, Running
    <2>5. c \notin LogIns => Owner(c) = NoOwner /\ \A d \in LogIns : pc'[d] = pc[d]
        BY <2>1 DEF Owner
    <2>6. c \in LogIns => Owner(c) = entering[c] /\ pc'[c] = next
        BY <2>1 DEF Owner
    <2>7. ASSUME Sound
          PROVE  /\ Agree(known)'
                 /\ (\A d \in LogIns : pc'[d] # "email") => Agree(prefs)'
                 /\ \A d \in LogIns :
                      /\ pc'[d] \in {"email", "name", "memory"} => prefs'.token \in {NoOwner, entering'[d]}
                      /\ pc'[d] \in {"name", "memory"} => prefs'.email \in {NoOwner, entering'[d]}
        <3>1. CASE c \in LogIns
            BY <2>1, <2>3, <2>4, <2>6, <2>7, <3>1 DEF SignInInv, Agree
        <3>2. CASE c \notin LogIns
            BY <2>1, <2>3, <2>5, <2>7, <3>2 DEF SignInInv, Agree
        <3> QED
            BY <3>1, <3>2
    <2>8. ASSUME Undisturbed
          PROVE  /\ Running = {c}
                 /\ c \in LogIns => /\ known = Unknown
                                    /\ prefs = [Unknown EXCEPT !.token = entering[c]]
                 /\ c \notin LogIns =>
                      prefs = [token |-> NoOwner, email |-> prefs.email, name |-> prefs.name]
                 /\ known = Session(known.token)
        BY <2>1, <2>8 DEF SignInInv, Undisturbed, IdentityPart
    <2>9. ASSUME c \in LogIns, Undisturbed
          PROVE  /\ next = "name" => /\ entering[c] \in NamedUsers
                                     /\ prefs' = [Session(entering[c]) EXCEPT !.name = NoOwner]
                 /\ next = "memory" => prefs' = Session(entering[c])
        BY <2>0, <2>1, <2>6, <2>8, <2>9 DEF Unknown, Session
    <2>10. /\ \A d \in IdentityPart :
                 pc'[d] \in {"idle", "device", "token", "email", "name", "memory"} \cup Ended
           /\ \A d \in LogIns : pc'[d] # "device"
        BY <2>1
    <2>11. ASSUME Undisturbed
           PROVE  /\ known' = Session(known.token)'
                  /\ Running' # {}
                  /\ \A d \in LogIns \cap Running' :
                        /\ d = c /\ pc'[c] = next /\ known' = Unknown
                        /\ next = "name" =>
                              /\ entering'[d] \in NamedUsers
                              /\ prefs' = [Session(entering'[d]) EXCEPT !.name = NoOwner]
                        /\ next = "memory" => prefs' = Session(entering'[d])
                  /\ \A d \in LogOffs \cap Running' :
                        /\ d = c /\ pc'[c] = "name"
                        /\ prefs' = [token |-> NoOwner, email |-> NoOwner, name |-> prefs'.name]
        <3>1. c \notin LogIns => prefs' = [token |-> NoOwner, email |-> NoOwner, name |-> prefs'.name]
            <4>1. c \notin LogIns =>
                    /\ prefs = [token |-> NoOwner, email |-> prefs.email, name |-> prefs.name]
                    /\ prefs' = [prefs EXCEPT !.email = NoOwner]
                BY <2>1, <2>5, <2>8, <2>11
            <4>2. c \notin LogIns =>
                    prefs' = [token |-> NoOwner, email |-> NoOwner, name |-> prefs.name]
                BY <4>1
            <4> QED
                BY <2>3, <4>2
        <3> QED
            BY <2>0, <2>1, <2>2, <2>3, <2>5, <2>8, <2>9, <2>11, <3>1 DEF Session
    <2> QED
        BY <2>1, <2>2, <2>3, <2>7, <2>10, <2>11 DEF SignInInv, Unknown
<1>6. ASSUME NEW c \in IdentityPart, PutName(c) PROVE SignInInv'
    <2>1. /\ pc[c] = "name" /\ c \in Running
          /\ \A d \in IdentityPart : pc'[d] = IF d = c THEN "memory" ELSE pc[d]
          /\ UNCHANGED <<failures, overlapped, known, entering>>
          /\ prefs' = [prefs EXCEPT !.name = Owner(c)]
        BY <1>6 DEF PutName, Goto, MovesTo, Running
    <2>2. /\ Running' = Running
          /\ Sound' <=> Sound
          /\ Undisturbed' <=> Undisturbed
        BY <2>1 DEF Running, Sound, Undisturbed
    <2>3. /\ prefs'.token = prefs.token /\ prefs'.email = prefs.email /\ prefs'.name = Owner(c)
          /\ DOMAIN prefs' = DOMAIN prefs
        BY <2>1
    <2>5. c \notin LogIns => Owner(c) = NoOwner
        BY DEF Owner
    <2>6. c \in LogIns => Owner(c) = entering[c]
        BY DEF Owner
    <2>7. ASSUME Sound
          PROVE  /\ Agree(known)'
                 /\ (\A d \in LogIns : pc'[d] # "email") => Agree(prefs)'
                 /\ \A d \in LogIns :
                      /\ pc'[d] \in {"email", "name", "memory"} => prefs'.token \in {NoOwner, entering'[d]}
                      /\ pc'[d] \in {"name", "memory"} => prefs'.email \in {NoOwner, entering'[d]}
        BY <2>1, <2>3, <2>7 DEF SignInInv, Agree
    <2>8. ASSUME Undisturbed
          PROVE  /\ Running = {c}
                 /\ c \in LogIns => /\ known = Unknown /\ entering[c] \in NamedUsers
                                    /\ prefs = [Session(entering[c]) EXCEPT !.name = NoOwner]
                 /\ c \notin LogIns => prefs = [token |-> NoOwner, email |-> NoOwner, name |-> prefs.name]
                 /\ known = Session(known.token)
        BY <2>1, <2>8 DEF SignInInv, Undisturbed, IdentityPart
    <2>10. /\ \A d \in IdentityPart :
                 pc'[d] \in {"idle", "device", "token", "email", "name", "memory"} \cup Ended
           /\ \A d \in LogIns : pc'[d] # "device"
        BY <2>1
    <2>11. ASSUME Undisturbed
           PROVE  /\ known' = Session(known.token)'
                  /\ Running' # {}
                  /\ \A d \in LogIns \cap Running' :
                        /\ d = c /\ pc'[c] = "memory" /\ known' = Unknown
                        /\ prefs' = Session(entering'[d])
                  /\ \A d \in LogOffs \cap Running' :
                        d = c /\ pc'[c] = "memory" /\ prefs' = Unknown
        <3>1. c \notin LogIns => prefs' = Unknown
            BY <2>1, <2>5, <2>8, <2>11 DEF Unknown
        <3>2. c \in LogIns => prefs' = Session(entering[c])
            BY <2>1, <2>6, <2>8, <2>11 DEF Session
        <3> QED
            BY <2>1, <2>2, <2>8, <2>11, <3>1, <3>2 DEF Session
    <2> QED
        BY <2>1, <2>2, <2>3, <2>7, <2>10, <2>11 DEF SignInInv, Unknown
<1>7. ASSUME NEW c \in IdentityPart, Remember(c) PROVE SignInInv'
    <2>1. /\ pc[c] = "memory" /\ c \in Running
          /\ \A d \in IdentityPart : pc'[d] = IF d = c THEN "done" ELSE pc[d]
          /\ UNCHANGED <<failures, overlapped, prefs, entering>>
          /\ known' = Session(Owner(c))
        BY <1>7 DEF Remember, Goto, MovesTo, Running, Session
    <2>2. /\ Running' = Running \ {c}
          /\ Sound' <=> Sound
          /\ Undisturbed' <=> Undisturbed
        BY <2>1 DEF Running, Sound, Undisturbed, Ended
    <2>3. /\ DOMAIN known' = DOMAIN Unknown /\ known'.token = Owner(c) /\ known'.email = Owner(c)
          /\ known' = Session(known'.token)
        BY <2>1 DEF Session, Unknown
    <2>5. c \notin LogIns => Owner(c) = NoOwner
        BY DEF Owner
    <2>6. c \in LogIns => Owner(c) = entering[c]
        BY DEF Owner
    <2>7. ASSUME Sound
          PROVE  /\ Agree(known)'
                 /\ (\A d \in LogIns : pc'[d] # "email") => Agree(prefs)'
                 /\ \A d \in LogIns :
                      /\ pc'[d] \in {"email", "name", "memory"} => prefs'.token \in {NoOwner, entering'[d]}
                      /\ pc'[d] \in {"name", "memory"} => prefs'.email \in {NoOwner, entering'[d]}
        BY <2>1, <2>3, <2>7 DEF SignInInv, Agree
    <2>8. ASSUME Undisturbed
          PROVE  /\ Running = {c}
                 /\ c \in LogIns => prefs = Session(entering[c])
                 /\ c \notin LogIns => prefs = Unknown
        BY <2>1, <2>8 DEF SignInInv, Undisturbed, IdentityPart
    <2>10. Undisturbed => prefs' = known' /\ Running' = {}
        BY <1>b, <2>1, <2>2, <2>5, <2>6, <2>8
    <2>11. /\ \A d \in IdentityPart :
                 pc'[d] \in {"idle", "device", "token", "email", "name", "memory"} \cup Ended
           /\ \A d \in LogIns : pc'[d] # "device"
        BY <2>1 DEF Ended
    <2>12. /\ ~overlapped' => \A d, e \in Running' : d = e
           /\ \A d, e \in Running' \cap LogIns : d = e
        BY <2>1, <2>2 DEF SignInInv
    <2> QED
        BY <2>1, <2>2, <2>3, <2>7, <2>10, <2>11, <2>12 DEF SignInInv, Unknown, Session
<1>8. ASSUME Relaunch PROVE SignInInv'
    <2>1. /\ known' = prefs
          /\ UNCHANGED <<overlapped, prefs, entering>>
        BY <1>8 DEF Relaunch
    <2>2. CASE Busy = {}
        <3>1. /\ UNCHANGED <<pc, failures>> /\ Running = {} /\ Running' = {}
            BY <1>8, <1>a, <2>2 DEF Relaunch, Running
        <3>2. \A d \in LogIns : pc[d] # "email"
            BY <3>1 DEF Running
        <3>3. (Sound' <=> Sound) /\ (Undisturbed' <=> Undisturbed)
            BY <2>1, <3>1 DEF Sound, Undisturbed
        <3>4. Sound => Agree(prefs)
            BY <3>2 DEF SignInInv
        <3>5. Undisturbed => prefs = known /\ known = Session(known.token)
            BY <3>1 DEF SignInInv
        <3>6. Undisturbed => known' = Session(known'.token)
            BY <2>1, <3>5
        <3> QED
            BY <2>1, <3>1, <3>2, <3>3, <3>4, <3>6 DEF SignInInv, Agree, Unknown, Session
    <2>3. CASE Busy # {}
        <3>1. /\ failures' = failures + 1
              /\ \A d \in IdentityPart : pc'[d] = IF d \in Running THEN "dead" ELSE pc[d]
            BY <1>8, <1>a, <2>3 DEF Relaunch
        <3>2. \A d \in IdentityPart : pc'[d] \in {"idle"} \cup Ended
            BY <3>1 DEF Running, Ended
        <3>3. Running' = {} /\ ~Undisturbed' /\ (Sound' => Undisturbed)
            BY <2>1, <3>1, <3>2 DEF Running, Ended, Undisturbed, Sound
        <3>4. ASSUME Undisturbed PROVE Agree(prefs)
            <4>1. CASE \A d \in LogIns : pc[d] # "email"
                BY <3>4, <4>1 DEF SignInInv, Sound, Undisturbed
            <4>2. ASSUME NEW d \in LogIns, pc[d] = "email" PROVE Agree(prefs)
                <5>1. prefs = [Unknown EXCEPT !.token = entering[d]]
                    BY <3>4, <4>2 DEF SignInInv, Running
                <5> QED
                    BY <5>1 DEF Agree, Unknown
            <4> QED
                BY <4>1, <4>2
        <3>5. Sound' => Agree(prefs)' /\ Agree(known)'
            BY <2>1, <3>3, <3>4 DEF Agree
        <3>6. \A d \in LogIns : pc'[d] \notin {"device", "email", "name", "memory"}
            BY <3>2 DEF Ended
        <3> QED
            BY <2>1, <3>1, <3>2, <3>3, <3>5, <3>6 DEF SignInInv, Unknown
    <2> QED
        BY <2>2, <2>3
<1> QED
    BY <1>1, <1>2, <1>3, <1>4, <1>5, <1>6, <1>7, <1>8 DEF IdentityNext, IdentityPart

LEMMA SignInInductive == SignInInv /\ [Next]_vars => SignInInv'
<1> SUFFICES ASSUME SignInInv, [Next]_vars PROVE SignInInv'
    OBVIOUS
<1>1. CASE UNCHANGED vars
    BY <1>1
    DEF SignInInv, Running, Agree, Sound, Undisturbed, Session, vars, identityVars, requestVars
<1>2. CASE Next
    <2>1. PICK i \in 1..11 : StepOf(i)
        BY <1>2, StepsOfParts
    <2>2. CASE i = 11
        BY <2>1, <2>2, PartsByNumber, SignInStep DEF StepOf
    <2>3. CASE i # 11
        <3>1. \A c \in IdentityPart : pc[c] = "idle" /\ pc'[c] = "idle"
            <4>1. IdentityPart \subseteq Parts[11] \cap Calls
                BY PartsByNumber, IdentityAssumption DEF IdentityPart
            <4> QED
                BY <2>1, <2>3, <4>1, OthersAreIdle
        <3>2. UNCHANGED identityVars /\ Running = {} /\ Running' = {}
            BY <2>1, <2>3, <3>1 DEF StepOf, Running
        <3>3. FailuresGrow /\ OverlapStays
            BY <1>2, CountersStep
        <3>4. /\ failures' \in Nat
              /\ Sound' => Sound
              /\ Undisturbed' => Undisturbed
            BY <3>3 DEF FailuresGrow, OverlapStays, SignInInv, Sound, Undisturbed
        <3>5. LogIns \subseteq IdentityPart
            BY DEF IdentityPart
        <3> QED
            BY <3>1, <3>2, <3>4, <3>5 DEF SignInInv, Agree, Session, identityVars
    <2> QED
        BY <2>2, <2>3
<1> QED
    BY <1>1, <1>2

-------------------------------------------------------------------------------
(* What the browser knows of who is signed in.                             *)

(* A page that shows a user his data goes elsewhere or shows an error when *)
(* nobody is signed in, and all but one show an error when it fails.       *)
LEMMA PagesShowErrors ==
    \A p \in BrowserPages : p.loads /\ p.guest # "stays" =>
        /\ p.guest \in {"leaves", "error"}
        /\ p.onFailure = "error" \/ p = AccountSecurity
<1> DEFINE Fits(p) == p.loads /\ p.guest # "stays" =>
                        /\ p.guest \in {"leaves", "error"}
                        /\ p.onFailure = "error" \/ p = AccountSecurity
<1>1. Fits(ListPage) /\ Fits(FormPage) /\ Fits(ViewPage)
    BY DEF ListPage, FormPage, ViewPage
<1>2. Fits(PlatformPage) /\ Fits(AuditPage) /\ Fits(FiguresPage) /\ Fits(AccountSecurity)
    BY DEF PlatformPage, AuditPage, FiguresPage, AccountSecurity, ListPage, ViewPage
<1>3. Fits(CollectiblePage) /\ Fits(SupportPage) /\ Fits(ConsentPage) /\ Fits(DoorPage)
    BY DEF CollectiblePage, SupportPage, ConsentPage, DoorPage, FormPage, ListPage
<1>4. Fits(TransferPage)
    BY DEF TransferPage, DoorPage, ConsentPage, FormPage, ListPage
<1>5. Fits(EventPage) /\ Fits(Greeting)
    BY DEF EventPage, Greeting, FormPage, ViewPage, ListPage
<1> QED
    BY <1>1, <1>2, <1>3, <1>4, <1>5
    DEF BrowserPages, OrganizerPage, EventOrdersPage, MembersPage, PromosPage, RoutesPage,
        BankPage, DevelopersPage, DashboardHome, WalletPage, AccountPage, Marketplace

(* A page that shows nothing yet says why, or waits for its data.          *)
ShowsWhy ==
    \/ shownUser # NoUser \/ problem \/ sentAway
    \/ shownPage = AccountSecurity /\ failures > 0
    \/ \E c \in PageCalls : pc[c] \in {"data", "again"}

(* Until another tab changes the token, or on a page that keeps its own,   *)
(* requests are sent as the user the page was opened as; those sent since  *)
(* the last change are sent as the present one.                            *)
PageInv ==
    /\ failures \in Nat
    /\ shownPage \in BrowserPages \cup {NoUser}
    /\ DOMAIN sentAs = PageCalls /\ lateCalls \subseteq PageCalls
    /\ \A c \in PageCalls : pc[c] \in {"idle", "data", "act", "again"} \cup Ended
    /\ shownPage # NoUser => pc[Window] = "done"
    /\ shownPage = NoUser =>
        /\ ~changedSince /\ shownUser = NoUser /\ lateCalls = {}
        /\ \A c \in PageCalls : pc[c] = "idle"
    /\ shownPage # NoUser =>
        /\ shownPage.keeps => heldToken = openedAs
        /\ ~changedSince => stored = openedAs
        /\ shownPage.keeps \/ ~changedSince =>
            /\ \A c \in PageCalls : pc[c] # "idle" => sentAs[c] = openedAs
            /\ shownUser \in {NoUser, openedAs}
        /\ ~shownPage.keeps => \A c \in lateCalls : sentAs[c] = stored
        /\ ~overlapped /\ lateCalls # {} =>
              \A c \in PageCalls : pc[c] \in {"data", "act", "again"} => c \in lateCalls
        /\ /\ ~overlapped /\ ~sentAway /\ ~shownPage.keeps /\ shownPage.acts = "reload"
           /\ \E c \in lateCalls : pc[c] = "done"
           => shownUser = stored
        /\ shownPage.loads /\ shownPage.guest # "stays" => ShowsWhy
    /\ \A c \in lateCalls : pc[c] # "idle"
    /\ \A c \in PageCalls : pc[c] \in {"data", "again"} => sentAs[c] # NoUser

LEMMA PageInvInit == Init => PageInv
<1> SUFFICES ASSUME Init PROVE PageInv
    OBVIOUS
<1>1. \A c \in BrowserCalls : pc[c] = "idle"
    BY BrowserAssumption DEF Init, RequestsInit
<1> QED
    BY <1>1 DEF Init, RequestsInit, BrowserInit, PageInv, BrowserCalls

(* What leaves token, page and its requests alone changes nothing here.    *)
LEMMA OthersKeepPage ==
    ASSUME PageInv, FailuresGrow, OverlapStays, UNCHANGED <<stored, tabVars>>,
           \A c \in PageCalls \cup {Window} : pc'[c] = pc[c]
    PROVE  PageInv'
<1>1. failures' \in Nat /\ (failures > 0 => failures' > 0)
    BY DEF FailuresGrow, PageInv
<1>2. ShowsWhy => ShowsWhy'
    BY <1>1 DEF ShowsWhy, tabVars
<1> QED
    BY <1>1, <1>2 DEF PageInv, tabVars, OverlapStays

(* A request of the page is sent as u.                                     *)
LEMMA SentAs ==
    ASSUME NEW u, NEW step, SendAs(u, step), PageInv
    PROVE  \E c \in PageCalls :
              /\ pc[c] = "idle"
              /\ \A d \in PageCalls \cup {Window} : pc'[d] = IF d = c THEN step ELSE pc[d]
              /\ overlapped' = (overlapped \/ Busy # {}) /\ UNCHANGED failures
              /\ sentAs' = [sentAs EXCEPT ![c] = u]
              /\ lateCalls' = lateCalls \cup {c}
<1>1. FreshCall \in PageCalls /\ pc[FreshCall] = "idle"
    BY DEF SendAs, FreshCall
<1> QED
    BY <1>1, BrowserAssumption DEF SendAs, Begin, MovesTo, BrowserCalls

LEMMA PageStep ==
    ASSUME PageInv, BrowserNext
    PROVE  PageInv'
<1>0. /\ FailuresGrow /\ OverlapStays
      /\ PageCalls \subseteq Calls /\ GateCalls \subseteq Calls /\ Window \in Calls
      /\ \A c \in PageCalls : c # Window /\ c \notin GateCalls
      /\ \A c \in GateCalls : c # Window
      /\ failures' \in Nat /\ failures \in Nat /\ (failures > 0 => failures' > 0)
    BY FailuresOfBrowser, OverlapOfBrowser, BrowserAssumption
    DEF BrowserCalls, FailuresGrow, PageInv
<1> USE <1>0
<1>1. ASSUME OpenWindow PROVE PageInv'
    <2>1. /\ shownPage = NoUser
          /\ UNCHANGED tabVars
          /\ \A c \in PageCalls : pc'[c] = pc[c]
        BY <1>1 DEF OpenWindow, Begin, MovesTo, PageInv
    <2> QED
        BY <2>1 DEF PageInv, tabVars
<1>2. ASSUME NEW u, Change(u) PROVE PageInv'
    <2>1. /\ changedSince' = (shownPage # NoUser) /\ lateCalls' = {}
          /\ UNCHANGED <<pc, failures, overlapped, shownPage, heldToken, openedAs, sentAs,
                         shownUser, problem, sentAway>>
        BY <1>2 DEF Change, requestVars
    <2>2. ShowsWhy' <=> ShowsWhy
        BY <2>1 DEF ShowsWhy
    <2> QED
        BY <2>1, <2>2 DEF PageInv
<1>3. ASSUME HearStorage PROVE PageInv'
    BY <1>3, OthersKeepPage DEF HearStorage, requestVars
<1>4. ASSUME NEW p \in BrowserPages, ShowPage(p) PROVE PageInv'
    <2>1. /\ shownPage = NoUser /\ pc[Window] = "done"
          /\ shownPage' = p /\ openedAs' = stored /\ stored' = stored
          /\ heldToken' = IF p.keeps THEN stored ELSE NoUser
          /\ problem' = (stored = NoUser /\ p.guest = "error")
          /\ sentAway' = (stored = NoUser /\ p.guest = "leaves")
          /\ UNCHANGED <<changedSince, shownUser>>
        BY <1>4 DEF ShowPage, Loaded
    <2>2. /\ ~changedSince /\ shownUser = NoUser /\ lateCalls = {}
          /\ \A c \in PageCalls : pc[c] = "idle"
        BY <2>1 DEF PageInv
    <2>3. p # NoUser
        BY BrowserPagesAssumption
    <2>4. p.loads /\ p.guest # "stays" => p.guest \in {"leaves", "error"}
        BY PagesShowErrors
    <2>5. CASE p.loads /\ stored # NoUser
        <3>1. SendAs(stored, "data")
            BY <1>4, <2>5 DEF ShowPage
        <3>2. PICK c \in PageCalls :
                  /\ \A d \in PageCalls \cup {Window} : pc'[d] = IF d = c THEN "data" ELSE pc[d]
                  /\ sentAs' = [sentAs EXCEPT ![c] = stored]
                  /\ lateCalls' = lateCalls \cup {c}
            BY <3>1, SentAs
        <3>3. ShowsWhy'
            BY <3>2 DEF ShowsWhy
        <3>4. DOMAIN sentAs' = PageCalls /\ sentAs'[c] = stored
            BY <3>2 DEF PageInv
        <3> QED
            BY <2>1, <2>2, <2>3, <2>5, <3>2, <3>3, <3>4 DEF PageInv
    <2>6. CASE ~(p.loads /\ stored # NoUser)
        <3>1. UNCHANGED <<pc, failures, overlapped, sentAs, lateCalls>>
            BY <1>4, <2>6 DEF ShowPage, requestVars
        <3>2. p.loads /\ p.guest # "stays" => ShowsWhy'
            BY <2>1, <2>4, <2>6 DEF ShowsWhy
        <3> QED
            BY <2>1, <2>2, <2>3, <3>1, <3>2 DEF PageInv
    <2> QED
        BY <2>5, <2>6
<1>5. ASSUME PressOnPage PROVE PageInv'
    <2>1. /\ shownPage # NoUser /\ ~sentAway /\ ~problem
          /\ UNCHANGED <<stored, shownPage, openedAs, changedSince, heldToken, shownUser, problem>>
        BY <1>5 DEF PressOnPage, HasButtons
    <2>2. /\ shownPage.keeps => ActingUser = openedAs
          /\ ~changedSince => ActingUser = openedAs
          /\ ~shownPage.keeps => ActingUser = stored
        BY <2>1 DEF ActingUser, PageInv
    <2>3. CASE ActingUser = NoUser /\ shownPage.guestActs = "leaves"
        <3>1. sentAway' = TRUE /\ UNCHANGED <<pc, failures, overlapped, sentAs, lateCalls>>
            BY <1>5, <2>3 DEF PressOnPage, requestVars
        <3>2. ShowsWhy'
            BY <3>1 DEF ShowsWhy
        <3> QED
            BY <2>1, <3>1, <3>2 DEF PageInv
    <2>4. CASE ~(ActingUser = NoUser /\ shownPage.guestActs = "leaves")
        <3>1. SendAs(ActingUser, "act") /\ UNCHANGED sentAway
            BY <1>5, <2>4 DEF PressOnPage
        <3>2. PICK c \in PageCalls :
                  /\ pc[c] = "idle"
                  /\ \A d \in PageCalls \cup {Window} : pc'[d] = IF d = c THEN "act" ELSE pc[d]
                  /\ overlapped' = (overlapped \/ Busy # {}) /\ UNCHANGED failures
                  /\ sentAs' = [sentAs EXCEPT ![c] = ActingUser]
                  /\ lateCalls' = lateCalls \cup {c}
            BY <3>1, SentAs
        <3>3. /\ DOMAIN sentAs' = PageCalls /\ sentAs'[c] = ActingUser
              /\ \A d \in PageCalls \ {c} : sentAs'[d] = sentAs[d]
            BY <3>2 DEF PageInv
        <3>4. ~overlapped' => \A d \in PageCalls : pc[d] \notin {"data", "act", "again"}
            BY <3>2 DEF Busy, Started, Ended
        <3>5. shownPage.loads /\ shownPage.guest # "stays" => ShowsWhy'
            BY <1>5, <2>1 DEF PressOnPage, HasButtons, ShowsWhy
        <3>6. /\ shownPage.keeps \/ ~changedSince =>
                   \A d \in PageCalls : pc'[d] # "idle" => sentAs'[d] = openedAs
              /\ ~shownPage.keeps => \A d \in lateCalls' : sentAs'[d] = stored
            BY <2>1, <2>2, <3>2, <3>3 DEF PageInv
        <3>7. ~overlapped' /\ lateCalls' # {} =>
                \A d \in PageCalls : pc'[d] \in {"data", "act", "again"} => d \in lateCalls'
            BY <3>2, <3>4
        <3>8. (\E d \in lateCalls' : pc'[d] = "done") => \E d \in lateCalls : pc[d] = "done"
            BY <3>2 DEF PageInv
        <3> QED
            BY <2>1, <3>1, <3>2, <3>3, <3>5, <3>6, <3>7, <3>8 DEF PageInv
    <2> QED
        BY <2>3, <2>4
<1>6. ASSUME NEW c \in PageCalls, ShowData(c) PROVE PageInv'
    <2>1. /\ pc[c] \in {"data", "again"} /\ shownUser' = sentAs[c]
          /\ \A d \in PageCalls \cup {Window} : pc'[d] = IF d = c THEN "done" ELSE pc[d]
          /\ UNCHANGED <<failures, overlapped, stored, shownPage, openedAs, changedSince, heldToken,
                         sentAs, lateCalls, problem, sentAway>>
        BY <1>6 DEF ShowData, ShownBy, Goto, MovesTo
    <2>2. shownPage # NoUser /\ sentAs[c] # NoUser
        BY <2>1 DEF PageInv
    <2>3. ShowsWhy'
        BY <2>1, <2>2 DEF ShowsWhy
    <2>4. ~overlapped /\ ~shownPage.keeps /\ (\E d \in lateCalls : pc'[d] = "done") => sentAs[c] = stored
        BY <2>1, <2>2 DEF PageInv
    <2> QED
        BY <2>1, <2>2, <2>3, <2>4 DEF PageInv, Ended
<1>7. ASSUME NEW c \in PageCalls, TurnAway(c) PROVE PageInv'
    <2>1. /\ pc[c] \in {"data", "again"} /\ sentAway' = TRUE
          /\ \A d \in PageCalls \cup {Window} : pc'[d] = IF d = c THEN "done" ELSE pc[d]
          /\ UNCHANGED <<failures, overlapped, stored, shownPage, openedAs, changedSince, heldToken,
                         sentAs, lateCalls, problem, shownUser>>
        BY <1>7 DEF TurnAway, Goto, MovesTo
    <2>2. shownPage # NoUser
        BY <2>1 DEF PageInv
    <2>3. ShowsWhy'
        BY <2>1 DEF ShowsWhy
    <2> QED
        BY <2>1, <2>2, <2>3 DEF PageInv, Ended
<1>8. ASSUME NEW c \in PageCalls, ActDone(c) PROVE PageInv'
    <2>1. /\ pc[c] = "act" /\ shownPage # NoUser
          /\ UNCHANGED <<stored, shownPage, openedAs, changedSince, heldToken, lateCalls, shownUser,
                         problem>>
        BY <1>8 DEF ActDone, PageInv
    <2>2. /\ shownPage.keeps => ActingUser = openedAs
          /\ ~changedSince => ActingUser = openedAs
          /\ ~shownPage.keeps => ActingUser = stored
        BY <2>1 DEF ActingUser, PageInv
    <2>3. CASE shownPage.acts # "reload" \/ ActingUser = NoUser
        <3>1. /\ \A d \in PageCalls \cup {Window} : pc'[d] = IF d = c THEN "done" ELSE pc[d]
              /\ UNCHANGED <<failures, overlapped, sentAs>>
              /\ sentAway' = sentAway \/ sentAway' = TRUE
              /\ shownPage.acts = "reload" => sentAway' = TRUE
            BY <1>8, <2>3 DEF ActDone, Goto, MovesTo
        <3>2. ShowsWhy => ShowsWhy'
            BY <2>1, <3>1 DEF ShowsWhy
        <3> QED
            BY <2>1, <3>1, <3>2 DEF PageInv, Ended
    <2>4. CASE shownPage.acts = "reload" /\ ActingUser # NoUser
        <3>1. /\ \A d \in PageCalls \cup {Window} : pc'[d] = IF d = c THEN "again" ELSE pc[d]
              /\ UNCHANGED <<failures, overlapped, sentAway>>
              /\ sentAs' = [sentAs EXCEPT ![c] = ActingUser]
            BY <1>8, <2>4 DEF ActDone, Goto, MovesTo
        <3>2. /\ DOMAIN sentAs' = PageCalls /\ sentAs'[c] = ActingUser
              /\ \A d \in PageCalls \ {c} : sentAs'[d] = sentAs[d]
            BY <3>1 DEF PageInv
        <3>3. ShowsWhy'
            BY <3>1 DEF ShowsWhy
        <3>4. /\ shownPage.keeps \/ ~changedSince =>
                   \A d \in PageCalls : pc'[d] # "idle" => sentAs'[d] = openedAs
              /\ ~shownPage.keeps => \A d \in lateCalls : sentAs'[d] = stored
            BY <2>1, <2>2, <3>1, <3>2 DEF PageInv
        <3> QED
            BY <2>1, <2>4, <3>1, <3>2, <3>3, <3>4 DEF PageInv
    <2> QED
        BY <2>3, <2>4
<1>9. ASSUME NEW c \in PageCalls, ActRefused(c) PROVE PageInv'
    <2>1. /\ pc[c] = "act" /\ problem' = TRUE
          /\ \A d \in PageCalls \cup {Window} : pc'[d] = IF d = c THEN "refused" ELSE pc[d]
          /\ UNCHANGED <<failures, overlapped, stored, shownPage, openedAs, changedSince, heldToken,
                         sentAs, lateCalls, shownUser, sentAway>>
        BY <1>9 DEF ActRefused, Goto, MovesTo
    <2>2. shownPage # NoUser /\ ShowsWhy'
        BY <2>1 DEF PageInv, ShowsWhy
    <2> QED
        BY <2>1, <2>2 DEF PageInv, Ended
<1>10. ASSUME NEW c \in PageCalls, PageCallFails(c) PROVE PageInv'
    <2>1. /\ pc[c] \in {"data", "act", "again"}
          /\ problem' = (problem \/ NotesFailure(c))
          /\ \A d \in PageCalls \cup {Window} : pc'[d] = IF d = c THEN "dead" ELSE pc[d]
          /\ failures' = failures + 1
          /\ UNCHANGED <<overlapped, stored, shownPage, openedAs, changedSince, heldToken, sentAs,
                         lateCalls, shownUser, sentAway>>
        BY <1>10 DEF PageCallFails, CutShort, MovesTo, Busy, Started, PageInv
    <2>2. shownPage # NoUser /\ shownPage \in BrowserPages
        BY <2>1 DEF PageInv
    <2>3. shownPage.loads /\ shownPage.guest # "stays" => ShowsWhy'
        <3>1. shownPage.loads /\ shownPage.guest # "stays" =>
                problem' \/ shownPage = AccountSecurity
            BY <2>1, <2>2, PagesShowErrors DEF NotesFailure
        <3> QED
            BY <2>1, <3>1 DEF ShowsWhy
    <2> QED
        BY <2>1, <2>2, <2>3 DEF PageInv, Ended
<1>11. ASSUME NEW p \in Paths, Follow(p) PROVE PageInv'
    <2>1. UNCHANGED <<stored, tabVars>> /\ \A c \in PageCalls \cup {Window} : pc'[c] = pc[c]
        <3>1. CASE stored = NoUser
            BY <1>11, <3>1 DEF Follow, requestVars
        <3>2. CASE stored # NoUser
            <4>1. FreshCheck \in GateCalls /\ Begin(FreshCheck, "check")
                BY <1>11, <3>2 DEF Follow, FreshCheck
            <4> QED
                BY <1>11, <4>1 DEF Follow, Begin, MovesTo
        <3> QED
            BY <3>1, <3>2
    <2> QED
        BY <2>1, OthersKeepPage
<1>12. ASSUME NEW c \in GateCalls, CheckOk(c) \/ CheckFails(c) PROVE PageInv'
    <2>1. UNCHANGED <<stored, tabVars>> /\ \A d \in PageCalls \cup {Window} : pc'[d] = pc[d]
        BY <1>12 DEF CheckOk, CheckFails, Goto, CutShort, MovesTo
    <2> QED
        BY <2>1, OthersKeepPage
<1> QED
    BY <1>1, <1>2, <1>3, <1>4, <1>5, <1>6, <1>7, <1>8, <1>9, <1>10, <1>11, <1>12
    DEF BrowserNext, ChangeElsewhere, ChangeHere

(* The layout asks about the path it is at, as long as nothing overlapped, *)
(* and waits for an answer while it says so.                               *)
GateInv ==
    /\ failures \in Nat
    /\ HeaderIsRight
    /\ DOMAIN gate = {"state", "path", "next"} /\ DOMAIN checkOf = GateCalls
    /\ \A c \in GateCalls : pc[c] \in {"idle", "check"} \cup Ended
    /\ gate.state = "loading" => \E c \in GateCalls : pc[c] = "check"
    /\ gate.next # NoUser =>
        /\ gate.state = "unauth"
        /\ ~overlapped \/ failures = 0 => gate.next = gate.path
    /\ ~overlapped /\ gate.next = NoUser =>
        \A c \in GateCalls : pc[c] = "check" => checkOf[c] = gate.path

LEMMA GateInvInit == Init => GateInv
<1> SUFFICES ASSUME Init PROVE GateInv
    OBVIOUS
<1>1. \A c \in GateCalls : pc[c] = "idle"
    BY BrowserAssumption DEF Init, RequestsInit, BrowserCalls
<1> QED
    BY <1>1 DEF Init, RequestsInit, BrowserInit, GateInv, HeaderIsRight

(* What leaves token, header, layout and its requests alone changes        *)
(* nothing here.                                                           *)
LEMMA OthersKeepGate ==
    ASSUME GateInv, HeaderIsRight', FailuresGrow, OverlapStays, UNCHANGED gateVars,
           \A c \in GateCalls : pc'[c] = pc[c]
    PROVE  GateInv'
BY DEF GateInv, gateVars, FailuresGrow, OverlapStays

LEMMA HeaderStep ==
    ASSUME HeaderIsRight, BrowserNext
    PROVE  HeaderIsRight'
BY DEF HeaderIsRight, BrowserNext, OpenWindow, ChangeElsewhere, ChangeHere, Change, HearStorage,
       Synced, ShowPage, PressOnPage, ShowData, TurnAway, ActDone, ActRefused, PageCallFails,
       Follow, CheckOk, CheckFails, headerVars

LEMMA GateStep ==
    ASSUME GateInv, PageInv, BrowserNext
    PROVE  GateInv'
<1>0. /\ FailuresGrow /\ OverlapStays
      /\ PageCalls \subseteq Calls /\ GateCalls \subseteq Calls /\ Window \in Calls
      /\ \A c \in PageCalls : c \notin GateCalls
      /\ \A c \in GateCalls : c # Window
      /\ failures' \in Nat /\ (failures > 0 => failures' > 0) /\ HeaderIsRight'
    BY FailuresOfBrowser, OverlapOfBrowser, HeaderStep, BrowserAssumption
    DEF BrowserCalls, FailuresGrow, GateInv
<1> USE <1>0
<1>1. ASSUME UNCHANGED gateVars, \A c \in GateCalls : pc'[c] = pc[c] PROVE GateInv'
    BY <1>1, OthersKeepGate
<1>2. ASSUME OpenWindow \/ HearStorage \/ \E u \in BrowserUsers \cup {NoUser} : Change(u)
      PROVE  GateInv'
    BY <1>1, <1>2 DEF OpenWindow, HearStorage, Change, Begin, MovesTo, requestVars
<1>3. ASSUME (\E p \in BrowserPages : ShowPage(p)) \/ PressOnPage PROVE GateInv'
    <2>1. UNCHANGED gateVars
        BY <1>3 DEF ShowPage, PressOnPage
    <2>2. ASSUME NEW u, NEW step, SendAs(u, step) PROVE \A c \in GateCalls : pc'[c] = pc[c]
        <3>1. FreshCall \in PageCalls
            BY <2>2 DEF SendAs, FreshCall
        <3> QED
            BY <2>2, <3>1 DEF SendAs, Begin, MovesTo
    <2>3. \A c \in GateCalls : pc'[c] = pc[c]
        BY <1>3, <2>2 DEF ShowPage, PressOnPage, requestVars
    <2> QED
        BY <1>1, <2>1, <2>3
<1>4. ASSUME NEW c \in PageCalls,
             ShowData(c) \/ TurnAway(c) \/ ActDone(c) \/ ActRefused(c) \/ PageCallFails(c)
      PROVE  GateInv'
    <2>1. UNCHANGED gateVars
        BY <1>4 DEF ShowData, TurnAway, ActDone, ActRefused, PageCallFails
    <2>2. \E step : MovesTo(c, step)
        BY <1>4 DEF ShowData, TurnAway, ActDone, ActRefused, PageCallFails, Goto, CutShort
    <2>3. \A d \in GateCalls : pc'[d] = pc[d]
        BY <2>2 DEF MovesTo
    <2> QED
        BY <1>1, <2>1, <2>3
<1>5. ASSUME NEW p \in Paths, Follow(p) PROVE GateInv'
    <2>1. CASE stored = NoUser
        <3>1. /\ gate' = [state |-> "unauth", path |-> p, next |-> p]
              /\ UNCHANGED <<pc, overlapped, failures, checkOf>> /\ p # NoUser
            BY <1>5, <2>1, BrowserAssumption DEF Follow, requestVars
        <3> QED
            BY <3>1 DEF GateInv
    <2>2. CASE stored # NoUser
        <3> DEFINE c == FreshCheck
        <3>1. c \in GateCalls
            BY <1>5, <2>2 DEF Follow, FreshCheck
        <3> HIDE DEF c
        <3>2. /\ gate.next = NoUser
              /\ Begin(c, "check")
              /\ checkOf' = [checkOf EXCEPT ![c] = p]
              /\ gate' = [gate EXCEPT !.path = p,
                                      !.state = IF @ = "absent" THEN "loading" ELSE @]
            BY <1>5, <2>2 DEF Follow, c
        <3>3. /\ \A d \in GateCalls : pc'[d] = IF d = c THEN "check" ELSE pc[d]
              /\ ~overlapped' => \A d \in GateCalls : pc[d] # "check"
              /\ UNCHANGED failures
            BY <3>1, <3>2 DEF Begin, MovesTo, Busy, Started, Ended
        <3>4. /\ gate'.path = p /\ gate'.next = NoUser
              /\ DOMAIN gate' = {"state", "path", "next"} /\ DOMAIN checkOf' = GateCalls
              /\ checkOf'[c] = p
            BY <3>1, <3>2 DEF GateInv
        <3> QED
            BY <3>1, <3>3, <3>4 DEF GateInv
    <2> QED
        BY <2>1, <2>2
<1>6. ASSUME NEW c \in GateCalls, CheckOk(c) PROVE GateInv'
    <2>1. /\ \A d \in GateCalls : pc'[d] = IF d = c THEN "done" ELSE pc[d]
          /\ gate' = IF gate.next = NoUser THEN [gate EXCEPT !.state = "ok"] ELSE gate
          /\ UNCHANGED <<overlapped, failures, checkOf>>
        BY <1>6 DEF CheckOk, Goto, MovesTo
    <2>2. /\ gate'.path = gate.path /\ gate'.next = gate.next /\ gate'.state # "loading"
          /\ gate.next # NoUser => gate'.state = "unauth"
          /\ DOMAIN gate' = {"state", "path", "next"}
        BY <2>1 DEF GateInv
    <2> QED
        BY <2>1, <2>2 DEF GateInv, Ended
<1>7. ASSUME NEW c \in GateCalls, CheckFails(c) PROVE GateInv'
    <2>1. /\ pc[c] = "check"
          /\ \A d \in GateCalls : pc'[d] = IF d = c THEN "dead" ELSE pc[d]
          /\ gate' = IF gate.next = NoUser
                     THEN [gate EXCEPT !.state = "unauth", !.next = checkOf[c]] ELSE gate
          /\ failures' = failures + 1
          /\ UNCHANGED <<overlapped, checkOf>>
        BY <1>7 DEF CheckFails, ReturnTo, CutShort, MovesTo, Busy, Started, Ended, GateInv
    <2>2. /\ gate'.path = gate.path /\ gate'.state = "unauth"
          /\ ~overlapped => gate'.next = gate.path
          /\ DOMAIN gate' = {"state", "path", "next"}
        BY <2>1 DEF GateInv
    <2>3. failures' # 0
        BY <2>1 DEF GateInv
    <2>4. gate'.next = NoUser /\ ~overlapped => \A d \in GateCalls : pc'[d] = "check" => checkOf[d] = gate.path
        BY <2>1 DEF GateInv
    <2> QED
        BY <2>1, <2>2, <2>3, <2>4 DEF GateInv, Ended
<1> QED
    BY <1>2, <1>3, <1>4, <1>5, <1>6, <1>7 DEF BrowserNext, ChangeElsewhere, ChangeHere

LEMMA BrowserInductive == PageInv /\ GateInv /\ [Next]_vars => PageInv' /\ GateInv'
<1> SUFFICES ASSUME PageInv, GateInv, [Next]_vars PROVE PageInv' /\ GateInv'
    OBVIOUS
<1>1. CASE UNCHANGED vars
    BY <1>1
    DEF PageInv, ShowsWhy, GateInv, HeaderIsRight, vars, browserVars, headerVars, tabVars,
        gateVars, requestVars
<1>2. CASE Next
    <2>1. PICK i \in 1..11 : StepOf(i)
        BY <1>2, StepsOfParts
    <2>2. CASE i = 10
        BY <2>1, <2>2, PageStep, GateStep DEF StepOf
    <2>3. CASE i # 10
        <3>1. \A c \in BrowserCalls : pc[c] = "idle" /\ pc'[c] = "idle"
            <4>1. BrowserCalls \subseteq Parts[10] \cap Calls
                BY PartsByNumber, BrowserAssumption
            <4> QED
                BY <2>1, <2>3, <4>1, OthersAreIdle
        <3>2. UNCHANGED browserVars
            BY <2>1, <2>3 DEF StepOf
        <3>3. FailuresGrow /\ OverlapStays
            BY <1>2, CountersStep
        <3>4. HeaderIsRight'
            BY <3>2 DEF GateInv, HeaderIsRight, browserVars, headerVars
        <3> QED
            BY <3>1, <3>2, <3>3, <3>4, OthersKeepPage, OthersKeepGate
            DEF browserVars, BrowserCalls
    <2> QED
        BY <2>2, <2>3
<1> QED
    BY <1>1, <1>2

(* The pages, the header and the layout of the browser, and AuthStore: who *)
(* acts and whose data is shown differ only after another tab changed the  *)
(* token, every page says what became of its data, the layout leads back   *)
(* to where the user was, and token, e-mail and name are one user's.       *)
THEOREM ClientsAlwaysKnow == Spec => []ClientsKnowUser
<1>1. ASSUME PageInv PROVE ActsAsShown /\ PagesSettle
    <2>1. \A c \in PageCalls : pc[c] \in {"data", "again"} => c \in Busy
        BY BrowserAssumption DEF BrowserCalls, Busy, Started, Ended
    <2>2. \A c \in Started \cap PageCalls : pc[c] # "idle"
        BY DEF Started
    <2> QED
        BY <1>1, <2>1, <2>2 DEF PageInv, ShowsWhy, ActsAsShown, PagesSettle
<1>2. ASSUME GateInv PROVE HeaderIsRight /\ GateReturns
    <2>1. \A c \in GateCalls : pc[c] = "check" => c \in Busy
        BY BrowserAssumption DEF BrowserCalls, Busy, Started, Ended
    <2> QED
        BY <1>2, <2>1 DEF GateInv, GateReturns
<1>3. ASSUME SignInInv PROVE IdentityFits
    <2>1. Running \subseteq Busy
        BY IdentityAssumption DEF Running, IdentityPart, Busy, Started, Ended
    <2>2. Sound => Agree(known)
        BY <1>3 DEF SignInInv
    <2>3. Undisturbed /\ Busy = {} => known = prefs /\ known = Session(known.token)
        BY <1>3, <2>1 DEF SignInInv
    <2> QED
        BY <2>2, <2>3 DEF IdentityFits, Sound, Agree, Session
<1>4. PageInv /\ GateInv /\ SignInInv => ClientsKnowUser
    BY <1>1, <1>2, <1>3 DEF ClientsKnowUser, BrowserFits
<1> QED
    BY <1>4, PageInvInit, GateInvInit, SignInInit, BrowserInductive, SignInInductive, PTL DEF Spec

-------------------------------------------------------------------------------
(* Whom the phone and the browser are notified for.                        *)

Tasks == SignIns \cup SignOuts
InTask == {c \in Tasks : pc[c] \in {"getToken", "send", "listen", "clear"}}

(* Nothing failed or overlapped, and no token was rotated while a task     *)
(* ran.                                                                    *)
Orderly == Undisturbed /\ ~missed

(* Whatever listens, listens for u; or nothing has been rotated yet.       *)
Steady(u) == fcm = 1 \/ listeners \subseteq {u}

(* The phone's row is that of who is signed in, or on its way.             *)
RowHolds == Steady(signedIn) => device[fcm] = signedIn \/ <<signedIn, fcm>> \in refreshes

DeviceInv ==
    /\ failures \in Nat
    /\ fcm \in 1..FcmTokens /\ DOMAIN device = 1..FcmTokens
    /\ signedIn \in Holders /\ listeners \subseteq PhoneUsers
    /\ refreshes \subseteq listeners \X (2..fcm)
    /\ task \in [Tasks -> Holders \X (1..FcmTokens)]
    /\ \A c \in Tasks : task[c][2] <= fcm
    /\ \A t \in 1..FcmTokens : t > fcm => device[t] = Nobody
    /\ \A c \in SignIns : pc[c] \in {"getToken", "send", "listen"} => task[c][1] \in PhoneUsers
    /\ \A c \in SignIns : pc[c] \in {"idle", "getToken", "send", "listen"} \cup Ended
    /\ \A c \in SignOuts : pc[c] \in {"idle", "getToken", "send", "clear"} \cup Ended
    /\ Orderly =>
        /\ \A c, d \in InTask : c = d
        /\ InTask = {} => RowHolds /\ signedIn \in listeners \cup {Nobody}
        /\ \A c \in InTask :
            /\ signedIn \in PhoneUsers /\ task[c][1] = signedIn
            /\ pc[c] = "send" => task[c][2] = fcm
            /\ pc[c] = "listen" /\ Steady(signedIn) => device[fcm] = signedIn
        /\ \A c \in InTask \cap SignOuts :
            /\ signedIn \in listeners
            /\ pc[c] \in {"getToken", "send"} => RowHolds
            /\ pc[c] = "clear" /\ fcm = 1 => device[1] = Nobody

LEMMA DeviceInit == Init => DeviceInv
<1> SUFFICES ASSUME Init PROVE DeviceInv
    OBVIOUS
<1>1. \A c \in Tasks : pc[c] = "idle"
    BY DevicesAssumption DEF Init, RequestsInit, Tasks
<1>2. InTask = {}
    BY <1>1 DEF InTask
<1>3. /\ failures = 0 /\ signedIn = Nobody /\ fcm = 1 /\ listeners = {} /\ refreshes = {}
      /\ device = [t \in 1..FcmTokens |-> Nobody]
      /\ task = [c \in Tasks |-> <<Nobody, 1>>]
    BY DEF Init, RequestsInit, DevicesInit, Tasks
<1>4. 1 \in 1..FcmTokens /\ <<Nobody, 1>> \in Holders \X (1..FcmTokens)
    BY DevicesAssumption DEF Holders
<1> QED
    BY <1>1, <1>2, <1>3, <1>4 DEF DeviceInv, RowHolds, Tasks

LEMMA DeviceStep ==
    ASSUME DeviceInv, DevicesNext, Only(DevicePart)
    PROVE  DeviceInv'
<1>0. /\ FailuresGrow /\ failures \in Nat /\ failures' \in Nat /\ (failures' = 0 => failures = 0)
      /\ fcm \in 1..FcmTokens /\ DOMAIN device = 1..FcmTokens /\ signedIn \in Holders
      /\ FcmTokens \in Nat \ {0} /\ fcm \in Nat /\ fcm >= 1 /\ 1 \in 1..FcmTokens
      /\ listeners \subseteq PhoneUsers /\ refreshes \subseteq listeners \X (2..fcm)
      /\ task \in [Tasks -> Holders \X (1..FcmTokens)]
      /\ Tasks \subseteq Calls /\ SignIns \subseteq Tasks /\ SignOuts \subseteq Tasks
      /\ \A c \in SignIns : c \notin SignOuts
      /\ Nobody \notin PhoneUsers /\ PhoneUsers \subseteq Holders /\ Nobody \in Holders
    BY FailuresOfDevices, DevicesAssumption DEF DeviceInv, FailuresGrow, Tasks, Holders
<1>a. InTask = Busy
    <2>1. \A c \in Tasks : pc[c] \in {"getToken", "send", "listen", "clear"} <=> c \in Busy
        BY <1>0 DEF DeviceInv, Ended, Started, Busy, Tasks
    <2>2. Busy \subseteq Tasks
        BY DEF Busy, Started, Only, DevicePart, Tasks
    <2> QED
        BY <2>1, <2>2 DEF InTask
<1> USE <1>0
<1>1. ASSUME NEW c \in SignIns, SignIn(c) PROVE DeviceInv'
    <2>1. PICK u \in PhoneUsers :
              /\ signedIn = Nobody /\ signedIn' = u /\ pc[c] = "idle"
              /\ \A d \in Tasks : pc'[d] = IF d = c THEN "getToken" ELSE pc[d]
              /\ overlapped' = (overlapped \/ InTask # {})
              /\ task' = [task EXCEPT ![c] = <<u, 1>>]
              /\ UNCHANGED <<failures, fcm, device, listeners, refreshes, missed>>
        BY <1>1, <1>a DEF SignIn, Begin, MovesTo
    <2>2. /\ task' \in [Tasks -> Holders \X (1..FcmTokens)]
          /\ task'[c] = <<u, 1>> /\ \A d \in Tasks \ {c} : task'[d] = task[d]
        BY <2>1
    <2>3. Orderly' => Orderly /\ InTask' = {c}
        BY <2>1 DEF Orderly, Undisturbed, InTask
    <2>4. \A d \in Tasks : task'[d][2] <= fcm'
        BY <2>1, <2>2 DEF DeviceInv
    <2>5. /\ \A d \in SignIns : pc'[d] \in {"idle", "getToken", "send", "listen"} \cup Ended
          /\ \A d \in SignOuts : pc'[d] \in {"idle", "getToken", "send", "clear"} \cup Ended
        BY <2>1 DEF DeviceInv
    <2>6. /\ \A t \in 1..FcmTokens : t > fcm => device[t] = Nobody
        BY DEF DeviceInv
    <2>7. /\ pc'[c] = "getToken" /\ task'[c][1] = signedIn' /\ signedIn' \in PhoneUsers
          /\ \A d \in SignIns : pc'[d] \in {"getToken", "send", "listen"} => task'[d][1] \in PhoneUsers
        BY <2>1, <2>2 DEF DeviceInv
    <2> QED
        BY <2>1, <2>2, <2>3, <2>4, <2>5, <2>6, <2>7 DEF DeviceInv
<1>2. ASSUME NEW c \in SignOuts, SignOut(c) PROVE DeviceInv'
    <2>1. /\ signedIn # Nobody /\ pc[c] = "idle"
          /\ \A d \in Tasks : pc'[d] = IF d = c THEN "getToken" ELSE pc[d]
          /\ overlapped' = (overlapped \/ InTask # {})
          /\ task' = [task EXCEPT ![c] = <<signedIn, 1>>]
          /\ UNCHANGED <<failures, signedIn, fcm, device, listeners, refreshes, missed>>
        BY <1>2, <1>a DEF SignOut, Begin, MovesTo
    <2>2. /\ task' \in [Tasks -> Holders \X (1..FcmTokens)]
          /\ task'[c] = <<signedIn, 1>> /\ \A d \in Tasks \ {c} : task'[d] = task[d]
        BY <2>1
    <2>3. Orderly' => Orderly /\ InTask = {} /\ InTask' = {c}
        BY <2>1 DEF Orderly, Undisturbed, InTask
    <2>4. \A d \in Tasks : task'[d][2] <= fcm'
        BY <2>1, <2>2 DEF DeviceInv
    <2>5. /\ \A d \in SignIns : pc'[d] \in {"idle", "getToken", "send", "listen"} \cup Ended
          /\ \A d \in SignOuts : pc'[d] \in {"idle", "getToken", "send", "clear"} \cup Ended
          /\ \A d \in SignIns : pc'[d] \in {"getToken", "send", "listen"} => task'[d][1] \in PhoneUsers
          /\ \A t \in 1..FcmTokens : t > fcm => device[t] = Nobody
        BY <2>1, <2>2 DEF DeviceInv
    <2>6. Orderly' => RowHolds' /\ signedIn \in listeners
        BY <2>1, <2>3 DEF DeviceInv, RowHolds, Steady
    <2>7. pc'[c] = "getToken" /\ task'[c][1] = signedIn
        BY <2>1, <2>2
    <2> QED
        BY <2>1, <2>2, <2>3, <2>4, <2>5, <2>6, <2>7 DEF DeviceInv
<1>3. ASSUME NEW c \in Tasks, GetFcmToken(c) PROVE DeviceInv'
    <2>1. /\ pc[c] = "getToken"
          /\ \A d \in Tasks : pc'[d] = IF d = c THEN "send" ELSE pc[d]
          /\ task' = [task EXCEPT ![c][2] = fcm]
          /\ UNCHANGED <<failures, overlapped, signedIn, fcm, device, listeners, refreshes, missed>>
        BY <1>3 DEF GetFcmToken, Goto, MovesTo
    <2>2. /\ task' \in [Tasks -> Holders \X (1..FcmTokens)]
          /\ task'[c][1] = task[c][1] /\ task'[c][2] = fcm
          /\ \A d \in Tasks \ {c} : task'[d] = task[d]
        BY <2>1
    <2>3. InTask' = InTask /\ c \in InTask /\ (Orderly' <=> Orderly) /\ (RowHolds' <=> RowHolds)
        BY <2>1 DEF Orderly, Undisturbed, InTask, RowHolds, Steady
    <2>4. Orderly => InTask = {c}
        BY <2>3 DEF DeviceInv
    <2>5. \A d \in Tasks : task'[d][2] <= fcm'
        BY <2>1, <2>2 DEF DeviceInv
    <2>6. /\ \A d \in SignIns : pc'[d] \in {"idle", "getToken", "send", "listen"} \cup Ended
          /\ \A d \in SignOuts : pc'[d] \in {"idle", "getToken", "send", "clear"} \cup Ended
          /\ \A t \in 1..FcmTokens : t > fcm => device[t] = Nobody
          /\ \A d \in SignIns : pc'[d] \in {"getToken", "send", "listen"} => task'[d][1] \in PhoneUsers
        BY <2>1, <2>2 DEF DeviceInv
    <2>7. ASSUME Orderly
          PROVE  /\ signedIn \in PhoneUsers /\ task'[c][1] = signedIn /\ pc'[c] = "send"
                 /\ c \in SignOuts => signedIn \in listeners /\ RowHolds
        BY <2>1, <2>2, <2>3, <2>7 DEF DeviceInv
    <2> QED
        BY <2>1, <2>2, <2>3, <2>4, <2>5, <2>6, <2>7 DEF DeviceInv
<1>4. ASSUME NEW c \in SignIns, RegisterDevice(c) PROVE DeviceInv'
    <2> DEFINE u == task[c][1]
               t == task[c][2]
    <2>1. /\ pc[c] = "send" /\ t \in 1..FcmTokens /\ t <= fcm
          /\ \A d \in Tasks : pc'[d] = IF d = c THEN "listen" ELSE pc[d]
          /\ device' = [device EXCEPT ![t] = u]
          /\ UNCHANGED <<failures, overlapped, signedIn, fcm, task, listeners, refreshes, missed>>
        BY <1>4 DEF RegisterDevice, Goto, MovesTo, DeviceInv
    <2>3. InTask' = InTask /\ c \in InTask /\ (Orderly' <=> Orderly)
        BY <2>1 DEF Orderly, Undisturbed, InTask
    <2>4. Orderly => /\ InTask = {c} /\ u = signedIn /\ t = fcm /\ signedIn \in PhoneUsers
                     /\ device'[fcm] = signedIn
        BY <2>1, <2>3 DEF DeviceInv
    <2>5. /\ \A d \in SignIns : pc'[d] \in {"idle", "getToken", "send", "listen"} \cup Ended
          /\ \A d \in SignOuts : pc'[d] \in {"idle", "getToken", "send", "clear"} \cup Ended
          /\ \A d \in SignIns : pc'[d] \in {"getToken", "send", "listen"} => task[d][1] \in PhoneUsers
        BY <2>1 DEF DeviceInv
    <2>6. \A s \in 1..FcmTokens : s > fcm => device'[s] = Nobody
        <3> SUFFICES ASSUME NEW s \in 1..FcmTokens, s > fcm PROVE device'[s] = Nobody
            OBVIOUS
        <3>1. s # t /\ device[s] = Nobody
            BY <2>1 DEF DeviceInv
        <3> QED
            BY <2>1, <3>1
    <2> QED
        BY <2>1, <2>3, <2>4, <2>5, <2>6 DEF DeviceInv
<1>5. ASSUME NEW c \in SignIns, ListenForRefresh(c) PROVE DeviceInv'
    <2> DEFINE u == task[c][1]
    <2>1. /\ pc[c] = "listen"
          /\ \A d \in Tasks : pc'[d] = IF d = c THEN "done" ELSE pc[d]
          /\ listeners' = listeners \cup {u}
          /\ UNCHANGED <<failures, overlapped, signedIn, fcm, task, device, refreshes, missed>>
        BY <1>5 DEF ListenForRefresh, Goto, MovesTo
    <2>2. u \in PhoneUsers /\ listeners' \subseteq PhoneUsers
        BY <2>1 DEF DeviceInv
    <2>3. refreshes' \subseteq listeners' \X (2..fcm')
        BY <2>1
    <2>4. InTask' = InTask \ {c} /\ c \in InTask /\ (Orderly' <=> Orderly)
        BY <2>1 DEF Orderly, Undisturbed, InTask
    <2>5. ASSUME Orderly
          PROVE  /\ InTask' = {} /\ u = signedIn /\ signedIn \in listeners'
                 /\ Steady(signedIn) => device[fcm] = signedIn
        BY <2>1, <2>4, <2>5 DEF DeviceInv
    <2>6. Orderly => RowHolds'
        BY <2>1, <2>5 DEF RowHolds, Steady
    <2>7. /\ \A d \in SignIns : pc'[d] \in {"idle", "getToken", "send", "listen"} \cup Ended
          /\ \A d \in SignOuts : pc'[d] \in {"idle", "getToken", "send", "clear"} \cup Ended
          /\ \A s \in 1..FcmTokens : s > fcm => device[s] = Nobody
          /\ \A d \in SignIns : pc'[d] \in {"getToken", "send", "listen"} => task[d][1] \in PhoneUsers
          /\ \A d \in Tasks : task[d][2] <= fcm
        BY <2>1 DEF DeviceInv, Ended
    <2> QED
        BY <2>1, <2>2, <2>3, <2>4, <2>5, <2>6, <2>7 DEF DeviceInv
<1>6. ASSUME NEW c \in SignOuts, UnregisterDevice(c) PROVE DeviceInv'
    <2> DEFINE u == task[c][1]
               t == task[c][2]
    <2>1. /\ pc[c] = "send" /\ t \in 1..FcmTokens
          /\ \A d \in Tasks : pc'[d] = IF d = c THEN "clear" ELSE pc[d]
          /\ device' = IF device[t] = u THEN [device EXCEPT ![t] = Nobody] ELSE device
          /\ UNCHANGED <<failures, overlapped, signedIn, fcm, task, listeners, refreshes, missed>>
        BY <1>6 DEF UnregisterDevice, RemovesRow, Goto, MovesTo, DeviceInv
    <2>3. InTask' = InTask /\ c \in InTask /\ (Orderly' <=> Orderly)
        BY <2>1 DEF Orderly, Undisturbed, InTask
    <2>4. ASSUME Orderly
          PROVE  /\ InTask = {c} /\ u = signedIn /\ t = fcm /\ signedIn \in PhoneUsers
                 /\ signedIn \in listeners /\ RowHolds
        BY <2>1, <2>3, <2>4 DEF DeviceInv
    <2>5. ASSUME Orderly, fcm = 1 PROVE device'[1] = Nobody
        <3>1. device[1] = signedIn
            BY <2>4, <2>5 DEF RowHolds, Steady
        <3> QED
            BY <2>1, <2>4, <2>5, <3>1
    <2>6. /\ \A d \in SignIns : pc'[d] \in {"idle", "getToken", "send", "listen"} \cup Ended
          /\ \A d \in SignOuts : pc'[d] \in {"idle", "getToken", "send", "clear"} \cup Ended
          /\ \A s \in 1..FcmTokens : s > fcm => device'[s] = Nobody
          /\ \A d \in SignIns : pc'[d] \in {"getToken", "send", "listen"} => task[d][1] \in PhoneUsers
        BY <2>1 DEF DeviceInv
    <2> QED
        BY <2>1, <2>3, <2>4, <2>5, <2>6 DEF DeviceInv
<1>7. ASSUME NEW c \in Tasks, (UnregisterFails(c) /\ c \in SignOuts) \/ DeviceCutShort(c)
      PROVE  DeviceInv'
    <2>1. /\ failures' = failures + 1 /\ UNCHANGED deviceVars
          /\ pc'[c] \in {"clear", "dead"} /\ \A d \in Tasks \ {c} : pc'[d] = pc[d]
        BY <1>7 DEF UnregisterFails, DeviceCutShort, CutShort, MovesTo
    <2>2. ~Orderly'
        BY <2>1 DEF Orderly, Undisturbed
    <2>3. c \in SignIns => pc'[c] = "dead"
        BY <1>7 DEF UnregisterFails, DeviceCutShort, CutShort, MovesTo
    <2> QED
        BY <2>1, <2>2, <2>3 DEF DeviceInv, deviceVars, Ended
<1>8. ASSUME NEW c \in SignOuts, ClearSession(c) PROVE DeviceInv'
    <2>1. /\ pc[c] = "clear" /\ signedIn' = Nobody
          /\ \A d \in Tasks : pc'[d] = IF d = c THEN "done" ELSE pc[d]
          /\ UNCHANGED <<failures, overlapped, listeners, fcm, task, device, refreshes, missed>>
        BY <1>8 DEF ClearSession, Goto, MovesTo
    <2>2. InTask' = InTask \ {c} /\ c \in InTask /\ (Orderly' <=> Orderly)
        BY <2>1 DEF Orderly, Undisturbed, InTask
    <2>3. ASSUME Orderly
          PROVE  InTask' = {} /\ signedIn \in listeners /\ (fcm = 1 => device[1] = Nobody)
        BY <2>1, <2>2, <2>3 DEF DeviceInv
    <2>4. Orderly => RowHolds'
        BY <2>1, <2>3 DEF RowHolds, Steady
    <2>5. /\ \A d \in SignIns : pc'[d] \in {"idle", "getToken", "send", "listen"} \cup Ended
          /\ \A d \in SignOuts : pc'[d] \in {"idle", "getToken", "send", "clear"} \cup Ended
          /\ \A s \in 1..FcmTokens : s > fcm => device[s] = Nobody
          /\ \A d \in SignIns : pc'[d] \in {"getToken", "send", "listen"} => task[d][1] \in PhoneUsers
          /\ \A d \in Tasks : task[d][2] <= fcm
        BY <2>1 DEF DeviceInv, Ended
    <2> QED
        BY <2>1, <2>2, <2>3, <2>4, <2>5 DEF DeviceInv
<1>9. ASSUME RotateToken PROVE DeviceInv'
    <2>1. /\ fcm < FcmTokens /\ fcm' = fcm + 1
          /\ refreshes' = refreshes \cup (listeners \X {fcm + 1})
          /\ missed' = (missed \/ InTask # {})
          /\ UNCHANGED <<pc, failures, overlapped, signedIn, device, listeners, task>>
        BY <1>9, <1>a DEF RotateToken, requestVars
    <2>2. /\ fcm' \in 1..FcmTokens
          /\ refreshes' \subseteq listeners' \X (2..fcm')
          /\ \A c \in Tasks : task'[c][2] <= fcm'
          /\ \A t \in 1..FcmTokens : t > fcm' => device'[t] = Nobody
          /\ device[fcm'] = Nobody
        BY <2>1 DEF DeviceInv
    <2>3. Orderly' => Orderly /\ InTask = {} /\ InTask' = {}
        BY <2>1 DEF Orderly, Undisturbed, InTask
    <2>4. Orderly' => signedIn \in listeners \cup {Nobody}
        BY <2>3 DEF DeviceInv
    <2>5. Orderly' => RowHolds'
        BY <2>1, <2>2, <2>4 DEF RowHolds
    <2> QED
        BY <2>1, <2>2, <2>3, <2>4, <2>5 DEF DeviceInv
<1>10. ASSUME RegisterRefreshed PROVE DeviceInv'
    <2>1. PICK r \in refreshes :
              /\ device' = [device EXCEPT ![r[2]] = r[1]]
              /\ refreshes' = refreshes \ {r}
              /\ UNCHANGED <<pc, failures, overlapped, signedIn, fcm, listeners, task, missed>>
        BY <1>10 DEF RegisterRefreshed, requestVars
    <2>2. r[1] \in listeners /\ r[2] \in 2..fcm /\ r = <<r[1], r[2]>>
        OBVIOUS
    <2>3. /\ DOMAIN device' = 1..FcmTokens /\ device'[r[2]] = r[1]
          /\ \A t \in 1..FcmTokens : t # r[2] => device'[t] = device[t]
        BY <2>1, <2>2
    <2>4. InTask' = InTask /\ (Orderly' <=> Orderly) /\ \A u : Steady(u)' <=> Steady(u)
        BY <2>1 DEF InTask, Orderly, Undisturbed, Steady
    <2>5. r[2] = fcm /\ Steady(signedIn) => r[1] = signedIn
        BY <2>2 DEF Steady
    <2>6. RowHolds => RowHolds'
        BY <2>1, <2>2, <2>3, <2>4, <2>5 DEF RowHolds
    <2>7. Steady(signedIn) /\ device[fcm] = signedIn => device'[fcm] = signedIn
        BY <2>3, <2>5
    <2>8. fcm = 1 => device'[1] = device[1]
        BY <2>2, <2>3
    <2>9. /\ refreshes' \subseteq listeners' \X (2..fcm')
          /\ \A t \in 1..FcmTokens : t > fcm => device'[t] = Nobody
        BY <2>1, <2>2, <2>3 DEF DeviceInv
    <2> QED
        BY <2>1, <2>3, <2>4, <2>6, <2>7, <2>8, <2>9 DEF DeviceInv
<1>11. ASSUME DropStaleDevice PROVE DeviceInv'
    <2>1. PICK t \in 1..FcmTokens :
              /\ t < fcm /\ device' = [device EXCEPT ![t] = Nobody]
              /\ UNCHANGED <<pc, failures, overlapped, signedIn, fcm, listeners, refreshes, task, missed>>
        BY <1>11 DEF DropStaleDevice, requestVars
    <2>2. /\ DOMAIN device' = 1..FcmTokens /\ device'[fcm] = device[fcm]
          /\ \A s \in 1..FcmTokens : s > fcm => device'[s] = Nobody
          /\ fcm = 1 => device'[1] = device[1]
        BY <2>1 DEF DeviceInv
    <2>3. /\ InTask' = InTask /\ (Orderly' <=> Orderly) /\ (RowHolds' <=> RowHolds)
          /\ Steady(signedIn)' <=> Steady(signedIn)
        BY <2>1, <2>2 DEF InTask, Orderly, Undisturbed, Steady, RowHolds
    <2> QED
        BY <2>1, <2>2, <2>3 DEF DeviceInv
<1> QED
    BY <1>1, <1>2, <1>3, <1>4, <1>5, <1>6, <1>7, <1>8, <1>9, <1>10, <1>11
    DEF DevicesNext, Tasks

LEMMA DeviceInductive == DeviceInv /\ [Next]_vars => DeviceInv'
<1> SUFFICES ASSUME DeviceInv, [Next]_vars PROVE DeviceInv'
    OBVIOUS
<1>1. CASE UNCHANGED vars
    BY <1>1
    DEF DeviceInv, Orderly, Undisturbed, InTask, RowHolds, Steady, vars, deviceVars, requestVars
<1>2. CASE Next
    <2>1. PICK i \in 1..11 : StepOf(i)
        BY <1>2, StepsOfParts
    <2>2. CASE i = 5
        BY <2>1, <2>2, PartsByNumber, DeviceStep DEF StepOf
    <2>3. CASE i # 5
        <3>1. \A c \in Tasks : pc[c] = "idle" /\ pc'[c] = "idle"
            <4>1. Tasks \subseteq Parts[5] \cap Calls
                BY PartsByNumber, DevicesAssumption DEF DevicePart, Tasks
            <4> QED
                BY <2>1, <2>3, <4>1, OthersAreIdle
        <3>2. UNCHANGED deviceVars /\ InTask = {} /\ InTask' = {}
            BY <2>1, <2>3, <3>1 DEF StepOf, InTask
        <3>3. FailuresGrow /\ OverlapStays
            BY <1>2, CountersStep
        <3>4. failures' \in Nat /\ (Orderly' => Orderly)
            BY <3>2, <3>3
            DEF FailuresGrow, OverlapStays, DeviceInv, Orderly, Undisturbed, deviceVars
        <3>5. RowHolds' <=> RowHolds
            BY <3>2 DEF RowHolds, Steady, deviceVars
        <3>6. SignIns \subseteq Tasks /\ SignOuts \subseteq Tasks
            BY DEF Tasks
        <3> QED
            BY <3>1, <3>2, <3>4, <3>5, <3>6 DEF DeviceInv, deviceVars
    <2> QED
        BY <2>2, <2>3
<1> QED
    BY <1>1, <1>2

LEMMA DeviceFollows ==
    ASSUME DeviceInv
    PROVE  DeviceFollowsUser
<1>1. InTask \subseteq Busy
    BY DevicesAssumption DEF InTask, Tasks, Busy, Started, Ended
<1>2. Orderly /\ InTask = {} => RowHolds
    BY DEF DeviceInv
<1> QED
    BY <1>1, <1>2 DEF DeviceFollowsUser, Orderly, RowHolds, Steady

-------------------------------------------------------------------------------
(* Presses that are being served, and what the API holds meanwhile.        *)
Pressed == {c \in Toggles : pc[c] \in {"permission", "subscribe", "register", "find", "unregister"}}

(* One user had the browser, and nothing failed or overlapped.             *)
Calm == Undisturbed /\ ~switched

RowsFit == \A e \in Endpoints : webRows[e] = IF e = subscription THEN webUser ELSE NoOne

WebInv ==
    /\ failures \in Nat
    /\ DOMAIN toggle = Toggles /\ DOMAIN webRows = Endpoints
    /\ \A c \in Toggles : pc[c] \in {"idle"} \cup Ended \/ c \in Pressed
    /\ \A c \in Pressed : {"tab", "user", "was"} \subseteq DOMAIN toggle[c]
    /\ webUser = NoOne => subscription = 0 /\ Pressed = {}
    /\ Calm =>
        /\ \A c, d \in Pressed : c = d
        /\ Pressed = {} => RowsFit
        /\ \A c \in Pressed :
            /\ toggle[c].user = webUser
            /\ pc[c] \in {"permission", "subscribe", "find"} => RowsFit
            /\ pc[c] = "register" =>
                /\ toggle[c].was = subscription
                /\ \A e \in Endpoints : e # subscription => webRows[e] = NoOne
            /\ pc[c] = "unregister" =>
                /\ subscription = 0
                /\ \A e \in Endpoints :
                    webRows[e] = NoOne \/ (e = toggle[c].was /\ webRows[e] = webUser)

LEMMA WebInit == Init => WebInv
<1> SUFFICES ASSUME Init PROVE WebInv
    OBVIOUS
<1>1. \A c \in Toggles : pc[c] = "idle"
    BY WebPushAssumption DEF Init, RequestsInit
<1>2. Pressed = {}
    BY <1>1 DEF Pressed
<1>3. /\ failures = 0 /\ webUser = NoOne /\ subscription = 0
      /\ webRows = [e \in Endpoints |-> NoOne]
      /\ toggle = [c \in Toggles |-> <<>>]
    BY DEF Init, RequestsInit, WebPushInit
<1> QED
    BY <1>1, <1>2, <1>3 DEF WebInv, RowsFit

LEMMA NoEndpointIsZero == 0 \notin Endpoints
    BY WebPushAssumption, FS_CardinalityType DEF Endpoints

LEMMA WebStep ==
    ASSUME WebInv, WebPushNext, Only(Toggles)
    PROVE  WebInv'
<1>0. /\ FailuresGrow /\ failures \in Nat /\ failures' \in Nat /\ (failures' = 0 => failures = 0)
      /\ DOMAIN toggle = Toggles /\ DOMAIN webRows = Endpoints
      /\ Toggles \subseteq Calls /\ NoOne \notin WebUsers /\ Pressed \subseteq Toggles
    BY FailuresOfWebPush, WebPushAssumption DEF WebInv, FailuresGrow, Pressed
<1>a. Pressed = Busy
    <2>1. \A c \in Toggles : c \in Pressed <=> c \in Busy
        BY <1>0 DEF WebInv, Pressed, Busy, Started, Ended
    <2> QED
        BY <2>1 DEF Busy, Only, Pressed
<1> USE <1>0
<1>1. ASSUME NEW t \in Tabs, PressToggle(t) PROVE WebInv'
    <2>1. PICK c \in Toggles :
              /\ pc[c] = "idle" /\ pc'[c] \in {"find", "permission"}
              /\ \A d \in Toggles \ {c} : pc'[d] = pc[d]
              /\ overlapped' = (overlapped \/ Pressed # {})
              /\ toggle' = [toggle EXCEPT ![c] = [tab |-> t, user |-> webUser', was |-> endpoint[t]]]
              /\ webUser' = webUser \/ (webUser = NoOne /\ webUser' \in WebUsers)
              /\ webUser' # NoOne
              /\ UNCHANGED <<failures, subscription, webRows, switched>>
        <3>1. FreshToggle \in Toggles /\ pc[FreshToggle] = "idle"
            BY <1>1 DEF PressToggle, FreshToggle
        <3> QED
            BY <1>1, <1>a, <3>1 DEF PressToggle, Begin, MovesTo
    <2>2. /\ toggle'[c] = [tab |-> t, user |-> webUser', was |-> endpoint[t]]
          /\ DOMAIN toggle' = Toggles /\ \A d \in Toggles \ {c} : toggle'[d] = toggle[d]
        BY <2>1
    <2>3. Pressed' = Pressed \cup {c} /\ c \notin Pressed
        BY <2>1 DEF Pressed
    <2>4. Calm' => Calm /\ Pressed = {} /\ Pressed' = {c}
        BY <2>1, <2>3 DEF Calm, Undisturbed
    <2>5. RowsFit => RowsFit'
        BY <2>1, NoEndpointIsZero DEF RowsFit, WebInv
    <2>6. Calm' => RowsFit'
        BY <2>4, <2>5 DEF WebInv
    <2>7. \A d \in Pressed' : {"tab", "user", "was"} \subseteq DOMAIN toggle'[d]
        BY <2>2, <2>3 DEF WebInv
    <2>8. \A d \in Toggles : pc'[d] \in {"idle"} \cup Ended \/ d \in Pressed'
        BY <2>1, <2>3 DEF WebInv
    <2> QED
        BY <2>1, <2>2, <2>4, <2>6, <2>7, <2>8 DEF WebInv
<1>2. ASSUME NEW c \in Toggles, AnswerPermission(c) PROVE WebInv'
    <2>1. /\ pc[c] = "permission" /\ pc'[c] \in {"subscribe", "done"}
          /\ \A d \in Toggles \ {c} : pc'[d] = pc[d]
          /\ UNCHANGED <<failures, overlapped, subscription, webRows, webUser, toggle, switched>>
        BY <1>2 DEF AnswerPermission, Goto, MovesTo
    <2>2. /\ c \in Pressed /\ Pressed' \in {Pressed, Pressed \ {c}}
          /\ pc'[c] = "subscribe" <=> c \in Pressed'
          /\ \A d \in Toggles : pc'[d] \in {"idle"} \cup Ended \/ d \in Pressed'
        BY <2>1 DEF Pressed, WebInv, Ended
    <2>3. (Calm' <=> Calm) /\ (RowsFit' <=> RowsFit)
        BY <2>1 DEF Calm, Undisturbed, RowsFit
    <2>4. Calm => Pressed = {c} /\ RowsFit
        BY <2>1, <2>2 DEF WebInv
    <2> QED
        BY <2>1, <2>2, <2>3, <2>4 DEF WebInv
<1>3. ASSUME NEW c \in Toggles, Subscribe(c) PROVE WebInv'
    <2>1. /\ pc[c] = "subscribe" /\ pc'[c] = "register"
          /\ \A d \in Toggles \ {c} : pc'[d] = pc[d]
          /\ subscription # 0 => subscription' = subscription
          /\ toggle' = [toggle EXCEPT ![c].was = subscription']
          /\ UNCHANGED <<failures, overlapped, webRows, webUser, switched>>
        BY <1>3 DEF Subscribe, Goto, MovesTo
    <2>2. Pressed' = Pressed /\ c \in Pressed
        BY <2>1 DEF Pressed
    <2>3. /\ {"tab", "user", "was"} \subseteq DOMAIN toggle[c]
          /\ webUser # NoOne
        BY <2>2 DEF WebInv
    <2>4. /\ DOMAIN toggle' = Toggles /\ DOMAIN toggle'[c] = DOMAIN toggle[c]
          /\ toggle'[c].was = subscription' /\ toggle'[c].user = toggle[c].user
          /\ \A d \in Toggles \ {c} : toggle'[d] = toggle[d]
        BY <2>1, <2>3
    <2>5. Calm' <=> Calm
        BY <2>1 DEF Calm, Undisturbed
    <2>6. Calm => Pressed = {c} /\ RowsFit /\ toggle[c].user = webUser
        BY <2>1, <2>2 DEF WebInv
    <2>7. RowsFit => \A e \in Endpoints : e # subscription' => webRows[e] = NoOne
        BY <2>1, NoEndpointIsZero DEF RowsFit
    <2>8. /\ \A d \in Pressed' : {"tab", "user", "was"} \subseteq DOMAIN toggle'[d]
          /\ \A d \in Toggles : pc'[d] \in {"idle"} \cup Ended \/ d \in Pressed'
        BY <2>1, <2>2, <2>3, <2>4 DEF WebInv
    <2> QED
        BY <2>1, <2>2, <2>3, <2>4, <2>5, <2>6, <2>7, <2>8 DEF WebInv
<1>4. ASSUME NEW c \in Toggles, RegisterBrowser(c) PROVE WebInv'
    <2>1. /\ pc[c] = "register" /\ pc'[c] = "done"
          /\ \A d \in Toggles \ {c} : pc'[d] = pc[d]
          /\ webRows' = [webRows EXCEPT ![toggle[c].was] = toggle[c].user]
          /\ UNCHANGED <<failures, overlapped, subscription, webUser, toggle, switched>>
        BY <1>4 DEF RegisterBrowser, Goto, MovesTo
    <2>2. /\ c \in Pressed /\ Pressed' = Pressed \ {c} /\ DOMAIN webRows' = Endpoints
          /\ \A d \in Toggles : pc'[d] \in {"idle"} \cup Ended \/ d \in Pressed'
        BY <2>1 DEF Pressed, WebInv, Ended
    <2>3. Calm' <=> Calm
        BY <2>1 DEF Calm, Undisturbed
    <2>4. Calm => /\ Pressed = {c} /\ toggle[c].user = webUser /\ toggle[c].was = subscription
                  /\ \A e \in Endpoints : e # subscription => webRows[e] = NoOne
        BY <2>1, <2>2 DEF WebInv
    <2>5. Calm => RowsFit'
        BY <2>1, <2>4 DEF RowsFit
    <2> QED
        BY <2>1, <2>2, <2>3, <2>4, <2>5 DEF WebInv
<1>5. ASSUME NEW c \in Toggles, Unsubscribe(c) PROVE WebInv'
    <2> DEFINE e0 == EndpointToRemove(c)
    <2>1. /\ pc[c] = "find" /\ pc'[c] = "unregister"
          /\ \A d \in Toggles \ {c} : pc'[d] = pc[d]
          /\ subscription' = 0 /\ toggle' = [toggle EXCEPT ![c].was = e0]
          /\ UNCHANGED <<failures, overlapped, webRows, webUser, switched>>
        BY <1>5 DEF Unsubscribe, Goto, MovesTo
    <2>2. Pressed' = Pressed /\ c \in Pressed
        BY <2>1 DEF Pressed
    <2>3. {"tab", "user", "was"} \subseteq DOMAIN toggle[c]
        BY <2>2 DEF WebInv
    <2>4. /\ DOMAIN toggle' = Toggles /\ DOMAIN toggle'[c] = DOMAIN toggle[c]
          /\ toggle'[c].was = e0 /\ toggle'[c].user = toggle[c].user
          /\ \A d \in Toggles \ {c} : toggle'[d] = toggle[d]
        BY <2>1, <2>3
    <2>5. Calm' <=> Calm
        BY <2>1 DEF Calm, Undisturbed
    <2>6. Calm => Pressed = {c} /\ RowsFit /\ toggle[c].user = webUser
        BY <2>1, <2>2 DEF WebInv
    <2>7. RowsFit => \A e \in Endpoints :
                         webRows[e] = NoOne \/ (e = e0 /\ webRows[e] = webUser)
        BY NoEndpointIsZero DEF RowsFit, EndpointToRemove
    <2>8. /\ \A d \in Pressed' : {"tab", "user", "was"} \subseteq DOMAIN toggle'[d]
          /\ \A d \in Toggles : pc'[d] \in {"idle"} \cup Ended \/ d \in Pressed'
        BY <2>1, <2>2, <2>3, <2>4 DEF WebInv
    <2> QED
        BY <2>1, <2>2, <2>4, <2>5, <2>6, <2>7, <2>8 DEF WebInv
<1>6. ASSUME NEW c \in Toggles, UnregisterBrowser(c) PROVE WebInv'
    <2>1. /\ pc[c] = "unregister" /\ pc'[c] = "done"
          /\ \A d \in Toggles \ {c} : pc'[d] = pc[d]
          /\ webRows' = [f \in Endpoints |->
                 IF f = toggle[c].was /\ webRows[f] = toggle[c].user THEN NoOne ELSE webRows[f]]
          /\ UNCHANGED <<failures, overlapped, subscription, webUser, toggle, switched>>
        BY <1>6 DEF UnregisterBrowser, TurnedOff, Goto, MovesTo
    <2>2. /\ c \in Pressed /\ Pressed' = Pressed \ {c} /\ DOMAIN webRows' = Endpoints
          /\ \A d \in Toggles : pc'[d] \in {"idle"} \cup Ended \/ d \in Pressed'
        BY <2>1 DEF Pressed, WebInv, Ended
    <2>3. Calm' <=> Calm
        BY <2>1 DEF Calm, Undisturbed
    <2>4. Calm => /\ Pressed = {c} /\ toggle[c].user = webUser /\ subscription = 0
                  /\ \A e \in Endpoints :
                        webRows[e] = NoOne \/ (e = toggle[c].was /\ webRows[e] = webUser)
        BY <2>1, <2>2 DEF WebInv
    <2>5. Calm => RowsFit'
        BY <2>1, <2>4, NoEndpointIsZero DEF RowsFit
    <2> QED
        BY <2>1, <2>2, <2>3, <2>4, <2>5 DEF WebInv
<1>7. ASSUME NEW c \in Toggles, ToggleFails(c) PROVE WebInv'
    <2>1. /\ failures' = failures + 1 /\ pc'[c] = "dead"
          /\ \A d \in Toggles \ {c} : pc'[d] = pc[d]
          /\ UNCHANGED <<subscription, webRows, webUser, toggle, switched>>
        BY <1>7 DEF ToggleFails, CutShort, MovesTo, TurnedOff
    <2>2. ~Calm'
        BY <2>1 DEF Calm, Undisturbed
    <2>3. /\ Pressed' = Pressed \ {c}
          /\ \A d \in Toggles : pc'[d] \in {"idle"} \cup Ended \/ d \in Pressed'
        BY <2>1 DEF Pressed, WebInv, Ended
    <2> QED
        BY <2>1, <2>2, <2>3 DEF WebInv
<1>8. ASSUME NEW t \in Tabs, ReloadTab(t) PROVE WebInv'
    BY <1>8 DEF ReloadTab, requestVars, WebInv, Pressed, Calm, Undisturbed, RowsFit
<1>9. ASSUME SwitchUser PROVE WebInv'
    <2>1. webUser' # NoOne /\ ~Calm'
        BY <1>9 DEF SwitchUser, Calm
    <2> QED
        BY <1>9, <2>1 DEF SwitchUser, requestVars, WebInv, Pressed
<1>10. ASSUME NEW e \in Endpoints, DropBrowser(e) PROVE WebInv'
    <2>1. /\ e # subscription /\ webRows' = [webRows EXCEPT ![e] = NoOne]
          /\ UNCHANGED <<pc, failures, overlapped, subscription, webUser, toggle, switched>>
        BY <1>10 DEF DropBrowser, requestVars
    <2>2. /\ DOMAIN webRows' = Endpoints /\ webRows'[e] = NoOne
          /\ \A f \in Endpoints \ {e} : webRows'[f] = webRows[f]
        BY <2>1
    <2>3. Pressed' = Pressed /\ (Calm' <=> Calm) /\ (RowsFit => RowsFit')
        BY <2>1, <2>2 DEF Pressed, Calm, Undisturbed, RowsFit
    <2> QED
        BY <2>1, <2>2, <2>3 DEF WebInv
<1> QED
    BY <1>1, <1>2, <1>3, <1>4, <1>5, <1>6, <1>7, <1>8, <1>9, <1>10 DEF WebPushNext

LEMMA WebInductive == WebInv /\ [Next]_vars => WebInv'
<1> SUFFICES ASSUME WebInv, [Next]_vars PROVE WebInv'
    OBVIOUS
<1>1. CASE UNCHANGED vars
    BY <1>1
    DEF WebInv, Calm, Undisturbed, Pressed, RowsFit, vars, webPushVars, requestVars
<1>2. CASE Next
    <2>1. PICK i \in 1..11 : StepOf(i)
        BY <1>2, StepsOfParts
    <2>2. CASE i = 6
        BY <2>1, <2>2, PartsByNumber, WebStep DEF StepOf
    <2>3. CASE i # 6
        <3>1. \A c \in Toggles : pc[c] = "idle" /\ pc'[c] = "idle"
            <4>1. Toggles \subseteq Parts[6] \cap Calls
                BY PartsByNumber, WebPushAssumption
            <4> QED
                BY <2>1, <2>3, <4>1, OthersAreIdle
        <3>2. UNCHANGED webPushVars /\ Pressed = {} /\ Pressed' = {}
            BY <2>1, <2>3, <3>1 DEF StepOf, Pressed
        <3>3. FailuresGrow /\ OverlapStays
            BY <1>2, CountersStep
        <3>4. failures' \in Nat /\ (Calm' => Calm) /\ (RowsFit' <=> RowsFit)
            BY <3>2, <3>3
            DEF FailuresGrow, OverlapStays, WebInv, Calm, Undisturbed, RowsFit, webPushVars
        <3> QED
            BY <3>1, <3>2, <3>4 DEF WebInv, webPushVars
    <2> QED
        BY <2>2, <2>3
<1> QED
    BY <1>1, <1>2

(* AuthStore and PushClient of the app, PushToggle of the page, and        *)
(* PushService: once nothing is under way, the phone's row is of who is    *)
(* signed in, and the browser's of who uses it, for its one subscription,  *)
(* unless a call failed or overlapped, a token was rotated under a task or *)
(* under another user's listener, or another user took the browser.        *)
THEOREM PushAlwaysFollows == Spec => []PushFollowsUser
<1>1. ASSUME WebInv PROVE RowFollowsSubscription
    <2>1. Pressed \subseteq Busy
        BY WebPushAssumption DEF Pressed, Busy, Started, Ended
    <2> QED
        BY <1>1, <2>1 DEF WebInv, Calm, RowsFit, RowFollowsSubscription
<1>2. DeviceInv /\ WebInv => PushFollowsUser
    BY <1>1, DeviceFollows DEF PushFollowsUser
<1> QED
    BY <1>2, DeviceInit, DeviceInductive, WebInit, WebInductive, PTL DEF Spec

-------------------------------------------------------------------------------
(* The buttons of a page.                                                  *)

(* What all handlers have in common: a flag that disables is set, and one  *)
(* that is only reset on an error leaves the page.                         *)
HandlerFits(h) ==
    /\ h.sets \in BOOLEAN /\ h.disables \in {"row", "page", "none"}
    /\ h.disables # "none" => h.sets
    /\ h.frees \in {"always", "onError"} /\ h.after \in {"reload", "stay", "leave"}
    /\ h.frees = "onError" => h.after = "leave"

Usual(h) == HandlerFits(h) /\ ~h.checksInside /\ h.shows = "all"

LEMMA RowButtonsFit ==
    /\ Usual(RowButton) /\ Usual(Unflagged) /\ Usual(AdminButton)
    /\ Usual([RowButton EXCEPT !.disables = "page"])
    /\ Usual([RowButton EXCEPT !.after = "leave"])
    /\ Usual([RowButton EXCEPT !.after = "stay"])
    /\ Usual([Unflagged EXCEPT !.after = "leave"])
    /\ Usual([Unflagged EXCEPT !.after = "stay"])
    /\ Usual([AdminButton EXCEPT !.disables = "none"])
    /\ Usual([RowButton EXCEPT !.clears = TRUE,
                  !.replacedBy = {"server", "answer", "refusal", "read", "list"}])
BY DEF RowButton, Unflagged, AdminButton, Usual, HandlerFits

LEMMA FormButtonsFit ==
    /\ Usual(FormButton) /\ Usual(LeavingForm) /\ Usual(AppleButton) /\ Usual(GoogleButton)
    /\ Usual([FormButton EXCEPT !.after = "leave"])
    /\ Usual([LeavingForm EXCEPT !.replacedBy = {"server", "answer", "refusal"}])
BY DEF RowButton, FormButton, LeavingForm, AppleButton, GoogleButton, Usual, HandlerFits

LEMMA OddButtonsFit ==
    /\ \A h \in AppRefunds :
        HandlerFits(h) /\ ~h.checksInside /\ h.shows = "last" /\ h.after = "reload"
    /\ \A h \in TopUpWallet :
        HandlerFits(h) /\ h.shows = "all" /\ h.disables = "page"
BY DEF AppRefunds, TopUpWallet, RowButton, Unflagged, FormButton, LeavingForm, HandlerFits

LEMMA PagesFit ==
    ASSUME NEW P \in Pages, NEW h \in P
    PROVE  /\ HandlerFits(h)
           /\ h.checksInside => P = TopUpWallet /\ h.disables = "page"
           /\ h.shows # "all" => P = AppRefunds
           /\ P = AppRefunds => h.shows = "last" /\ h.after = "reload"
<1>1. P = AppRefunds \/ P = TopUpWallet \/ Usual(h)
    BY RowButtonsFit, FormButtonsFit
    DEF Pages, OrdersPage, TeamPage, PromoCodesPage, BusRoutesPage, RetryDelivery, EventsPage,
        AdminPage, KeysPage, SecurityPage, PayoutsPage, ResalePage, SharePage, ClaimTransfer,
        TransferTicket, ResellTicket, ForgotPassword, ResetPassword, MagicLink, PasswordForm,
        CodeForm, SignUpForm, GrantConsent, CreateOrganizer, CreateEvent, ClaimCollectible,
        CloseAccountButton, SocialSignIn, AppResale, AppTopUp, AppPassword, AppSignUp, AppKyc,
        AppTransfer, AppResell
<1> QED
    BY <1>1, OddButtonsFit DEF Usual

LEMMA UnderWayIs == UnderWay = {c \in Acts : pc[c] \notin {"idle"} \cup Ended}
    BY PagesAssumption DEF UnderWay, Busy, Started

(* What is known of the requests of the page.                              *)
ActsFit ==
    /\ page \in Pages \cup {{}} /\ flag \in ActRows \cup {NoRow}
    /\ serverList \in [ActRows -> Nat] /\ shownList \in [ActRows -> Nat]
    /\ DOMAIN act = Acts
    /\ \A c \in Acts : pc[c] \in {"idle", "server", "answer", "read", "list", "refusal"} \cup Ended
    /\ page = {} => flag = NoRow /\ \A c \in Acts : pc[c] = "idle"
    /\ \A c \in UnderWay :
        /\ {"row", "by", "saw"} \subseteq DOMAIN act[c]
        /\ act[c].by \in page /\ act[c].row \in ActRows /\ act[c].saw \in [ActRows -> Nat]
        /\ act[c].by.disables = "page" => act[c].row = FormRow
        /\ pc[c] \in {"read", "list"} => act[c].by.after = "reload"
    /\ \A c \in Acts : pc[c] = "done" => act[c].by \in page

LEMMA ActsInit == Init => ActsFit
<1> SUFFICES ASSUME Init PROVE ActsFit
    OBVIOUS
<1>1. \A c \in Acts : pc[c] = "idle"
    BY PagesAssumption DEF Init, RequestsInit
<1>2. UnderWay = {}
    BY <1>1, UnderWayIs
<1>3. /\ page = {} /\ flag = NoRow /\ DOMAIN act = Acts
      /\ serverList = [r \in ActRows |-> 0] /\ shownList = [r \in ActRows |-> 0]
    BY DEF Init, PagesInit
<1> QED
    BY <1>1, <1>2, <1>3 DEF ActsFit

(* A press that the page lets through.                                     *)
LEMMA UsableThen ==
    ASSUME ActsFit, NEW h, NEW r \in ActRows, Usable(h, r)
    PROVE  /\ page' \in Pages /\ h \in page' /\ page \in {{}, page'}
           /\ HandlerFits(h) /\ Enabled(h, r)
           /\ h.disables = "page" => r = FormRow
    BY PagesFit DEF Usable, IsForm

(* A request that goes on keeps its row and its handler, and the flag.     *)
GoesOn(c) ==
    /\ c \in UnderWay /\ UnderWay' = UnderWay
    /\ DOMAIN act' = Acts /\ \A d \in Acts \ {c} : act'[d] = act[d] /\ pc'[d] = pc[d]
    /\ {"row", "by", "saw"} \subseteq DOMAIN act'[c]
    /\ act'[c].row = act[c].row /\ act'[c].by = act[c].by /\ act'[c].saw \in [ActRows -> Nat]
    /\ UNCHANGED <<page, flag, freedEarly, stuck, failures, overlapped>>

(* One that ends resets the flag as its handler says.                      *)
IsOver(c) ==
    LET h == act[c].by
    IN  /\ c \in UnderWay /\ UnderWay' = UnderWay \ {c}
        /\ DOMAIN act' = Acts /\ act'[c].by = h
        /\ \A d \in Acts \ {c} : act'[d] = act[d] /\ pc'[d] = pc[d]
        /\ pc'[c] \in Ended
        /\ flag' = IF Frees(h, pc'[c] # "done") THEN NoRow ELSE flag
        /\ pc'[c] = "done" /\ h.frees = "onError" => pc[c] = "answer" /\ h.after = "leave"
        /\ TrackFreed
        /\ UNCHANGED <<page, stuck, overlapped, serverList>>

LEMMA RequestsGoOn ==
    ASSUME ActsFit, NEW c \in Acts,
           PerformAct(c) \/ RefuseAct(c) \/ AskForList(c) \/ ReadRows(c)
    PROVE  /\ GoesOn(c) /\ serverList' \in [ActRows -> Nat] /\ shownList' = shownList
           /\ \/ pc[c] = "server" /\ pc'[c] \in {"answer", "refusal"}
              \/ pc[c] = "answer" /\ pc'[c] = "read" /\ act[c].by.after = "reload"
              \/ pc[c] = "read" /\ pc'[c] = "list"
<1>1. c \in UnderWay /\ {"row", "by", "saw"} \subseteq DOMAIN act[c]
    BY UnderWayIs DEF ActsFit, PerformAct, RefuseAct, AskForList, ReadRows, Ended
<1>2. /\ serverList \in [ActRows -> Nat] /\ act[c].row \in ActRows /\ DOMAIN act = Acts
      /\ act[c].saw \in [ActRows -> Nat]
    BY <1>1 DEF ActsFit
<1>3. Acts \subseteq Calls
    BY PagesAssumption
<1>4. UnderWay' = {d \in Acts : pc'[d] \notin {"idle"} \cup Ended}
    BY <1>3 DEF UnderWay, Busy, Started
<1>5. CASE PerformAct(c)
    <2>1. /\ pc[c] = "server" /\ pc'[c] = "answer" /\ \A d \in Acts \ {c} : pc'[d] = pc[d]
          /\ serverList' = [serverList EXCEPT ![act[c].row] = @ + 1]
          /\ act' = [act EXCEPT ![c].saw = serverList']
          /\ UNCHANGED <<page, flag, shownList, freedEarly, stuck, failures, overlapped>>
        BY <1>3, <1>5 DEF PerformAct, Goto, MovesTo
    <2>2. serverList' \in [ActRows -> Nat]
        BY <1>2, <2>1
    <2>3. UnderWay' = UnderWay
        BY <1>4, <2>1, UnderWayIs DEF Ended
    <2> QED
        BY <1>1, <1>2, <2>1, <2>2, <2>3 DEF GoesOn
<1>6. CASE RefuseAct(c)
    <2>1. /\ pc[c] = "server" /\ pc'[c] = "refusal" /\ \A d \in Acts \ {c} : pc'[d] = pc[d]
          /\ UNCHANGED <<act, serverList, page, flag, shownList, freedEarly, stuck, failures,
                         overlapped>>
        BY <1>3, <1>6 DEF RefuseAct, Goto, MovesTo, pageVars
    <2>3. UnderWay' = UnderWay
        BY <1>4, <2>1, UnderWayIs DEF Ended
    <2> QED
        BY <1>1, <1>2, <2>1, <2>3 DEF GoesOn
<1>7. CASE AskForList(c)
    <2>1. /\ pc[c] = "answer" /\ pc'[c] = "read" /\ \A d \in Acts \ {c} : pc'[d] = pc[d]
          /\ act[c].by.after = "reload"
          /\ UNCHANGED <<act, serverList, page, flag, shownList, freedEarly, stuck, failures,
                         overlapped>>
        BY <1>3, <1>7 DEF AskForList, Goto, MovesTo
    <2>3. UnderWay' = UnderWay
        BY <1>4, <2>1, UnderWayIs DEF Ended
    <2> QED
        BY <1>1, <1>2, <2>1, <2>3 DEF GoesOn
<1>8. CASE ReadRows(c)
    <2>1. /\ pc[c] = "read" /\ pc'[c] = "list" /\ \A d \in Acts \ {c} : pc'[d] = pc[d]
          /\ act' = [act EXCEPT ![c].saw = serverList]
          /\ UNCHANGED <<serverList, page, flag, shownList, freedEarly, stuck, failures,
                         overlapped>>
        BY <1>3, <1>8 DEF ReadRows, Goto, MovesTo
    <2>3. UnderWay' = UnderWay
        BY <1>4, <2>1, UnderWayIs DEF Ended
    <2> QED
        BY <1>1, <1>2, <2>1, <2>3 DEF GoesOn
<1> QED
    BY <1>5, <1>6, <1>7, <1>8

LEMMA RequestsEnd ==
    ASSUME ActsFit, NEW c \in Acts, ShowRows(c) \/ Succeed(c) \/ FailAct(c)
    PROVE  /\ IsOver(c) /\ shownList' \in [ActRows -> Nat]
           /\ pc'[c] = "done" => pc[c] \in {"list", "answer"} /\ failures' = failures
           /\ pc'[c] = "refused" => pc[c] = "refusal" /\ failures' = failures
           /\ pc'[c] = "dead" => failures' = failures + 1
<1>1. c \in UnderWay /\ {"row", "by", "saw"} \subseteq DOMAIN act[c]
    BY UnderWayIs DEF ActsFit, ShowRows, Succeed, FailAct, Ended
<1>2. /\ act[c].row \in ActRows /\ DOMAIN act = Acts
      /\ act[c].saw \in [ActRows -> Nat] /\ shownList \in [ActRows -> Nat]
      /\ page \in Pages \/ page = {}
      /\ act[c].by \in page /\ (pc[c] = "list" => act[c].by.after = "reload")
    BY <1>1 DEF ActsFit
<1>3. HandlerFits(act[c].by)
    BY <1>2, PagesFit
<1>4. Acts \subseteq Calls
    BY PagesAssumption
<1>5. UnderWay' = {d \in Acts : pc'[d] \notin {"idle"} \cup Ended}
    BY <1>4 DEF UnderWay, Busy, Started
<1>6. /\ Forget(c) /\ \A d \in Acts \ {c} : pc'[d] = pc[d]
      /\ UNCHANGED <<page, stuck, overlapped, serverList>>
      /\ TrackFreed
    BY <1>4 DEF ShowRows, Succeed, FailAct, Goto, CutShort, MovesTo
<1>7. /\ DOMAIN act' = Acts /\ act'[c].by = act[c].by
      /\ \A d \in Acts \ {c} : act'[d] = act[d]
    BY <1>1, <1>2, <1>6 DEF Forget
<1>8. CASE ShowRows(c) \/ Succeed(c)
    <2>1. pc'[c] = "done" /\ pc[c] \in {"list", "answer"} /\ failures' = failures
        BY <1>4, <1>8 DEF ShowRows, Succeed, Goto, MovesTo
    <2>2. flag' = IF Frees(act[c].by, FALSE) THEN NoRow ELSE flag
        BY <1>8 DEF ShowRows, Succeed, ResetFlag
    <2>3. act[c].by.frees = "onError" => pc[c] = "answer" /\ act[c].by.after = "leave"
        BY <1>2, <1>3, <2>1 DEF HandlerFits
    <2>4. shownList' \in [ActRows -> Nat]
        BY <1>2, <1>8 DEF ShowRows, Succeed
    <2>5. UnderWay' = UnderWay \ {c}
        BY <1>5, <1>6, <2>1, UnderWayIs DEF Ended
    <2> QED
        BY <1>1, <1>6, <1>7, <2>1, <2>2, <2>3, <2>4, <2>5 DEF IsOver, Ended
<1>9. CASE FailAct(c)
    <2>1. \/ pc[c] = "refusal" /\ pc'[c] = "refused" /\ failures' = failures
          \/ pc'[c] = "dead" /\ failures' = failures + 1
        BY <1>4, <1>9 DEF FailAct, Goto, CutShort, MovesTo
    <2>2. /\ flag' = IF Frees(act[c].by, TRUE) THEN NoRow ELSE flag
          /\ shownList' = shownList
        BY <1>9 DEF FailAct, ResetFlag
    <2>5. UnderWay' = UnderWay \ {c}
        BY <1>5, <1>6, <2>1, UnderWayIs DEF Ended
    <2> QED
        BY <1>1, <1>2, <1>6, <1>7, <2>1, <2>2, <2>5 DEF IsOver, Ended
<1> QED
    BY <1>8, <1>9

(* A press becomes a request, or is refused by the page itself.            *)
BecomesRequest(h, r, c) ==
    /\ c \in Acts /\ pc[c] = "idle" /\ pc'[c] = "server"
    /\ c \notin UnderWay /\ UnderWay' = UnderWay \cup {c}
    /\ DOMAIN act' = Acts /\ act'[c] = [row |-> r, by |-> h, saw |-> shownList]
    /\ \A d \in Acts \ {c} : act'[d] = act[d] /\ pc'[d] = pc[d]
    /\ flag' = IF h.sets THEN r ELSE flag
    /\ TrackFreed
    /\ overlapped' = (overlapped \/ Busy # {})
    /\ UNCHANGED <<serverList, shownList, latest, stuck, failures>>

IsTurnedDown(c) ==
    /\ c \in Acts /\ pc[c] = "idle" /\ pc'[c] = "refused" /\ UnderWay' = UnderWay
    /\ \A d \in Acts \ {c} : pc'[d] = pc[d]
    /\ page' = TopUpWallet /\ flag = NoRow /\ flag' = FormRow /\ stuck' = TRUE
    /\ overlapped' = (overlapped \/ Busy # {})
    /\ UNCHANGED <<act, serverList, shownList, latest, freedEarly, failures>>

LEMMA PressesBegin ==
    ASSUME ActsFit, NEW h, NEW r \in ActRows
    PROVE  /\ Press(h, r) => \E c \in Acts : BecomesRequest(h, r, c)
           /\ PressInvalid(h, r) => \E c \in Acts : IsTurnedDown(c)
<1>1. Acts \subseteq Calls /\ DOMAIN act = Acts
    BY PagesAssumption DEF ActsFit
<1>2. UnderWay' = {d \in Acts : pc'[d] \notin {"idle"} \cup Ended}
    BY <1>1 DEF UnderWay, Busy, Started
<1>3. (\E c \in Acts : pc[c] = "idle") => Fresh \in Acts /\ pc[Fresh] = "idle"
    BY DEF Fresh
<1>4. ASSUME Press(h, r) PROVE BecomesRequest(h, r, Fresh) /\ Fresh \in Acts
    <2> DEFINE c == Fresh
    <2>1. c \in Acts /\ pc[c] = "idle"
        BY <1>3, <1>4 DEF Press
    <2> HIDE DEF c
    <2>2. /\ pc'[c] = "server" /\ \A d \in Acts \ {c} : pc'[d] = pc[d]
          /\ overlapped' = (overlapped \/ Busy # {}) /\ failures' = failures
          /\ act' = [act EXCEPT ![c] = [row |-> r, by |-> h, saw |-> shownList]]
          /\ flag' = IF h.sets THEN r ELSE flag
          /\ TrackFreed
          /\ UNCHANGED <<serverList, shownList, latest, stuck>>
        BY <1>1, <1>4, <2>1 DEF Press, Begin, MovesTo, c
    <2>3. UnderWay' = UnderWay \cup {c} /\ c \notin UnderWay
        BY <1>2, <2>1, <2>2, UnderWayIs DEF Ended
    <2>4. BecomesRequest(h, r, c)
        BY <1>1, <2>1, <2>2, <2>3 DEF BecomesRequest
    <2> QED
        BY <2>1, <2>4 DEF c
<1>5. ASSUME PressInvalid(h, r) PROVE IsTurnedDown(Fresh) /\ Fresh \in Acts
    <2> DEFINE c == Fresh
    <2>1. c \in Acts /\ pc[c] = "idle"
        BY <1>3, <1>5 DEF PressInvalid
    <2> HIDE DEF c
    <2>2. /\ pc'[c] = "refused" /\ \A d \in Acts \ {c} : pc'[d] = pc[d]
          /\ overlapped' = (overlapped \/ Busy # {}) /\ failures' = failures
          /\ flag' = r /\ stuck' = TRUE
          /\ UNCHANGED <<act, serverList, shownList, latest, freedEarly>>
        BY <1>1, <1>5, <2>1 DEF PressInvalid, Begin, MovesTo, c
    <2>3. UnderWay' = UnderWay
        BY <1>2, <2>1, <2>2, UnderWayIs DEF Ended
    <2>4. Usable(h, r) /\ h.checksInside
        BY <1>5 DEF PressInvalid
    <2>5. page' \in Pages /\ h \in page' /\ Enabled(h, r)
        BY <2>4, UsableThen
    <2>6. page' = TopUpWallet /\ h.disables = "page"
        BY <2>4, <2>5, PagesFit
    <2>7. r = FormRow /\ flag = NoRow
        BY <2>4, <2>5, <2>6, UsableThen DEF Enabled
    <2> QED
        BY <2>1, <2>2, <2>3, <2>6, <2>7 DEF IsTurnedDown, c
<1> QED
    BY <1>4, <1>5

LEMMA ActsStep ==
    ASSUME ActsFit, PagesNext
    PROVE  ActsFit'
<1>1. ASSUME NEW h \in Handlers, NEW r \in ActRows, Press(h, r) PROVE ActsFit'
    <2>1. PICK c \in Acts : BecomesRequest(h, r, c)
        BY <1>1, PressesBegin
    <2>2. /\ page' \in Pages /\ h \in page' /\ page \in {{}, page'}
          /\ HandlerFits(h) /\ (h.disables = "page" => r = FormRow)
        BY <1>1, UsableThen DEF Press
    <2>3. page' # {} /\ (page # {} => page' = page)
        BY <2>2
    <2>4. /\ flag' \in ActRows \cup {NoRow}
          /\ serverList' \in [ActRows -> Nat] /\ shownList' \in [ActRows -> Nat]
          /\ DOMAIN act' = Acts
          /\ \A d \in Acts : pc'[d] \in {"idle", "server", "answer", "read", "list", "refusal"} \cup Ended
        BY <2>1 DEF BecomesRequest, ActsFit
    <2>5. /\ {"row", "by", "saw"} \subseteq DOMAIN act'[c]
          /\ act'[c].by \in page' /\ act'[c].row \in ActRows /\ act'[c].saw \in [ActRows -> Nat]
          /\ act'[c].by.disables = "page" => act'[c].row = FormRow
          /\ pc'[c] = "server"
        BY <2>1, <2>2 DEF BecomesRequest, ActsFit
    <2>6. \A d \in UnderWay : d # c /\ act'[d] = act[d] /\ pc'[d] = pc[d] /\ page' = page
        BY <2>1, <2>3, UnderWayIs DEF BecomesRequest, ActsFit
    <2>7. \A d \in Acts : pc'[d] = "done" => act'[d].by \in page'
        BY <2>1, <2>3 DEF BecomesRequest, ActsFit
    <2>8. UnderWay' = UnderWay \cup {c}
        BY <2>1 DEF BecomesRequest
    <2>9. ASSUME NEW d \in UnderWay'
          PROVE  /\ {"row", "by", "saw"} \subseteq DOMAIN act'[d]
                 /\ act'[d].by \in page' /\ act'[d].row \in ActRows
                 /\ act'[d].saw \in [ActRows -> Nat]
                 /\ act'[d].by.disables = "page" => act'[d].row = FormRow
                 /\ pc'[d] \in {"read", "list"} => act'[d].by.after = "reload"
        BY <2>5, <2>6, <2>8 DEF ActsFit
    <2> QED
        BY <2>2, <2>3, <2>4, <2>7, <2>9 DEF ActsFit
<1>2. ASSUME NEW h \in Handlers, NEW r \in ActRows, PressInvalid(h, r) PROVE ActsFit'
    <2>1. PICK c \in Acts : IsTurnedDown(c)
        BY <1>2, PressesBegin
    <2>2. page' \in Pages /\ h \in page' /\ page \in {{}, page'}
        BY <1>2, UsableThen DEF PressInvalid
    <2>3. page' # {} /\ (page # {} => page' = page)
        BY <2>2
    <2>4. \A d \in UnderWay : d # c /\ pc'[d] = pc[d] /\ page' = page
        BY <2>1, <2>3, UnderWayIs DEF IsTurnedDown, ActsFit
    <2>5. \A d \in Acts : pc'[d] = "done" => act'[d].by \in page'
        BY <2>1, <2>3 DEF IsTurnedDown, ActsFit
    <2> QED
        BY <2>1, <2>2, <2>3, <2>4, <2>5, PagesAssumption DEF ActsFit, IsTurnedDown, Ended
<1>3. ASSUME NEW c \in Acts, PerformAct(c) \/ RefuseAct(c) \/ AskForList(c) \/ ReadRows(c)
      PROVE  ActsFit'
    <2>1. /\ GoesOn(c) /\ serverList' \in [ActRows -> Nat] /\ shownList' = shownList
          /\ pc'[c] \in {"answer", "refusal"} \/ (pc'[c] = "read" /\ act[c].by.after = "reload")
                \/ (pc[c] = "read" /\ pc'[c] = "list")
        BY <1>3, RequestsGoOn
    <2>2. page # {} /\ pc'[c] \in {"read", "list"} => act[c].by.after = "reload"
        BY <2>1 DEF ActsFit, GoesOn
    <2>3. ASSUME NEW d \in UnderWay'
          PROVE  /\ {"row", "by", "saw"} \subseteq DOMAIN act'[d]
                 /\ act'[d].by \in page' /\ act'[d].row \in ActRows
                 /\ act'[d].saw \in [ActRows -> Nat]
                 /\ act'[d].by.disables = "page" => act'[d].row = FormRow
                 /\ pc'[d] \in {"read", "list"} => act'[d].by.after = "reload"
        <3>1. CASE d = c
            BY <2>1, <2>2, <3>1 DEF ActsFit, GoesOn
        <3>2. CASE d # c
            BY <2>1, <3>2, UnderWayIs DEF ActsFit, GoesOn
        <3> QED
            BY <3>1, <3>2
    <2>4. \A d \in Acts : pc'[d] = "done" => act'[d].by \in page'
        BY <2>1 DEF ActsFit, GoesOn
    <2>5. c \in UnderWay /\ page # {}
        BY <2>1 DEF ActsFit, GoesOn
    <2> QED
        BY <2>1, <2>3, <2>4, <2>5 DEF ActsFit, GoesOn
<1>4. ASSUME NEW c \in Acts, ShowRows(c) \/ Succeed(c) \/ FailAct(c) PROVE ActsFit'
    <2>1. IsOver(c) /\ shownList' \in [ActRows -> Nat]
        BY <1>4, RequestsEnd
    <2>2. act[c].by \in page /\ page # {}
        BY <2>1 DEF ActsFit, IsOver
    <2>3. \A d \in UnderWay' : d \in UnderWay /\ act'[d] = act[d] /\ pc'[d] = pc[d]
        BY <2>1, UnderWayIs DEF IsOver
    <2>4. flag' \in ActRows \cup {NoRow}
        BY <2>1 DEF ActsFit, IsOver
    <2>5. \A d \in Acts : pc'[d] = "done" => act'[d].by \in page'
        BY <2>1, <2>2 DEF ActsFit, IsOver
    <2> QED
        BY <2>1, <2>2, <2>3, <2>4, <2>5 DEF ActsFit, IsOver
<1> QED
    BY <1>1, <1>2, <1>3, <1>4 DEF PagesNext

(* Whose flag is set, and which requests share a row.                      *)
AllLock == \A h \in page : h.disables = "page"
AllLeave == AllLock /\ \A h \in page : h.frees = "onError"

FlagHeld == \A c \in UnderWay : flag = act[c].row \/ act[c].row \in freedEarly

RowsShared ==
    \A c, d \in UnderWay :
        c # d /\ (\/ act[c].by.disables = "page" /\ act[d].by.disables = "page"
                  \/ /\ act[c].by.disables = "row" /\ act[d].by.disables = "row"
                     /\ act[c].row = act[d].row)
            => {act[c].row, act[d].row} \cap freedEarly # {}

FlagHasReason ==
    flag # NoRow =>
        \/ \E c \in UnderWay : act[c].by.sets
        \/ stuck /\ page = TopUpWallet
        \/ \E c \in Acts : pc[c] = "done" /\ act[c].by.after = "leave"

DoneOnce ==
    AllLeave =>
        /\ \A c, d \in Acts : pc[c] = "done" /\ pc[d] = "done" => c = d
        /\ (\E c \in Acts : pc[c] = "done") => flag # NoRow /\ UnderWay = {}

FlagInv == FlagHeld /\ RowsShared /\ (AllLock => freedEarly = {}) /\ FlagHasReason /\ DoneOnce

LEMMA FlagInit == Init => FlagInv
<1> SUFFICES ASSUME Init PROVE FlagInv
    OBVIOUS
<1>1. \A c \in Acts : pc[c] = "idle"
    BY PagesAssumption DEF Init, RequestsInit
<1>2. UnderWay = {} /\ flag = NoRow /\ freedEarly = {}
    BY <1>1, UnderWayIs DEF Init, PagesInit
<1> QED
    BY <1>1, <1>2 DEF FlagInv, FlagHeld, RowsShared, FlagHasReason, DoneOnce

(* Where every button locks the page there is one request at most.         *)
LEMMA LocksAreHeld ==
    ASSUME ActsFit, FlagInv, AllLock
    PROVE  /\ freedEarly = {} /\ (UnderWay # {} => flag = FormRow)
           /\ \A c, d \in UnderWay : c = d
<1>1. \A c \in UnderWay : act[c].by.disables = "page" /\ act[c].row = FormRow
    BY DEF ActsFit, AllLock
<1> QED
    BY <1>1 DEF FlagInv, FlagHeld, RowsShared

LEMMA FlagStep ==
    ASSUME ActsFit, FlagInv, PagesNext
    PROVE  FlagInv'
<1>0. FormRow \in ActRows /\ NoRow \notin ActRows /\ TopUpWallet # {}
    BY PagesAssumption DEF TopUpWallet
<1>1. ASSUME NEW h \in Handlers, NEW r \in ActRows, Press(h, r) PROVE FlagInv'
    <2>1. PICK c \in Acts : BecomesRequest(h, r, c)
        BY <1>1, PressesBegin
    <2>2. /\ page' \in Pages /\ h \in page' /\ page \in {{}, page'}
          /\ HandlerFits(h) /\ (h.disables = "page" => r = FormRow) /\ Enabled(h, r)
        BY <1>1, UsableThen DEF Press
    <2>3. /\ UnderWay' = UnderWay \cup {c} /\ c \notin UnderWay
          /\ act'[c].row = r /\ act'[c].by = h
          /\ \A d \in UnderWay : d \in Acts /\ act'[d] = act[d]
          /\ flag' = IF h.sets THEN r ELSE flag
        BY <2>1, UnderWayIs DEF BecomesRequest
    <2>4. freedEarly' = {q \in ActRows : /\ q \in freedEarly \/ flag' # q
                                         /\ \E d \in UnderWay' : act'[d].row = q}
        BY <2>1 DEF BecomesRequest, TrackFreed
    <2>5. \A d \in UnderWay : act[d].row \in ActRows
        BY DEF ActsFit
    <2>6. FlagHeld'
        BY <2>3, <2>4, <2>5 DEF FlagHeld
    <2>7. \A q \in freedEarly : (\E d \in UnderWay' : act'[d].row = q) /\ q \in ActRows
                                    => q \in freedEarly'
        BY <2>4
    <2>8. ASSUME NEW d \in UnderWay,
                 \/ h.disables = "page" /\ act[d].by.disables = "page"
                 \/ h.disables = "row" /\ act[d].by.disables = "row" /\ act[d].row = r
          PROVE  act'[d].row \in freedEarly'
        <3>1. act[d].row = r /\ flag # r
            BY <2>2, <2>8, <1>0 DEF Enabled, ActsFit
        <3>2. r \in freedEarly
            BY <3>1 DEF FlagInv, FlagHeld
        <3> QED
            BY <2>3, <2>7, <3>1, <3>2
    <2>9. ASSUME NEW d \in UnderWay, NEW e \in UnderWay, d # e,
                 \/ act[d].by.disables = "page" /\ act[e].by.disables = "page"
                 \/ /\ act[d].by.disables = "row" /\ act[e].by.disables = "row"
                    /\ act[d].row = act[e].row
          PROVE  {act'[d].row, act'[e].row} \cap freedEarly' # {}
        <3>1. PICK q \in {act[d].row, act[e].row} : q \in freedEarly
            BY <2>9 DEF FlagInv, RowsShared
        <3>2. q \in freedEarly'
            BY <2>3, <2>5, <2>7, <3>1
        <3> QED
            BY <2>3, <3>1, <3>2
    <2>10. RowsShared'
        BY <2>3, <2>8, <2>9 DEF RowsShared
    <2>11. ASSUME AllLock'
           PROVE  UnderWay = {} /\ freedEarly' = {} /\ flag = NoRow /\ AllLock
        <3>1. h.disables = "page" /\ AllLock
            BY <2>2, <2>11 DEF AllLock
        <3>2. flag = NoRow /\ h.sets /\ UnderWay = {}
            BY <1>0, <2>2, <3>1, LocksAreHeld DEF Enabled, HandlerFits
        <3>3. freedEarly = {} /\ flag' = r
            BY <2>3, <3>1, <3>2, LocksAreHeld
        <3> QED
            BY <2>3, <2>4, <3>1, <3>2, <3>3
    <2>12. FlagHasReason'
        <3>1. \A d \in Acts : pc[d] = "done" => pc'[d] = "done" /\ act'[d] = act[d]
            BY <2>1 DEF BecomesRequest
        <3>2. (stuck' <=> stuck) /\ (page = TopUpWallet => page' = TopUpWallet)
            BY <1>0, <2>1, <2>2 DEF BecomesRequest
        <3>3. h.sets \in BOOLEAN
            BY <2>2 DEF HandlerFits
        <3>4. CASE h.sets
            BY <2>3, <3>4 DEF FlagHasReason
        <3>5. CASE ~h.sets
            BY <2>3, <3>1, <3>2, <3>5 DEF FlagInv, FlagHasReason
        <3> QED
            BY <3>3, <3>4, <3>5
    <2>13. DoneOnce'
        <3>1. AllLeave' => AllLeave /\ flag = NoRow
            BY <2>2, <2>11 DEF AllLeave
        <3>2. AllLeave' => \A d \in Acts : pc[d] # "done"
            BY <3>1 DEF FlagInv, DoneOnce
        <3>3. AllLeave' => \A d \in Acts : pc'[d] # "done"
            BY <2>1, <3>2 DEF BecomesRequest
        <3> QED
            BY <3>3 DEF DoneOnce
    <2> QED
        BY <2>6, <2>10, <2>11, <2>12, <2>13 DEF FlagInv
<1>2. ASSUME NEW h \in Handlers, NEW r \in ActRows, PressInvalid(h, r) PROVE FlagInv'
    <2>1. PICK c \in Acts : IsTurnedDown(c)
        BY <1>2, PressesBegin
    <2>2. page \in {{}, page'}
        BY <1>2, UsableThen DEF PressInvalid
    <2>3. \A d \in UnderWay : act[d].row # NoRow
        BY <1>0 DEF ActsFit
    <2>4. FlagHeld' /\ RowsShared'
        BY <2>1, <2>3 DEF FlagInv, FlagHeld, RowsShared, IsTurnedDown
    <2>5. AllLock' => AllLock
        BY <2>2 DEF AllLock
    <2>6. FlagHasReason'
        BY <2>1 DEF FlagHasReason, IsTurnedDown
    <2>7. AllLeave' => AllLeave
        BY <2>2, <2>5 DEF AllLeave
    <2>8. AllLeave => \A d \in Acts : pc[d] # "done"
        BY <2>1 DEF FlagInv, DoneOnce, IsTurnedDown
    <2>9. DoneOnce'
        BY <2>1, <2>7, <2>8 DEF DoneOnce, IsTurnedDown
    <2>10. freedEarly' = freedEarly
        BY <2>1 DEF IsTurnedDown
    <2> QED
        BY <2>4, <2>5, <2>6, <2>9, <2>10 DEF FlagInv
<1>3. ASSUME NEW c \in Acts, PerformAct(c) \/ RefuseAct(c) \/ AskForList(c) \/ ReadRows(c)
      PROVE  FlagInv'
    <2>1. /\ GoesOn(c) /\ pc[c] # "done" /\ pc'[c] # "done"
        BY <1>3, RequestsGoOn
    <2>2. \A d \in UnderWay : act'[d].row = act[d].row /\ act'[d].by = act[d].by
        BY <2>1, UnderWayIs DEF GoesOn
    <2>3. \A d \in Acts : /\ pc'[d] = "done" <=> pc[d] = "done"
                          /\ pc[d] = "done" => act'[d] = act[d]
        BY <2>1 DEF GoesOn
    <2>4. (AllLock' <=> AllLock) /\ (AllLeave' <=> AllLeave)
        BY <2>1 DEF GoesOn, AllLock, AllLeave
    <2>5. FlagHeld' /\ RowsShared'
        BY <2>1, <2>2 DEF FlagInv, FlagHeld, RowsShared, GoesOn
    <2>6. FlagHasReason' /\ DoneOnce'
        BY <2>1, <2>2, <2>3, <2>4 DEF FlagInv, FlagHasReason, DoneOnce, GoesOn
    <2> QED
        BY <2>1, <2>4, <2>5, <2>6 DEF FlagInv, GoesOn
<1>4. ASSUME NEW c \in Acts, ShowRows(c) \/ Succeed(c) \/ FailAct(c) PROVE FlagInv'
    <2> DEFINE h == act[c].by
    <2>1. IsOver(c)
        BY <1>4, RequestsEnd
    <2>2. /\ (h \in page /\ page \in Pages) \/ page = {}
          /\ HandlerFits(h)
        BY <2>1, PagesFit DEF ActsFit, IsOver
    <2>3. /\ UnderWay' = UnderWay \ {c} /\ c \in UnderWay
          /\ \A d \in UnderWay' : d \in Acts /\ act'[d] = act[d]
          /\ flag' = IF Frees(h, pc'[c] # "done") THEN NoRow ELSE flag
        BY <2>1, UnderWayIs DEF IsOver
    <2>4. freedEarly' = {q \in ActRows : /\ q \in freedEarly \/ flag' # q
                                         /\ \E d \in UnderWay' : act'[d].row = q}
        BY <2>1 DEF IsOver, TrackFreed
    <2>5. \A d \in UnderWay : act[d].row \in ActRows
        BY DEF ActsFit
    <2>6. FlagHeld'
        BY <2>3, <2>4, <2>5 DEF FlagHeld
    <2>7. \A d \in UnderWay' : act[d].row \in freedEarly => act'[d].row \in freedEarly'
        BY <2>3, <2>4, <2>5
    <2>8. RowsShared'
        BY <2>3, <2>7 DEF FlagInv, RowsShared
    <2>9. AllLock' <=> AllLock
        BY <2>1 DEF IsOver, AllLock
    <2>10. AllLock => UnderWay' = {} /\ freedEarly' = {} /\ flag = FormRow
        <3>1. AllLock => UnderWay' = {} /\ flag = FormRow
            BY <2>3, LocksAreHeld
        <3> QED
            BY <2>4, <3>1
    <2>11. /\ act'[c].by = h
           /\ \A d \in Acts \ {c} : act'[d] = act[d] /\ pc'[d] = pc[d]
           /\ page' = page /\ stuck' = stuck
           /\ pc'[c] = "done" /\ h.frees = "onError" => h.after = "leave"
           /\ pc[c] # "done"
        BY <2>1, UnderWayIs DEF IsOver, Ended
    <2>12. FlagHasReason'
        <3>1. SUFFICES ASSUME flag' # NoRow PROVE FlagHasReason'
            BY DEF FlagHasReason
        <3>2. flag' = flag /\ flag # NoRow /\ (h.sets => pc'[c] = "done" /\ h.frees = "onError")
            BY <2>2, <2>3, <3>1 DEF Frees, HandlerFits
        <3>3. h.sets => FlagHasReason'
            BY <2>11, <3>2 DEF FlagHasReason
        <3>4. ASSUME ~h.sets PROVE FlagHasReason'
            <4>1. \A d \in UnderWay : act[d].by.sets => d \in UnderWay' /\ act'[d] = act[d]
                BY <2>3, <3>4
            <4>2. \A d \in Acts : pc[d] = "done" => pc'[d] = "done" /\ act'[d] = act[d]
                BY <2>11
            <4> QED
                BY <2>11, <3>2, <4>1, <4>2 DEF FlagInv, FlagHasReason
        <3>5. h.sets \in BOOLEAN
            BY <2>2 DEF HandlerFits
        <3> QED
            BY <3>3, <3>4, <3>5
    <2>13. DoneOnce'
        <3>1. SUFFICES ASSUME AllLeave' PROVE DoneOnce'
            BY DEF DoneOnce
        <3>2. AllLeave /\ AllLock /\ h.frees = "onError"
            BY <2>3, <2>9, <2>11, <3>1 DEF AllLeave, ActsFit
        <3>3. \A d \in Acts : pc[d] # "done"
            BY <2>3, <3>2 DEF FlagInv, DoneOnce
        <3>4. pc'[c] = "done" => flag' = flag
            BY <2>3, <3>2 DEF Frees
        <3> QED
            BY <1>0, <2>10, <2>11, <3>2, <3>3, <3>4 DEF DoneOnce
    <2> QED
        BY <2>6, <2>8, <2>9, <2>10, <2>12, <2>13 DEF FlagInv
<1> QED
    BY <1>1, <1>2, <1>3, <1>4 DEF PagesNext

(* What the page shows while its requests are served.                      *)
InTurn == failures = 0 /\ ~overlapped /\ \A h \in page : h.after # "leave"

TurnsShow ==
    /\ \A c, d \in UnderWay : c = d
    /\ UnderWay = {} => shownList = serverList
    /\ \A c \in UnderWay :
        /\ pc[c] \in {"server", "refusal"} => shownList = serverList
        /\ pc[c] \in {"answer", "list"} => act[c].saw = serverList
        /\ pc[c] = "answer" => \A q \in ActRows \ {act[c].row} : shownList[q] = serverList[q]
        /\ pc[c] \in {"read", "list"} => latest = c

(* A screen that shows its last reload only: either the list will be asked *)
(* for again, or the last reload brings it, or it is shown.                *)
LastShows ==
    \/ \E c \in Acts : pc[c] = "answer"
    \/ latest \in Acts /\ pc[latest] = "read"
    \/ latest \in Acts /\ pc[latest] = "list" /\ act[latest].saw = serverList
    \/ ~(latest \in Acts /\ pc[latest] \in {"read", "list"}) /\ shownList = serverList

FreshInv ==
    /\ failures \in Nat
    /\ InTurn => TurnsShow
    /\ failures = 0 /\ page \in {{}, AppRefunds} => LastShows

LEMMA FreshInit == Init => FreshInv
<1> SUFFICES ASSUME Init PROVE FreshInv
    OBVIOUS
<1>1. \A c \in Acts : pc[c] = "idle"
    BY PagesAssumption DEF Init, RequestsInit
<1>2. UnderWay = {} /\ shownList = serverList /\ failures = 0
    BY <1>1, UnderWayIs DEF Init, PagesInit, RequestsInit
<1> QED
    BY <1>1, <1>2 DEF FreshInv, TurnsShow, LastShows

LEMMA FreshStep ==
    ASSUME ActsFit, FreshInv, PagesNext, Only(Acts)
    PROVE  FreshInv'
<1>0. /\ failures \in Nat /\ failures' \in Nat /\ (failures' = 0 => failures = 0)
      /\ UnderWay = Busy
    BY FailuresOfPages DEF FreshInv, FailuresGrow, UnderWay, Busy, Only
<1>1. ASSUME NEW h \in Handlers, NEW r \in ActRows, Press(h, r) PROVE FreshInv'
    <2>1. PICK c \in Acts : BecomesRequest(h, r, c)
        BY <1>1, PressesBegin
    <2>2. page \in {{}, page'}
        BY <1>1, UsableThen DEF Press
    <2>3. ASSUME InTurn' PROVE TurnsShow'
        <3>1. InTurn /\ UnderWay = {}
            BY <1>0, <2>1, <2>2, <2>3 DEF InTurn, BecomesRequest
        <3>2. UnderWay' = {c} /\ shownList' = serverList' /\ pc'[c] = "server"
            BY <2>1, <3>1 DEF FreshInv, TurnsShow, BecomesRequest
        <3> QED
            BY <3>2 DEF TurnsShow
    <2>4. ASSUME LastShows PROVE LastShows'
        BY <2>1, <2>4 DEF LastShows, BecomesRequest
    <2> QED
        BY <1>0, <2>2, <2>3, <2>4 DEF FreshInv
<1>2. ASSUME NEW h \in Handlers, NEW r \in ActRows, PressInvalid(h, r) PROVE FreshInv'
    <2>1. PICK c \in Acts : IsTurnedDown(c)
        BY <1>2, PressesBegin
    <2>2. page \in {{}, page'}
        BY <1>2, UsableThen DEF PressInvalid
    <2>3. InTurn' => InTurn
        BY <1>0, <2>1, <2>2 DEF InTurn, IsTurnedDown
    <2>4. \A d \in UnderWay : pc'[d] = pc[d]
        BY <2>1, UnderWayIs DEF IsTurnedDown
    <2>5. TurnsShow => TurnsShow'
        BY <2>1, <2>4 DEF TurnsShow, IsTurnedDown
    <2>6. LastShows => LastShows'
        BY <2>1 DEF LastShows, IsTurnedDown
    <2> QED
        BY <1>0, <2>2, <2>3, <2>5, <2>6 DEF FreshInv
<1>3. ASSUME NEW c \in Acts, PerformAct(c) \/ RefuseAct(c) \/ AskForList(c) \/ ReadRows(c)
      PROVE  FreshInv'
    <2>1. GoesOn(c) /\ shownList' = shownList /\ Acts \subseteq Calls
        BY <1>3, RequestsGoOn, PagesAssumption
    <2>2. /\ c \in UnderWay /\ UnderWay' = UnderWay /\ act'[c].row = act[c].row
          /\ \A d \in Acts \ {c} : act'[d] = act[d] /\ pc'[d] = pc[d]
          /\ UNCHANGED <<page, failures, overlapped>>
        BY <2>1 DEF GoesOn
    <2>3. /\ serverList \in [ActRows -> Nat] /\ act[c].row \in ActRows /\ DOMAIN act = Acts
          /\ "saw" \in DOMAIN act[c]
        BY <2>2 DEF ActsFit
    <2>4. (InTurn' <=> InTurn) /\ (InTurn => UnderWay = {c})
        BY <2>2 DEF InTurn, FreshInv, TurnsShow
    <2>5. CASE PerformAct(c)
        <3>1. /\ pc[c] = "server" /\ pc'[c] = "answer" /\ latest' = latest
              /\ serverList' = [serverList EXCEPT ![act[c].row] = @ + 1]
              /\ act' = [act EXCEPT ![c].saw = serverList']
            BY <2>1, <2>5 DEF PerformAct, Goto, MovesTo
        <3>2. /\ act'[c].saw = serverList'
              /\ \A q \in ActRows \ {act[c].row} : serverList'[q] = serverList[q]
            BY <2>3, <3>1
        <3>3. InTurn => TurnsShow'
            BY <2>1, <2>2, <2>4, <3>1, <3>2 DEF FreshInv, TurnsShow
        <3>4. LastShows'
            BY <3>1 DEF LastShows
        <3> QED
            BY <1>0, <2>4, <3>3, <3>4 DEF FreshInv
    <2>6. CASE RefuseAct(c)
        <3>1. /\ pc[c] = "server" /\ pc'[c] = "refusal"
              /\ UNCHANGED <<latest, serverList, act>>
            BY <2>1, <2>6 DEF RefuseAct, Goto, MovesTo, pageVars
        <3>3. InTurn => TurnsShow'
            BY <2>1, <2>2, <2>4, <3>1 DEF FreshInv, TurnsShow
        <3>4. LastShows => LastShows'
            BY <2>1, <2>2, <3>1 DEF LastShows
        <3> QED
            BY <1>0, <2>2, <2>4, <3>3, <3>4 DEF FreshInv
    <2>7. CASE AskForList(c)
        <3>1. /\ pc[c] = "answer" /\ pc'[c] = "read" /\ latest' = c
              /\ UNCHANGED <<serverList, act>>
            BY <2>1, <2>7 DEF AskForList, Goto, MovesTo
        <3>3. InTurn => TurnsShow'
            BY <2>1, <2>2, <2>4, <3>1 DEF FreshInv, TurnsShow
        <3>4. LastShows'
            BY <3>1 DEF LastShows
        <3> QED
            BY <1>0, <2>4, <3>3, <3>4 DEF FreshInv
    <2>8. CASE ReadRows(c)
        <3>1. /\ pc[c] = "read" /\ pc'[c] = "list"
              /\ act' = [act EXCEPT ![c].saw = serverList]
              /\ UNCHANGED <<serverList, latest>>
            BY <2>1, <2>8 DEF ReadRows, Goto, MovesTo
        <3>2. act'[c].saw = serverList'
            BY <2>3, <3>1
        <3>3. InTurn => TurnsShow'
            BY <2>1, <2>2, <2>4, <3>1, <3>2 DEF FreshInv, TurnsShow
        <3>4. LastShows => LastShows'
            BY <2>1, <2>2, <3>1, <3>2 DEF LastShows
        <3> QED
            BY <1>0, <2>2, <2>4, <3>3, <3>4 DEF FreshInv
    <2> QED
        BY <1>3, <2>5, <2>6, <2>7, <2>8
<1>4. ASSUME NEW c \in Acts, ShowRows(c) \/ Succeed(c) \/ FailAct(c) PROVE FreshInv'
    <2>1. /\ IsOver(c) /\ Acts \subseteq Calls
          /\ pc'[c] = "dead" => failures' # 0
        BY <1>0, <1>4, RequestsEnd, PagesAssumption
    <2>2. /\ c \in UnderWay /\ UnderWay' = UnderWay \ {c}
          /\ \A d \in Acts \ {c} : act'[d] = act[d] /\ pc'[d] = pc[d]
          /\ pc'[c] \in Ended
          /\ UNCHANGED <<page, overlapped, serverList>>
        BY <2>1 DEF IsOver
    <2>3. /\ serverList \in [ActRows -> Nat] /\ shownList \in [ActRows -> Nat]
          /\ act[c].row \in ActRows /\ act[c].by \in page /\ page \in Pages \cup {{}}
        BY <2>2 DEF ActsFit
    <2>4. InTurn' => InTurn /\ UnderWay = {c} /\ UnderWay' = {} /\ TurnsShow
        BY <1>0, <2>2 DEF InTurn, FreshInv, TurnsShow
    <2>5. latest' = latest
        BY <1>4 DEF ShowRows, Succeed, FailAct
    <2>6. CASE ShowRows(c)
        <3>1. /\ pc[c] = "list" /\ shownList' = IF IsShown(c) THEN act[c].saw ELSE shownList
              /\ IsShown(c) <=> (act[c].by.shows = "all" \/ latest = c)
            BY <2>6 DEF ShowRows, IsShown
        <3>2. InTurn' => TurnsShow'
            BY <2>2, <2>4, <3>1 DEF TurnsShow
        <3>3. ASSUME page' \in {{}, AppRefunds}, LastShows PROVE LastShows'
            <4>1. IsShown(c) <=> latest = c
                BY <2>2, <2>3, <3>1, <3>3, PagesFit
            <4> QED
                BY <2>2, <2>5, <3>1, <3>3, <4>1 DEF LastShows, Ended
        <3> QED
            BY <1>0, <2>2, <3>2, <3>3 DEF FreshInv
    <2>7. CASE Succeed(c)
        <3>1. /\ pc[c] = "answer" /\ act[c].by.after \in {"stay", "leave"}
              /\ act[c].by.after = "stay" =>
                    shownList' = [shownList EXCEPT ![act[c].row] = act[c].saw[act[c].row]]
            BY <2>7 DEF Succeed
        <3>2. ASSUME InTurn' PROVE TurnsShow'
            <4>1. act[c].by.after = "stay"
                BY <2>3, <2>4, <3>1, <3>2 DEF InTurn
            <4>2. /\ act[c].saw = serverList
                  /\ \A q \in ActRows \ {act[c].row} : shownList[q] = serverList[q]
                BY <2>2, <2>4, <3>1, <3>2 DEF TurnsShow
            <4>3. shownList' = serverList
                BY <2>3, <3>1, <4>1, <4>2
            <4> QED
                BY <2>2, <2>4, <3>2, <4>3 DEF TurnsShow
        <3>3. page' \notin {{}, AppRefunds}
            BY <2>2, <2>3, <3>1, PagesFit
        <3> QED
            BY <1>0, <3>2, <3>3 DEF FreshInv
    <2>8. CASE FailAct(c)
        <3>1. shownList' = shownList /\ (failures' = 0 => pc[c] = "refusal")
            BY <1>0, <2>1, <2>8 DEF FailAct, CutShort
        <3>2. InTurn' => TurnsShow'
            BY <2>2, <2>4, <3>1 DEF TurnsShow, InTurn
        <3>3. failures' = 0 /\ LastShows => LastShows'
            BY <2>2, <2>5, <3>1 DEF LastShows, Ended
        <3> QED
            BY <1>0, <2>2, <3>2, <3>3 DEF FreshInv
    <2> QED
        BY <1>4, <2>6, <2>7, <2>8
<1> QED
    BY <1>1, <1>2, <1>3, <1>4 DEF PagesNext

ButtonInv == ActsFit /\ FlagInv /\ FreshInv

LEMMA ButtonInductive == ButtonInv /\ [Next]_vars => ButtonInv'
<1> SUFFICES ASSUME ButtonInv, [Next]_vars PROVE ButtonInv'
    BY DEF ButtonInv
<1>1. CASE UNCHANGED vars
    <2>1. UNCHANGED <<pageVars, requestVars>> /\ UnderWay' = UnderWay
        BY <1>1 DEF vars, requestVars, UnderWay, Busy, Started
    <2>2. ActsFit'
        BY <2>1 DEF ButtonInv, ActsFit, pageVars, requestVars
    <2>3. FlagInv'
        BY <2>1
        DEF ButtonInv, FlagInv, FlagHeld, RowsShared, AllLock, FlagHasReason, DoneOnce, AllLeave,
            pageVars, requestVars
    <2>4. FreshInv'
        BY <2>1 DEF ButtonInv, FreshInv, InTurn, TurnsShow, LastShows, pageVars, requestVars
    <2> QED
        BY <2>2, <2>3, <2>4 DEF ButtonInv
<1>2. CASE Next
    <2>1. PICK i \in 1..11 : StepOf(i)
        BY <1>2, StepsOfParts
    <2>2. CASE i = 8
        BY <2>1, <2>2, PartsByNumber, ActsStep, FlagStep, FreshStep DEF StepOf, ButtonInv
    <2>3. CASE i # 8
        <3>1. \A c \in Acts : pc[c] = "idle" /\ pc'[c] = "idle"
            <4>1. Acts \subseteq Parts[8] \cap Calls
                BY PartsByNumber, PagesAssumption
            <4> QED
                BY <2>1, <2>3, <4>1, OthersAreIdle
        <3>2. UNCHANGED pageVars /\ UnderWay = {} /\ UnderWay' = {}
            BY <2>1, <2>3, <3>1 DEF StepOf, UnderWay, Busy, Started
        <3>3. FailuresGrow /\ OverlapStays
            BY <1>2, CountersStep
        <3>4. failures' \in Nat /\ (failures' = 0 => failures = 0) /\ (InTurn' => InTurn)
            BY <3>2, <3>3
            DEF FailuresGrow, OverlapStays, ButtonInv, FreshInv, InTurn, pageVars
        <3>5. ActsFit'
            BY <3>1, <3>2 DEF ButtonInv, ActsFit, pageVars
        <3>6. FlagInv'
            BY <3>1, <3>2
            DEF ButtonInv, FlagInv, FlagHeld, RowsShared, AllLock, FlagHasReason, DoneOnce,
                AllLeave, pageVars
        <3>7. FreshInv'
            BY <3>1, <3>2, <3>4 DEF ButtonInv, FreshInv, TurnsShow, LastShows, pageVars
        <3> QED
            BY <3>5, <3>6, <3>7 DEF ButtonInv
    <2> QED
        BY <2>2, <2>3
<1> QED
    BY <1>1, <1>2

(* The handlers of the pages and screens: two requests share a row only if *)
(* the flag was taken while one ran, a form with one flag never sends two  *)
(* and one that is left succeeds once; the flag that disables a button is  *)
(* reset unless the page is left or turned the input down itself; and the  *)
(* list shown is that of the database once requests that took turns have   *)
(* ended, and after any where only the last reload is shown.               *)
THEOREM ButtonsAlwaysKeepUp == Spec => []ButtonsKeepUp
<1>1. ASSUME ActsFit, FlagInv PROVE OneActPerRow
    <2>1. ASSUME NEW c \in UnderWay, NEW d \in UnderWay, c # d,
                 LET both == {act[c].by.disables, act[d].by.disables}
                 IN  both = {"page"} \/ (both = {"row"} /\ act[c].row = act[d].row)
          PROVE  {act[c].row, act[d].row} \cap freedEarly # {}
        <3>1. \/ act[c].by.disables = "page" /\ act[d].by.disables = "page"
              \/ /\ act[c].by.disables = "row" /\ act[d].by.disables = "row"
                 /\ act[c].row = act[d].row
            BY <2>1
        <3> QED
            BY <1>1, <2>1, <3>1 DEF FlagInv, RowsShared
    <2>2. ASSUME AllLeave PROVE Cardinality({c \in Acts : pc[c] = "done"}) <= 1
        <3> DEFINE D == {c \in Acts : pc[c] = "done"}
        <3>1. D = {} \/ \E c \in D : D = {c}
            BY <1>1, <2>2 DEF FlagInv, DoneOnce
        <3>2. D = {} => Cardinality(D) = 0
            BY FS_EmptySet
        <3>3. \A c \in D : D = {c} => Cardinality(D) = 1
            BY FS_Singleton
        <3> HIDE DEF D
        <3>4. Cardinality(D) \in {0, 1}
            BY <3>1, <3>2, <3>3
        <3>5. Cardinality(D) <= 1
            BY <3>4
        <3> QED
            BY <3>5 DEF D
    <2>3. AllLock => freedEarly = {}
        BY <1>1 DEF FlagInv
    <2> QED
        BY <2>1, <2>2, <2>3 DEF OneActPerRow, AllLock, AllLeave
<1>2. ASSUME FlagInv PROVE ButtonsComeBack
    BY <1>2 DEF FlagInv, FlagHasReason, ButtonsComeBack
<1>3. ASSUME FreshInv PROVE ListIsFresh
    <2>1. UnderWay = {} => \A c \in Acts : pc[c] \in {"idle"} \cup Ended
        BY UnderWayIs
    <2>2. ASSUME UnderWay = {}, LastShows PROVE shownList = serverList
        BY <2>1, <2>2 DEF LastShows, Ended
    <2> QED
        BY <1>3, <2>2 DEF FreshInv, InTurn, TurnsShow, ListIsFresh
<1>4. ButtonInv => ButtonsKeepUp
    BY <1>1, <1>2, <1>3 DEF ButtonInv, ButtonsKeepUp
<1>5. Init => ButtonInv
    BY ActsInit, FlagInit, FreshInit DEF ButtonInv
<1> QED
    BY <1>4, <1>5, ButtonInductive, PTL DEF Spec

-------------------------------------------------------------------------------
(* The organizer keeps an owner.                                           *)
TeamTasks == {c \in TeamPart : pc[c] \in TeamSteps}

(* An owner acts, whose row stays as it is while no other request runs.    *)
TeamInv ==
    /\ TeamTypeOK
    /\ ~overlapped =>
        /\ Owners # {}
        /\ \A c, d \in TeamTasks : c = d
        /\ \A c \in TeamTasks \cap TeamCalls :
            /\ job[c].by \in Owners
            /\ pc[c] = "update" => (job[c].who = job[c].by => job[c].role = "OWNER")
            /\ pc[c] \in {"count", "delete"} => job[c].who # job[c].by
        /\ \A c \in TeamTasks \cap LeaveCalls : job[c].who \notin Owners

LEMMA TeamInvInit == Init => TeamInv
<1> SUFFICES ASSUME Init PROVE TeamInv
    OBVIOUS
<1>1. \A c \in TeamPart : pc[c] = "idle"
    BY TeamAssumption DEF Init, RequestsInit, TeamPart
<1>2. TeamTasks = {}
    BY <1>1 DEF TeamTasks, TeamSteps
<1>3. /\ member = [u \in People |-> [role |-> IF u = Founder THEN "OWNER" ELSE "none", row |-> 0]]
      /\ left = {} /\ job = [c \in TeamPart |-> NoJob]
    BY DEF Init, TeamInit, TeamPart
<1>4. Founder \in Owners
    BY <1>3, TeamAssumption DEF Owners
<1>5. NoJob \in [op : Ops \cup {"none"}, by : People, who : People,
                 role : Roles \cup {"none"}, row : Nat]
    BY TeamAssumption DEF NoJob
<1>6. member \in [People -> [role : Roles \cup {"none"}, row : Nat]]
    BY <1>3 DEF Roles
<1>7. TeamTypeOK
    BY <1>1, <1>3, <1>5, <1>6 DEF TeamTypeOK, TeamPart
<1> QED
    BY <1>2, <1>4, <1>7 DEF TeamInv

Jobs == [op : Ops \cup {"none"}, by : People, who : People, role : Roles \cup {"none"}, row : Nat]

(* A call that begins alone, and one that goes on.                         *)
TakesUp(c, step) ==
    /\ pc[c] = "idle" /\ pc'[c] = step
    /\ \A d \in TeamPart \ {c} : pc'[d] = pc[d]
    /\ overlapped' = (overlapped \/ TeamTasks # {})

WorksOn(c, step) ==
    /\ pc'[c] = step /\ overlapped' = overlapped
    /\ \A d \in TeamPart \ {c} : pc'[d] = pc[d]

LEMMA TeamStep ==
    ASSUME TeamInv, TeamNext, Only(TeamPart)
    PROVE  TeamInv' /\ (\A u \in left' \ left : overlapped \/ u \notin Owners)
<1>0. /\ TeamCalls \subseteq TeamPart /\ LeaveCalls \subseteq TeamPart /\ TeamPart \subseteq Calls
      /\ TeamPart = TeamCalls \cup LeaveCalls /\ Founder \in People
      /\ \A c \in TeamCalls : c \notin LeaveCalls
      /\ member \in [People -> [role : Roles \cup {"none"}, row : Nat]]
      /\ left \subseteq People /\ job \in [TeamPart -> Jobs] /\ NoJob \in Jobs
    BY TeamAssumption DEF TeamInv, TeamTypeOK, TeamPart, Jobs, NoJob
<1>a. TeamTasks = Busy
    <2>1. \A c \in TeamPart : c \in TeamTasks <=> c \in Busy
        BY <1>0 DEF TeamInv, TeamTypeOK, TeamTasks, TeamSteps, Busy, Started, Ended
    <2> QED
        BY <2>1 DEF Busy, Only, TeamTasks
<1> USE <1>0
<1>b. ASSUME NEW c \in TeamPart, NEW step
      PROVE  /\ Begin(c, step) => TakesUp(c, step)
             /\ Goto(c, step) => WorksOn(c, step)
    BY <1>a DEF Begin, Goto, MovesTo, TakesUp, WorksOn
<1>c. ASSUME NEW c \in TeamPart, NEW step \in TeamSteps \cup Ended, Advance(c, step)
      PROVE  /\ WorksOn(c, step) /\ job' \in [TeamPart -> Jobs]
             /\ step \in TeamSteps => job' = job
             /\ \A d \in TeamPart \ {c} : job'[d] = job[d]
    <2>1. WorksOn(c, step)
        BY <1>b, <1>c DEF Advance
    <2>2. step \in TeamSteps => step \notin Ended
        BY DEF TeamSteps, Ended
    <2> QED
        BY <1>c, <2>1, <2>2 DEF Advance
<1>1. ASSUME NEW c \in TeamCalls, AssertOwner(c) PROVE TeamInv' /\ left' = left
    <2>1. PICK op \in Ops \ {"leave"}, by \in Owners \ left, who \in People, role \in Roles :
              job' = [job EXCEPT ![c] =
                         [op |-> op, by |-> by, who |-> who, role |-> role, row |-> 0]]
        BY <1>1 DEF AssertOwner
    <2>2. TakesUp(c, "find") /\ UNCHANGED <<member, left>>
        BY <1>1, <1>b DEF AssertOwner
    <2>3. /\ by \in People /\ job'[c].by = by
          /\ \A d \in TeamPart \ {c} : job'[d] = job[d]
        BY <2>1 DEF Owners
    <2>4. [op |-> op, by |-> by, who |-> who, role |-> role, row |-> 0] \in Jobs
        BY <2>3 DEF Jobs
    <2>5. job' \in [TeamPart -> Jobs]
        BY <2>1, <2>4
    <2>6. TeamTypeOK'
        BY <2>2, <2>5 DEF TeamInv, TeamTypeOK, TakesUp, TeamSteps, Jobs, TeamPart
    <2>7. ~overlapped' => ~overlapped /\ TeamTasks' = {c}
        BY <2>2 DEF TakesUp, TeamTasks, TeamSteps
    <2>8. Owners' = Owners /\ by \in Owners /\ pc'[c] = "find"
        BY <2>2 DEF Owners, TakesUp
    <2> QED
        BY <2>2, <2>3, <2>6, <2>7, <2>8 DEF TeamInv
<1>2. ASSUME NEW c \in TeamCalls, FindInvitee(c) PROVE TeamInv' /\ left' = left
    <2>1. PICK step \in {"create", "refused"} :
              Advance(c, step) /\ pc[c] = "find" /\ UNCHANGED <<member, left>>
        BY <1>2 DEF FindInvitee
    <2>2. step \in TeamSteps \cup Ended
        BY DEF TeamSteps, Ended
    <2>3. /\ WorksOn(c, step) /\ job' \in [TeamPart -> Jobs]
          /\ step = "create" => job' = job
          /\ \A d \in TeamPart \ {c} : job'[d] = job[d]
        BY <1>c, <2>1, <2>2 DEF TeamSteps
    <2>4. TeamTypeOK'
        BY <2>1, <2>3 DEF TeamInv, TeamTypeOK, WorksOn, TeamSteps, Ended, Jobs, TeamPart
    <2>5. /\ Owners' = Owners /\ overlapped' = overlapped /\ pc'[c] = step
          /\ TeamTasks' = IF step = "create" THEN TeamTasks ELSE TeamTasks \ {c}
          /\ c \in TeamTasks
        BY <2>1, <2>3 DEF Owners, WorksOn, TeamTasks, TeamSteps
    <2>6. ~overlapped => TeamTasks = {c} /\ job[c].by \in Owners /\ Owners # {}
        BY <2>5 DEF TeamInv
    <2> QED
        BY <2>1, <2>3, <2>4, <2>5, <2>6 DEF TeamInv
<1>3. ASSUME NEW c \in TeamCalls, CreateMember(c) PROVE TeamInv' /\ left' = left
    <2> DEFINE who == job[c].who
    <2>1. PICK step \in {"done", "refused"} : Advance(c, step)
        BY <1>3 DEF CreateMember
    <2>2. /\ who \in People /\ job[c].role \in Roles \cup {"none"}
          /\ member[who].row \in Nat
        BY DEF Jobs
    <2>3. /\ member' = member
             \/ /\ member[who].role = "none"
                /\ member' = [member EXCEPT ![who] = [role |-> job[c].role, row |-> member[who].row + 1]]
          /\ left' = left /\ pc[c] = "create"
        BY <1>3 DEF CreateMember
    <2>4. member' \in [People -> [role : Roles \cup {"none"}, row : Nat]]
        BY <2>2, <2>3
    <2>5. Owners \subseteq Owners'
        BY <2>2, <2>3 DEF Owners
    <2>6. step \in TeamSteps \cup Ended
        BY DEF Ended
    <2>7. WorksOn(c, step) /\ job' \in [TeamPart -> Jobs]
        BY <1>c, <2>1, <2>6
    <2>8. TeamTypeOK'
        BY <2>3, <2>4, <2>7 DEF TeamInv, TeamTypeOK, WorksOn, TeamSteps, Ended, Jobs, TeamPart
    <2>9. /\ overlapped' = overlapped /\ TeamTasks' = TeamTasks \ {c} /\ c \in TeamTasks
        BY <2>3, <2>7 DEF WorksOn, TeamTasks, TeamSteps
    <2> QED
        BY <2>3, <2>5, <2>8, <2>9 DEF TeamInv
<1>4. ASSUME NEW c \in TeamCalls, FindMember(c) PROVE TeamInv' /\ left' = left
    <2> DEFINE who == job[c].who
               by == job[c].by
    <2>1. /\ who \in People /\ by \in People /\ job[c] \in Jobs /\ member[who].row \in Nat
          /\ member[who].role \in Roles \cup {"none"}
          /\ pc[c] = "find" /\ job[c].op \in {"updateRole", "remove"}
          /\ UNCHANGED <<member, left>>
        BY <1>4 DEF FindMember, Jobs
    <2>2. PICK step \in {"refused", "update", "count", "delete"} :
              /\ Goto(c, step)
              /\ job' = [job EXCEPT ![c] = IF step \in Ended THEN NoJob
                                           ELSE [job[c] EXCEPT !.row = member[who].row]]
              /\ step = "update" => MayHaveRole(c)
              /\ step \in {"count", "delete"} => who # by
        BY <1>4, <2>1 DEF FindMember, StepToRemove, Ended
    <2>3. [job[c] EXCEPT !.row = member[who].row] \in Jobs
        BY <2>1 DEF Jobs
    <2>4. /\ job' \in [TeamPart -> Jobs]
          /\ \A d \in TeamPart \ {c} : job'[d] = job[d]
        BY <2>2, <2>3
    <2>5. step # "refused" => /\ job'[c].by = by /\ job'[c].who = who
                              /\ job'[c].role = job[c].role
        BY <2>1, <2>2 DEF Ended, Jobs
    <2>6. WorksOn(c, step)
        BY <1>b, <2>2
    <2>7. TeamTypeOK'
        BY <2>1, <2>4, <2>6 DEF TeamInv, TeamTypeOK, WorksOn, TeamSteps, Ended, Jobs, TeamPart
    <2>8. /\ Owners' = Owners /\ overlapped' = overlapped /\ pc'[c] = step /\ c \in TeamTasks
          /\ TeamTasks' = IF step = "refused" THEN TeamTasks \ {c} ELSE TeamTasks
        BY <2>1, <2>6 DEF Owners, WorksOn, TeamTasks, TeamSteps
    <2>9. ~overlapped => TeamTasks = {c} /\ by \in Owners
        BY <2>8 DEF TeamInv
    <2> QED
        BY <2>1, <2>2, <2>5, <2>7, <2>8, <2>9 DEF TeamInv, MayHaveRole
<1>5. ASSUME NEW c \in TeamCalls, CountOwners(c) PROVE TeamInv' /\ left' = left
    <2>1. PICK step \in {"delete", "refused"} :
              Advance(c, step) /\ pc[c] = "count" /\ UNCHANGED <<member, left>>
        BY <1>5 DEF CountOwners
    <2>2. step \in TeamSteps \cup Ended
        BY DEF TeamSteps, Ended
    <2>3. /\ WorksOn(c, step) /\ job' \in [TeamPart -> Jobs]
          /\ step = "delete" => job' = job
          /\ \A d \in TeamPart \ {c} : job'[d] = job[d]
        BY <1>c, <2>1, <2>2 DEF TeamSteps
    <2>4. TeamTypeOK'
        BY <2>1, <2>3 DEF TeamInv, TeamTypeOK, WorksOn, TeamSteps, Ended, Jobs, TeamPart
    <2>5. /\ Owners' = Owners /\ overlapped' = overlapped /\ pc'[c] = step
          /\ TeamTasks' = IF step = "delete" THEN TeamTasks ELSE TeamTasks \ {c}
          /\ c \in TeamTasks
        BY <2>1, <2>3 DEF Owners, WorksOn, TeamTasks, TeamSteps
    <2>6. ~overlapped => TeamTasks = {c} /\ job[c].by \in Owners /\ job[c].who # job[c].by
        BY <2>1, <2>5 DEF TeamInv
    <2> QED
        BY <2>1, <2>3, <2>4, <2>5, <2>6 DEF TeamInv
<1>6. ASSUME NEW c \in TeamCalls, UpdateRole(c) \/ DeleteMember(c) PROVE TeamInv' /\ left' = left
    <2> DEFINE who == job[c].who
               by == job[c].by
    <2>1. PICK step \in {"done", "refused"} : Advance(c, step)
        BY <1>6 DEF UpdateRole, DeleteMember
    <2>2. /\ who \in People /\ by \in People /\ job[c].role \in Roles \cup {"none"}
        BY DEF Jobs
    <2>3. /\ pc[c] \in {"update", "delete"} /\ left' = left
          /\ \/ member' = member
             \/ pc[c] = "update" /\ member' = [member EXCEPT ![who].role = job[c].role]
             \/ pc[c] = "delete" /\ member' = [member EXCEPT ![who].role = "none"]
        BY <1>6 DEF UpdateRole, DeleteMember
    <2>4. /\ member' \in [People -> [role : Roles \cup {"none"}, row : Nat]]
          /\ by # who => member'[by] = member[by]
          /\ pc[c] = "update" /\ by = who => member'[by].role \in {member[by].role, job[c].role}
        BY <2>2, <2>3
    <2>5. c \in TeamTasks
        BY <2>3 DEF TeamTasks, TeamSteps
    <2>6. ~overlapped => by \in Owners'
        BY <2>2, <2>3, <2>4, <2>5 DEF TeamInv, Owners
    <2>7. step \in TeamSteps \cup Ended
        BY DEF Ended
    <2>8. WorksOn(c, step) /\ job' \in [TeamPart -> Jobs]
        BY <1>c, <2>1, <2>7
    <2>9. TeamTypeOK'
        BY <2>3, <2>4, <2>8 DEF TeamInv, TeamTypeOK, WorksOn, TeamSteps, Ended, Jobs, TeamPart
    <2>10. overlapped' = overlapped /\ TeamTasks' = TeamTasks \ {c}
        BY <2>3, <2>8 DEF WorksOn, TeamTasks, TeamSteps
    <2>11. ~overlapped => TeamTasks' = {}
        BY <2>5, <2>10 DEF TeamInv
    <2> QED
        BY <2>3, <2>6, <2>9, <2>10, <2>11 DEF TeamInv
<1>7. ASSUME NEW c \in LeaveCalls, AskToLeave(c) PROVE TeamInv' /\ left' = left
    <2>1. PICK u \in People \ left :
              /\ Begin(c, IF OwnsNothing(u) THEN "close" ELSE "refused")
              /\ job' = IF OwnsNothing(u)
                        THEN [job EXCEPT ![c] = [NoJob EXCEPT !.op = "leave", !.by = u, !.who = u]]
                        ELSE job
              /\ UNCHANGED <<member, left>>
        BY <1>7 DEF AskToLeave
    <2>2. [NoJob EXCEPT !.op = "leave", !.by = u, !.who = u] \in Jobs
        BY DEF NoJob, Jobs, Ops
    <2>3. /\ job' \in [TeamPart -> Jobs] /\ (OwnsNothing(u) => job'[c].who = u)
        BY <2>1, <2>2 DEF NoJob
    <2>4. TakesUp(c, IF OwnsNothing(u) THEN "close" ELSE "refused")
        BY <1>b, <2>1
    <2>5. TeamTypeOK'
        BY <2>1, <2>3, <2>4 DEF TeamInv, TeamTypeOK, TakesUp, TeamSteps, Ended, Jobs, TeamPart
    <2>6. ~overlapped' => /\ ~overlapped
                          /\ TeamTasks' = IF OwnsNothing(u) THEN {c} ELSE {}
        BY <2>4 DEF TakesUp, TeamTasks, TeamSteps
    <2>7. Owners' = Owners /\ (OwnsNothing(u) <=> u \notin Owners)
        BY <2>1 DEF Owners, OwnsNothing
    <2> QED
        BY <2>1, <2>3, <2>5, <2>6, <2>7 DEF TeamInv
<1>8. ASSUME NEW c \in LeaveCalls, Leave(c)
      PROVE  TeamInv' /\ (\A u \in left' \ left : overlapped \/ u \notin Owners)
    <2>1. /\ pc[c] = "close" /\ left' = left \cup {job[c].who} /\ job[c].who \in People
          /\ Advance(c, "done") /\ member' = member
        BY <1>8 DEF Leave, Jobs
    <2>2. "done" \in TeamSteps \cup Ended
        BY DEF Ended
    <2>3. WorksOn(c, "done") /\ job' \in [TeamPart -> Jobs]
        BY <1>c, <2>1, <2>2
    <2>4. TeamTypeOK'
        BY <2>1, <2>3 DEF TeamInv, TeamTypeOK, WorksOn, TeamSteps, Ended, Jobs, TeamPart
    <2>5. /\ overlapped' = overlapped /\ TeamTasks' = TeamTasks \ {c} /\ c \in TeamTasks
          /\ Owners' = Owners
        BY <2>1, <2>3 DEF WorksOn, TeamTasks, TeamSteps, Owners
    <2>6. overlapped \/ job[c].who \notin Owners
        BY <2>5 DEF TeamInv
    <2> QED
        BY <2>1, <2>4, <2>5, <2>6 DEF TeamInv
<1>9. ASSUME NEW c \in TeamPart, TeamCutShort(c) PROVE TeamInv' /\ left' = left
    <2>1. /\ WorksOn(c, "dead") /\ job' = [job EXCEPT ![c] = NoJob]
          /\ UNCHANGED <<member, left>>
        BY <1>9 DEF TeamCutShort, CutShort, MovesTo, WorksOn
    <2>2. job' \in [TeamPart -> Jobs] /\ \A d \in TeamPart \ {c} : job'[d] = job[d]
        BY <2>1
    <2>3. TeamTypeOK'
        BY <2>1, <2>2 DEF TeamInv, TeamTypeOK, WorksOn, TeamSteps, Ended, Jobs, TeamPart
    <2>4. /\ overlapped' = overlapped /\ TeamTasks' = TeamTasks \ {c} /\ Owners' = Owners
        BY <2>1 DEF WorksOn, TeamTasks, TeamSteps, Owners
    <2>5. \A d \in TeamTasks' : job'[d] = job[d] /\ pc'[d] = pc[d]
        BY <2>1, <2>2, <2>4 DEF WorksOn, TeamTasks
    <2> QED
        BY <2>1, <2>3, <2>4, <2>5 DEF TeamInv
<1> QED
    BY <1>1, <1>2, <1>3, <1>4, <1>5, <1>6, <1>7, <1>8, <1>9 DEF TeamNext

LEMMA TeamInductive ==
    TeamInv /\ [Next]_vars
        => TeamInv' /\ [\A u \in left' \ left : overlapped \/ u \notin Owners]_teamVars
<1> SUFFICES ASSUME TeamInv, [Next]_vars
             PROVE  TeamInv' /\ [\A u \in left' \ left : overlapped \/ u \notin Owners]_teamVars
    OBVIOUS
<1>1. CASE UNCHANGED vars
    BY <1>1 DEF TeamInv, TeamTypeOK, TeamTasks, Owners, vars, teamVars, requestVars
<1>2. CASE Next
    <2>1. PICK i \in 1..11 : StepOf(i)
        BY <1>2, StepsOfParts
    <2>2. CASE i = 1
        BY <2>1, <2>2, PartsByNumber, TeamStep DEF StepOf
    <2>3. CASE i # 1
        <3>1. \A c \in TeamPart : pc[c] = "idle" /\ pc'[c] = "idle"
            <4>1. TeamPart \subseteq Parts[1] \cap Calls
                BY PartsByNumber, TeamAssumption DEF TeamPart
            <4> QED
                BY <2>1, <2>3, <4>1, OthersAreIdle
        <3>2. UNCHANGED teamVars /\ TeamTasks = {} /\ TeamTasks' = {}
            BY <2>1, <2>3, <3>1 DEF StepOf, TeamTasks, TeamSteps
        <3>3. (overlapped => overlapped') /\ Owners' = Owners
            BY <1>2, <3>2, CountersStep DEF OverlapStays, Owners, teamVars
        <3>4. TeamTypeOK'
            BY <3>1, <3>2 DEF TeamInv, TeamTypeOK, TeamPart, teamVars
        <3> QED
            BY <3>2, <3>3, <3>4 DEF TeamInv
    <2> QED
        BY <2>2, <2>3
<1> QED
    BY <1>1, <1>2

(* TeamService and deleteAccount: requests that take turns never leave the *)
(* organizer without an owner, and no account is closed that owns it when  *)
(* no other request ran.                                                   *)
THEOREM OwnersAreKept == Spec => OwnersKept
<1>1. TeamInv => OwnerRemains
    BY DEF TeamInv, OwnerRemains
<1> QED
    BY <1>1, TeamInvInit, TeamInductive, PTL DEF Spec, OwnersKept, OwnersStay

-------------------------------------------------------------------------------
(* What is on show at the organizer's.                                     *)
Reads == {c \in ConsoleCalls : pc[c] = "write"}

ConsoleInv ==
    /\ event \in Events /\ draft \in [Edits \cup Streams -> Events]
    /\ charged \in [Payouts -> Rates \cup {NoUrl}] /\ commission \in Rates
    /\ \A c \in ConsoleCalls : pc[c] \in {"idle", "write"} \cup Ended
    /\ \A c \in Reviews : pc[c] \in {"idle"} \cup Ended
    /\ LiveHasUrl
    /\ \A c \in Edits : pc[c] = "write" => draft[c].starts < draft[c].ends
    /\ \A c \in Streams : pc[c] = "write" => (draft[c].live => draft[c].url # NoUrl)
    /\ ~overlapped =>
        /\ \A c, d \in Reads : c = d
        /\ \A c \in Reads \cap Publishes : approval = "APPROVED"
        /\ \A c \in Reads \cap Payouts : charged[c] = commission

(* What a step of the console may do to dates, bank and event.             *)
ConsoleMoves ==
    /\ event'.published /\ ~event.published /\ ~overlapped => approval = "APPROVED"
    /\ <<event'.starts, event'.ends>> # <<event.starts, event.ends>>
        => event'.starts < event'.ends
    /\ bank' # bank /\ ~overlapped => charged[bank'] = commission

LEMMA ConsoleInit == Init => ConsoleInv
<1> SUFFICES ASSUME Init PROVE ConsoleInv
    OBVIOUS
<1>1. \A c \in Reviews \cup ConsoleCalls : pc[c] = "idle"
    BY OrganizersAssumption DEF Init, RequestsInit
<1>2. Reads = {}
    BY <1>1 DEF Reads
<1>3. /\ commission = DefaultRate
      /\ charged = [c \in Payouts |-> NoUrl]
      /\ event = [published |-> FALSE, starts |-> FirstDates[1], ends |-> FirstDates[2],
                  url |-> NoUrl, live |-> FALSE]
      /\ draft = [c \in Edits \cup Streams |-> event]
    BY DEF Init, OrganizersInit
<1>4. event \in Events
    BY <1>3, OrganizersAssumption DEF Events
<1>5. LiveHasUrl
    BY <1>3 DEF LiveHasUrl
<1>6. Payouts \subseteq ConsoleCalls /\ Edits \subseteq ConsoleCalls /\ Streams \subseteq ConsoleCalls
    BY DEF ConsoleCalls
<1> QED
    BY <1>1, <1>2, <1>3, <1>4, <1>5, <1>6, OrganizersAssumption DEF ConsoleInv

(* A request that runs to its first await, and one that ends.              *)
Asks(c, step) ==
    /\ pc[c] = "idle" /\ pc'[c] = step
    /\ \A d \in ConsolePart \ {c} : pc'[d] = pc[d]
    /\ overlapped' = (overlapped \/ Reads # {})

Stops(c) ==
    /\ c \in Reads /\ pc'[c] \in Ended /\ overlapped' = overlapped
    /\ \A d \in ConsolePart \ {c} : pc'[d] = pc[d]

LEMMA ConsoleStep ==
    ASSUME ConsoleInv, OrganizersNext, Only(ConsolePart)
    PROVE  ConsoleInv' /\ ConsoleMoves
<1>0. /\ Reviews \subseteq ConsolePart /\ ConsoleCalls \subseteq ConsolePart
      /\ ConsolePart \subseteq Calls /\ ConsolePart = Reviews \cup ConsoleCalls
      /\ Publishes \subseteq ConsoleCalls /\ Edits \subseteq ConsoleCalls
      /\ Streams \subseteq ConsoleCalls /\ Payouts \subseteq ConsoleCalls
      /\ Reads \subseteq ConsoleCalls
      /\ event \in Events /\ draft \in [Edits \cup Streams -> Events]
      /\ charged \in [Payouts -> Rates \cup {NoUrl}] /\ commission \in Rates
      /\ NoUrl \notin Streams \cup Payouts \cup Rates \cup {BlankUrl}
    BY OrganizersAssumption DEF ConsoleInv, ConsolePart, ConsoleCalls, Reads
<1>d. /\ \A c \in Edits : c \notin Streams /\ c \notin Publishes /\ c \notin Payouts /\ c \notin Reviews
      /\ \A c \in Streams : c \notin Publishes /\ c \notin Payouts /\ c \notin Reviews
      /\ \A c \in Publishes : c \notin Payouts /\ c \notin Reviews
      /\ \A c \in Reviews : c \notin ConsoleCalls
    BY OrganizersAssumption, <1>0
<1> USE <1>0
<1>e. /\ Reads' \subseteq ConsoleCalls
      /\ \A c \in ConsoleCalls : c \in Reads <=> pc[c] = "write"
      /\ \A c \in ConsoleCalls : c \in Reads' <=> pc'[c] = "write"
    BY DEF Reads
<1>a. Reads = Busy
    <2>1. /\ \A c \in ConsoleCalls : c \in Reads <=> c \in Busy
          /\ \A c \in Reviews : c \notin Busy
        BY DEF ConsoleInv, Reads, Busy, Started, Ended
    <2>2. Busy \subseteq ConsolePart
        BY DEF Busy, Only
    <2> QED
        BY <2>1, <2>2
<1>b. ASSUME NEW c \in ConsolePart, NEW step, Begin(c, step) PROVE Asks(c, step)
    BY <1>a, <1>b DEF Begin, MovesTo, Asks
<1>c. ASSUME NEW c \in ConsoleCalls, pc[c] = "write",
             Goto(c, "done") \/ CutShort(c)
      PROVE  Stops(c)
    BY <1>c DEF Goto, CutShort, MovesTo, Stops, Reads, Ended
<1>f. ASSUME NEW c \in ConsolePart, NEW step \in {"write", "done", "refused"}, Asks(c, step),
             step = "write" => c \in ConsoleCalls
      PROVE  /\ \A d \in ConsoleCalls : pc'[d] \in {"idle", "write"} \cup Ended
             /\ \A d \in Reviews : pc'[d] \in {"idle"} \cup Ended
             /\ \A d \in ConsoleCalls \ {c} : pc'[d] = "write" => pc[d] = "write"
             /\ ~overlapped' => ~overlapped /\ Reads' = IF step = "write" THEN {c} ELSE {}
    <2>1. \A d \in ConsoleCalls : pc'[d] \in {"idle", "write"} \cup Ended
        BY <1>f DEF ConsoleInv, Asks, Ended
    <2>2. \A d \in Reviews : pc'[d] \in {"idle"} \cup Ended
        BY <1>d, <1>f DEF ConsoleInv, Asks, Ended
    <2>3. ~overlapped' => ~overlapped /\ Reads' = IF step = "write" THEN {c} ELSE {}
        BY <1>f DEF Asks, Reads
    <2> QED
        BY <1>f, <2>1, <2>2, <2>3 DEF Asks
<1>g. ASSUME NEW c \in ConsoleCalls, Stops(c)
      PROVE  /\ \A d \in ConsoleCalls : pc'[d] \in {"idle", "write"} \cup Ended
             /\ \A d \in Reviews : pc'[d] \in {"idle"} \cup Ended
             /\ \A d \in ConsoleCalls : pc'[d] = "write" => d # c /\ pc[d] = "write"
             /\ Reads' = Reads \ {c} /\ c \in Reads /\ overlapped' = overlapped
    <2>1. \A d \in ConsoleCalls : /\ pc'[d] \in {"idle", "write"} \cup Ended
                                  /\ pc'[d] = "write" => d # c /\ pc[d] = "write"
        BY <1>g DEF ConsoleInv, Stops, Ended
    <2>2. \A d \in Reviews : pc'[d] \in {"idle"} \cup Ended
        BY <1>d, <1>g DEF ConsoleInv, Stops, Ended
    <2> QED
        BY <1>g, <2>1, <2>2 DEF Stops, Reads, Ended
<1>m. ASSUME event' = event, bank' = bank PROVE ConsoleMoves
    BY <1>m DEF ConsoleMoves
<1>1. ASSUME NEW c \in Reviews, Approve(c) \/ Suspend(c) \/ SetCommission(c)
      PROVE  ConsoleInv' /\ ConsoleMoves
    <2>1. Asks(c, "done") /\ UNCHANGED <<bank, charged, event, draft>> /\ commission' \in Rates
        BY <1>1, <1>b DEF Approve, Suspend, SetCommission
    <2> QED
        BY <1>d, <1>f, <1>m, <2>1 DEF ConsoleInv, LiveHasUrl
<1>2. ASSUME NEW c \in Publishes, AskToPublish(c) PROVE ConsoleInv' /\ ConsoleMoves
    <2>1. PICK step \in {"write", "refused"} :
              Begin(c, step) /\ (step = "write" => approval = "APPROVED")
        BY <1>2 DEF AskToPublish, MayPublish
    <2>2. Asks(c, step) /\ UNCHANGED <<approval, commission, bank, charged, event, draft>>
        BY <1>2, <1>b, <2>1 DEF AskToPublish, organizerVars
    <2> QED
        BY <1>d, <1>f, <1>m, <2>1, <2>2 DEF ConsoleInv, LiveHasUrl
<1>3. ASSUME NEW c \in Publishes, Publish(c)
      PROVE  ConsoleInv' /\ ConsoleMoves
    <2>1. /\ Stops(c) /\ event' = [event EXCEPT !.published = TRUE]
          /\ UNCHANGED <<approval, commission, bank, charged, draft>>
        BY <1>3, <1>c DEF Publish
    <2>2. /\ event' \in Events /\ event'.starts = event.starts /\ event'.ends = event.ends
          /\ event'.url = event.url /\ event'.live = event.live
        BY <2>1 DEF Events
    <2>3. ~overlapped => approval = "APPROVED"
        BY <1>g, <2>1 DEF ConsoleInv
    <2> QED
        BY <1>g, <2>1, <2>2, <2>3 DEF ConsoleInv, LiveHasUrl, ConsoleMoves
<1>4. ASSUME NEW c \in Edits, ReadEventToEdit(c) PROVE ConsoleInv' /\ ConsoleMoves
    <2>1. PICK starts \in Times \cup {event.starts}, ends \in Times \cup {event.ends} :
              /\ Begin(c, IF starts < ends THEN "write" ELSE "refused")
              /\ draft' = [draft EXCEPT ![c] = [event EXCEPT !.starts = starts, !.ends = ends]]
              /\ UNCHANGED <<approval, commission, bank, charged, event>>
        BY <1>4 DEF ReadEventToEdit
    <2>2. Asks(c, IF starts < ends THEN "write" ELSE "refused")
        BY <1>b, <2>1
    <2>3. /\ [event EXCEPT !.starts = starts, !.ends = ends] \in Events
          /\ [event EXCEPT !.starts = starts, !.ends = ends].starts = starts
          /\ [event EXCEPT !.starts = starts, !.ends = ends].ends = ends
        BY DEF Events
    <2>4. /\ draft' \in [Edits \cup Streams -> Events]
          /\ draft'[c].starts = starts /\ draft'[c].ends = ends
          /\ \A d \in (Edits \cup Streams) \ {c} : draft'[d] = draft[d]
        BY <2>1, <2>3
    <2>5. pc'[c] = "write" => draft'[c].starts < draft'[c].ends
        BY <2>2, <2>4 DEF Asks
    <2> QED
        BY <1>d, <1>f, <1>m, <2>1, <2>2, <2>4, <2>5 DEF ConsoleInv, LiveHasUrl
<1>5. ASSUME NEW c \in Edits, UpdateEvent(c) PROVE ConsoleInv' /\ ConsoleMoves
    <2>1. /\ Stops(c) /\ pc[c] = "write"
          /\ event' = [event EXCEPT !.starts = draft[c].starts, !.ends = draft[c].ends]
          /\ UNCHANGED <<approval, commission, bank, charged, draft>>
        BY <1>5, <1>c DEF UpdateEvent, WriteDates
    <2>2. draft[c] \in Events /\ draft[c].starts < draft[c].ends
        BY <2>1 DEF ConsoleInv
    <2>3. /\ event' \in Events /\ event'.starts < event'.ends
          /\ event'.url = event.url /\ event'.live = event.live
          /\ event'.published = event.published
        BY <2>1, <2>2 DEF Events
    <2> QED
        BY <1>g, <2>1, <2>3 DEF ConsoleInv, LiveHasUrl, ConsoleMoves
<1>6. ASSUME NEW c \in Streams, ReadEventToStream(c) PROVE ConsoleInv' /\ ConsoleMoves
    <2>1. PICK url \in {c, BlankUrl, event.url}, live \in {"on", "off", "keep"} :
              /\ Begin(c, IF live = "on" /\ ~MayGoLive(url) THEN "refused" ELSE "write")
              /\ draft' = [draft EXCEPT ![c] =
                        [event EXCEPT !.url = url,
                                      !.live = (live = "on" \/ (live = "keep" /\ event.live))]]
              /\ UNCHANGED <<approval, commission, bank, charged, event>>
        BY <1>6 DEF ReadEventToStream
    <2> DEFINE on == (live = "on" \/ (live = "keep" /\ event.live))
               row == [event EXCEPT !.url = url, !.live = on]
    <2>2. Asks(c, IF live = "on" /\ ~MayGoLive(url) THEN "refused" ELSE "write")
        BY <1>b, <2>1
    <2>3. on \in BOOLEAN
        BY DEF Events
    <2>4. url \in Streams \cup {NoUrl, BlankUrl}
        BY DEF Events
    <2>5. row \in Events /\ row.url = url /\ row.live = on
        <3> HIDE DEF on
        <3> QED
            BY <2>3, <2>4 DEF Events
    <2>6. /\ draft' \in [Edits \cup Streams -> Events] /\ draft'[c] = row
          /\ \A d \in (Edits \cup Streams) \ {c} : draft'[d] = draft[d]
        <3>1. draft' = [draft EXCEPT ![c] = row]
            BY <2>1
        <3> HIDE DEF row
        <3> QED
            BY <2>5, <3>1
    <2>7. pc'[c] = "write" /\ on => url # NoUrl
        BY <2>2 DEF Asks, MayGoLive, ConsoleInv, LiveHasUrl
    <2>8. pc'[c] = "write" => (draft'[c].live => draft'[c].url # NoUrl)
        <3> HIDE DEF on, row
        <3> QED
            BY <2>5, <2>6, <2>7
    <2> HIDE DEF on, row
    <2> QED
        BY <1>d, <1>f, <1>m, <2>1, <2>2, <2>6, <2>8 DEF ConsoleInv, LiveHasUrl
<1>7. ASSUME NEW c \in Streams, SetStream(c) PROVE ConsoleInv' /\ ConsoleMoves
    <2>1. /\ Stops(c) /\ pc[c] = "write"
          /\ event' = [event EXCEPT !.url = draft[c].url, !.live = draft[c].live]
          /\ UNCHANGED <<approval, commission, bank, charged, draft>>
        BY <1>7, <1>c DEF SetStream
    <2>2. draft[c] \in Events /\ (draft[c].live => draft[c].url # NoUrl)
        BY <2>1 DEF ConsoleInv
    <2>3. /\ event' \in Events /\ event'.starts = event.starts /\ event'.ends = event.ends
          /\ event'.url = draft[c].url /\ event'.live = draft[c].live
          /\ event'.published = event.published
        BY <2>1, <2>2 DEF Events
    <2>4. LiveHasUrl'
        BY <2>2, <2>3 DEF LiveHasUrl
    <2> QED
        BY <1>g, <2>1, <2>3, <2>4 DEF ConsoleInv, ConsoleMoves
<1>8. ASSUME NEW c \in Payouts, CreateSubaccount(c) PROVE ConsoleInv' /\ ConsoleMoves
    <2>1. /\ Asks(c, "write") /\ charged' = [charged EXCEPT ![c] = commission]
          /\ UNCHANGED <<approval, commission, bank, event, draft>>
        BY <1>8, <1>b DEF CreateSubaccount, RateInForce
    <2>2. /\ charged' \in [Payouts -> Rates \cup {NoUrl}] /\ charged'[c] = commission
          /\ \A d \in Payouts \ {c} : charged'[d] = charged[d]
        BY <2>1
    <2> QED
        BY <1>d, <1>f, <1>m, <2>1, <2>2 DEF ConsoleInv, LiveHasUrl
<1>9. ASSUME NEW c \in Payouts, StoreBankDetails(c) PROVE ConsoleInv' /\ ConsoleMoves
    <2>1. /\ Stops(c) /\ pc[c] = "write" /\ bank' = c
          /\ UNCHANGED <<approval, commission, charged, event, draft>>
        BY <1>9, <1>c DEF StoreBankDetails
    <2>2. ~overlapped => charged[c] = commission
        BY <1>g, <2>1 DEF ConsoleInv
    <2> QED
        BY <1>g, <2>1, <2>2 DEF ConsoleInv, LiveHasUrl, ConsoleMoves
<1>10. ASSUME NEW c \in ConsoleCalls, ConsoleCutShort(c) PROVE ConsoleInv' /\ ConsoleMoves
    <2>1. Stops(c) /\ UNCHANGED <<approval, commission, bank, charged, event, draft>>
        BY <1>10, <1>a, <1>c, <1>e DEF ConsoleCutShort, CutShort, organizerVars
    <2> QED
        BY <1>g, <1>m, <2>1 DEF ConsoleInv, LiveHasUrl
<1> QED
    BY <1>1, <1>2, <1>3, <1>4, <1>5, <1>6, <1>7, <1>8, <1>9, <1>10 DEF OrganizersNext

LEMMA ConsoleInductive ==
    ConsoleInv /\ [Next]_vars
        => ConsoleInv' /\ [ConsoleMoves]_organizerVars
<1> SUFFICES ASSUME ConsoleInv, [Next]_vars PROVE ConsoleInv' /\ [ConsoleMoves]_organizerVars
    OBVIOUS
<1>1. CASE UNCHANGED vars
    BY <1>1
    DEF ConsoleInv, LiveHasUrl, Reads, vars, organizerVars, requestVars
<1>2. CASE Next
    <2>1. PICK i \in 1..11 : StepOf(i)
        BY <1>2, StepsOfParts
    <2>2. CASE i = 4
        BY <2>1, <2>2, PartsByNumber, ConsoleStep DEF StepOf
    <2>3. CASE i # 4
        <3>1. \A c \in ConsolePart : pc[c] = "idle" /\ pc'[c] = "idle"
            <4>1. ConsolePart \subseteq Parts[4] \cap Calls
                BY PartsByNumber, OrganizersAssumption DEF ConsolePart
            <4> QED
                BY <2>1, <2>3, <4>1, OthersAreIdle
        <3>2. /\ Reviews \subseteq ConsolePart /\ ConsoleCalls \subseteq ConsolePart
              /\ Payouts \subseteq ConsolePart /\ Edits \subseteq ConsolePart
              /\ Streams \subseteq ConsolePart
            BY DEF ConsolePart, ConsoleCalls
        <3>3. UNCHANGED organizerVars /\ Reads = {} /\ Reads' = {}
            BY <2>1, <2>3, <3>1, <3>2 DEF StepOf, Reads
        <3>4. ConsoleInv'
            BY <3>1, <3>2, <3>3
            DEF ConsoleInv, LiveHasUrl, organizerVars
        <3> QED
            BY <3>3, <3>4
    <2> QED
        BY <2>2, <2>3
<1> QED
    BY <1>1, <1>2

(* EventsService, StreamingService, PayoutsService and AdminService:       *)
(* whoever changes the dates leaves an event that ends after it starts, a  *)
(* live stream has a URL, bank details put in use are charged the          *)
(* commission on show, and an event only goes on sale while its organizer  *)
(* is approved, the last two if the requests take turns.                   *)
THEOREM ConsoleAlwaysHolds == Spec => ConsoleHolds
<1>1. ConsoleInv => LiveHasUrl
    BY DEF ConsoleInv
<1>2. [ConsoleMoves]_organizerVars
        => /\ [event'.published /\ ~event.published /\ ~overlapped
                  => approval = "APPROVED"]_organizerVars
           /\ [<<event'.starts, event'.ends>> # <<event.starts, event.ends>>
                  => event'.starts < event'.ends]_organizerVars
           /\ [bank' # bank /\ ~overlapped => charged[bank'] = commission]_organizerVars
    BY DEF ConsoleMoves
<1> QED
    BY <1>1, <1>2, ConsoleInit, ConsoleInductive, PTL
    DEF Spec, ConsoleHolds, PublishedWhenApproved, DatesStayFit, TermsAsShown

-------------------------------------------------------------------------------
(* One account.                                                            *)

LEMMA ModIs ==
    ASSUME NEW n \in Nat, n > 0, NEW s \in Nat
    PROVE  /\ s % n = s - n * (s \div n) /\ s \div n \in Int
           /\ s % n \in 0..(n - 1) /\ 0 % n = 0
<1>1. s % n = s - n * (s \div n)
    BY Z3T(20)
<1>2. s \div n \in Int
    BY SMTT(20)
<1>3. s % n \in 0..(n - 1) /\ 0 % n = 0
    OBVIOUS
<1> QED
    BY <1>1, <1>2, <1>3

LEMMA ModNext ==
    ASSUME NEW n \in Nat, n > 0, NEW s \in Nat
    PROVE  (s + 1) % n = IF (s % n) + 1 >= n THEN 0 ELSE (s % n) + 1
<1> DEFINE a == s % n
           b == (s + 1) % n
           q == s \div n
           p == (s + 1) \div n
<1>1. /\ a = s - n * q /\ q \in Int /\ a \in 0..(n - 1)
      /\ b = (s + 1) - n * p /\ p \in Int /\ b \in 0..(n - 1)
    BY ModIs
<1> HIDE DEF a, b, p, q
<1>2. a \in Nat /\ b \in Nat /\ a < n /\ b < n /\ n * p + b = n * q + a + 1
    BY <1>1
<1>3. p = q \/ p = q + 1
    BY <1>1, <1>2, SMTT(20)
<1>4. b = IF a + 1 >= n THEN 0 ELSE a + 1
    <2>1. CASE p = q
        BY <1>1, <1>2, <2>1
    <2>2. CASE p = q + 1
        <3>1. n * p = n * q + n
            BY <1>1, <2>2
        <3> QED
            BY <1>1, <1>2, <3>1
    <2> QED
        BY <1>3, <2>1, <2>2
<1> QED
    BY <1>4 DEF a, b

(* Requests of the account that are being served.                          *)
Serving == {c \in AccountCalls : pc[c] \in SessionSteps}

(* What a request that began alone, and still is alone, can rely on.       *)
Counted ==
    /\ user.failed = streak % LockAfter
    /\ user.locked => streak > 0 /\ user.failed = 0

SecretShown == user.secret \in proved /\ user.secret # "none"

Enrolled ==
    /\ user.enabled => SecretShown
    /\ \A c \in Enables : pc[c] = "write" => SecretShown

ReadsHold ==
    \A c \in Signins :
        /\ pc[c] = "compare" => seen[c] = user /\ ~user.locked
        /\ pc[c] \in {"clear", "open"} /\ user.enabled => c \in proved

(* Nothing opens a closed account, though a link may still be burned.      *)
Shut ==
    user.closed =>
        /\ \A c \in Openers : session[c] # "live"
        /\ user.password = "none"
        /\ \A k \in Tokens : token[k] = "fresh" => Kind[k] = "link"
        /\ \A c \in Serving : /\ c \in Uses /\ pc[c] \in {"burn", "effect", "account"}
                              /\ Kind[using[c]] = "link"

(* Sessions are of the password of the account, but for those that a reset *)
(* is about to revoke.                                                     *)
UpToDate ==
    (\A c \in Uses : pc[c] \notin {"spoil", "revoke"}) => \A x \in Live : since[x] = user.password

SessionInv ==
    /\ SessionsTypeOK
    /\ ~overlapped =>
        /\ \A c, d \in Serving : c = d
        /\ Counted /\ Enrolled /\ ReadsHold /\ Shut
    /\ failures \in Nat
    /\ Undisturbed => UpToDate

LEMMA SessionInit == Init => SessionInv
<1> SUFFICES ASSUME Init PROVE SessionInv
    OBVIOUS
<1>1. \A c \in AccountCalls : pc[c] = "idle"
    BY SessionsAssumption DEF Init, RequestsInit
<1>2. Serving = {}
    BY <1>1 DEF Serving, SessionSteps
<1>3. /\ user = NewUser /\ seen = [c \in Signins |-> NewUser] /\ token = [k \in Tokens |-> "none"]
      /\ using = [c \in Uses |-> "none"] /\ winners = [k \in Tokens |-> {}]
      /\ session = [c \in Openers |-> "none"] /\ since = [c \in Openers |-> "none"]
      /\ proved = {} /\ streak = 0 /\ failures = 0
    BY DEF Init, SessionsInit, RequestsInit
<1>4. LockAfter \in Nat /\ LockAfter > 0 /\ 0 % LockAfter = 0
    BY SessionsAssumption, ModIs
<1>5. NewUser \in Rows
    BY <1>4 DEF NewUser, Rows, Passwords
<1>6. SessionsTypeOK
    BY <1>1, <1>3, <1>5 DEF SessionsTypeOK, Passwords
<1>7. Counted /\ ~user.enabled /\ ~user.closed
    BY <1>3, <1>4 DEF Counted, NewUser
<1>8. Signins \subseteq AccountCalls /\ Enables \subseteq AccountCalls
    BY DEF AccountCalls, Openers
<1>9. Enrolled /\ ReadsHold /\ Shut
    BY <1>1, <1>7, <1>8 DEF Enrolled, ReadsHold, Shut
<1>10. UpToDate
    BY <1>3 DEF UpToDate, Live
<1> QED
    BY <1>2, <1>3, <1>6, <1>7, <1>9, <1>10 DEF SessionInv

(* A request that begins and one that goes on: if it is alone, no other is *)
(* being served before or after.                                           *)
Turn(c) ==
    /\ \A d \in AccountCalls \ {c} : pc'[d] = pc[d]
    /\ pc'[c] \in SessionSteps \cup Ended
    /\ ~overlapped' => ~overlapped /\ \A d \in AccountCalls \ {c} : pc[d] \notin SessionSteps

LEMMA TurnsTaken ==
    ASSUME SessionInv, Only(AccountCalls), NEW c \in AccountCalls, NEW step \in SessionSteps \cup Ended,
           Begin(c, step) \/ (pc[c] \in SessionSteps /\ Goto(c, step))
    PROVE  Turn(c) /\ pc'[c] = step /\ failures' = failures
<1>1. AccountCalls \subseteq Calls
    BY SessionsAssumption
<1>2. Serving \subseteq Busy
    BY <1>1 DEF Serving, Busy, Started, SessionSteps, Ended
<1>3. pc'[c] = step /\ (\A d \in AccountCalls \ {c} : pc'[d] = pc[d]) /\ failures' = failures
    BY <1>1 DEF Begin, Goto, MovesTo
<1>4. CASE Begin(c, step)
    <2>1. ~overlapped' => ~overlapped /\ Serving = {}
        BY <1>2, <1>4 DEF Begin
    <2> QED
        BY <1>3, <2>1 DEF Turn, Serving
<1>5. CASE pc[c] \in SessionSteps /\ Goto(c, step)
    <2>1. overlapped' = overlapped /\ c \in Serving
        BY <1>5 DEF Goto, Serving
    <2> QED
        BY <1>3, <2>1 DEF Turn, Serving, SessionInv
<1> QED
    BY <1>4, <1>5

LEMMA TurnsKeepTypes ==
    ASSUME SessionInv, NEW c \in AccountCalls, Turn(c)
    PROVE  /\ \A d \in AccountCalls : pc'[d] \in SessionSteps \cup Ended \cup {"idle"}
           /\ ~overlapped' => /\ \A d, e \in Serving' : d = e
                              /\ Serving' \subseteq {c}
<1>1. ~overlapped' => Serving' \subseteq {c}
    BY DEF Turn, Serving
<1> QED
    BY <1>1 DEF Turn, SessionInv, SessionsTypeOK

LEMMA AccountParts ==
    /\ Signins \subseteq AccountCalls /\ Uses \subseteq AccountCalls /\ Openers \subseteq AccountCalls
    /\ Issues \subseteq AccountCalls /\ Setups \subseteq AccountCalls /\ Enables \subseteq AccountCalls
    /\ Disables \subseteq AccountCalls /\ Closes \subseteq AccountCalls /\ LogOuts \subseteq AccountCalls
    /\ AccountCalls \subseteq Calls /\ Signins \cap Uses = {} /\ Signins \subseteq Openers
    /\ Uses \subseteq Openers /\ LockAfter \in Nat /\ LockAfter > 0
    /\ Setups \cap Enables = {} /\ Disables \cap Enables = {} /\ Closes \cap Enables = {}
    BY SessionsAssumption DEF AccountCalls, Openers

(* What a request knows that is still alone when its turn is over.         *)
LEMMA AloneIs ==
    ASSUME SessionInv, NEW c \in AccountCalls, Turn(c), ~overlapped'
    PROVE  /\ ~overlapped /\ Counted /\ Enrolled /\ ReadsHold /\ Shut
           /\ \A d \in AccountCalls \ {c} : pc'[d] = pc[d] /\ pc[d] \notin SessionSteps
           /\ Serving' \subseteq {c}
           /\ \A d \in AccountCalls : d # c => pc'[d] \notin SessionSteps
<1>1. Serving' \subseteq {c}
    BY DEF Turn, Serving
<1> QED
    BY <1>1 DEF Turn, SessionInv

SessionData ==
    /\ user \in Rows
    /\ seen \in [Signins -> Rows]
    /\ token \in [Tokens -> {"none", "fresh", "used", "deleted"}]
    /\ using \in [Uses -> Tokens \cup {"none"}]
    /\ winners \in [Tokens -> SUBSET Uses]
    /\ session \in [Openers -> {"none", "live", "revoked", "deleted"}]
    /\ since \in [Openers -> Passwords]
    /\ proved \subseteq Setups \cup Signins
    /\ streak \in Nat

LEMMA TurnKeeps ==
    ASSUME SessionInv, NEW c \in AccountCalls, Turn(c), failures' \in Nat, SessionData',
           ~overlapped' => Counted' /\ Enrolled' /\ ReadsHold' /\ Shut',
           Undisturbed' => UpToDate'
    PROVE  SessionInv'
<1>1. SessionsTypeOK'
    BY TurnsKeepTypes DEF SessionsTypeOK, SessionData
<1>2. ~overlapped' => \A d, e \in Serving' : d = e
    BY TurnsKeepTypes
<1> QED
    BY <1>1, <1>2 DEF SessionInv

LEMMA SignInTurn ==
    ASSUME SessionInv, Only(AccountCalls), NEW c \in Signins,
           \/ ReadAccount(c) \/ WrongPassword(c) \/ RightPassword(c)
           \/ SecondRequest(c) \/ RightCode(c) \/ WrongCode(c)
    PROVE  SessionInv'
<1>0. /\ c \in AccountCalls /\ Signins \subseteq AccountCalls /\ Uses \subseteq AccountCalls
      /\ Enables \subseteq AccountCalls /\ c \in Openers /\ c \notin Uses
      /\ LockAfter \in Nat /\ LockAfter > 0
    BY SessionsAssumption DEF AccountCalls, Openers
<1> USE <1>0
<1>1. SessionData
    BY DEF SessionInv, SessionsTypeOK, SessionData
<1>2. Turn(c) /\ failures' = failures /\ UNCHANGED <<tokenVars, session, since>>
    <2>1. \E step \in SessionSteps \cup Ended :
              Begin(c, step) \/ (pc[c] \in SessionSteps /\ Goto(c, step))
        BY DEF ReadAccount, WrongPassword, RightPassword, SecondRequest, RightCode, WrongCode,
               StepAfterPassword, SessionSteps, Ended
    <2>2. UNCHANGED <<tokenVars, session, since>>
        BY DEF ReadAccount, WrongPassword, RightPassword, SecondRequest, RightCode, WrongCode,
               sessionVars
    <2> QED
        BY <2>1, <2>2, TurnsTaken
<1>3. /\ SessionData' /\ user'.password = user.password /\ user'.closed = user.closed
      /\ user'.enabled = user.enabled /\ user'.secret = user.secret /\ proved \subseteq proved'
    <2> DEFINE n == NextCount(c)
    <2>1. CASE WrongPassword(c)
        <3> DEFINE lock == n >= LockAfter
        <3>1. n \in Nat
            BY <1>1 DEF SessionData, NextCount, Rows
        <3>2. /\ user' = [user EXCEPT !.failed = IF lock THEN 0 ELSE n,
                                      !.locked = lock \/ seen[c].locked]
              /\ UNCHANGED <<seen, proved>> /\ streak' = streak + 1
            BY <2>1 DEF WrongPassword
        <3>3. (IF lock THEN 0 ELSE n) \in 0..LockAfter
            BY <3>1
        <3>4. (lock \/ seen[c].locked) \in BOOLEAN
            BY <1>1, <3>1 DEF SessionData, Rows
        <3> HIDE DEF lock, n
        <3>5. user' \in Rows
            BY <1>1, <3>2, <3>3, <3>4 DEF SessionData, Rows
        <3> QED
            BY <1>1, <1>2, <3>2, <3>5 DEF SessionData, tokenVars, Rows
    <2>2. CASE ~WrongPassword(c)
        <3>1. /\ user' = user /\ streak' = streak
              /\ seen' = seen \/ seen' = [seen EXCEPT ![c] = user]
              /\ proved' = proved \/ proved' = proved \cup {c}
            BY <2>2 DEF ReadAccount, RightPassword, SecondRequest, RightCode, WrongCode, sessionVars
        <3> QED
            BY <1>1, <1>2, <3>1 DEF SessionData, tokenVars
    <2> QED
        BY <2>1, <2>2
<1>4. ASSUME ~overlapped' PROVE Counted' /\ Enrolled' /\ ReadsHold' /\ Shut'
    <2>1. /\ ~overlapped /\ Counted /\ Enrolled /\ ReadsHold /\ Shut
          /\ \A d \in AccountCalls \ {c} : pc'[d] = pc[d] /\ pc[d] \notin SessionSteps
          /\ Serving' \subseteq {c}
        BY <1>2, <1>4, AloneIs
    <2>2. /\ pc'[c] \in {"compare", "refused", "totp", "second", "clear"}
          /\ c \in Calls
        BY <2>1, SessionsAssumption
           DEF ReadAccount, WrongPassword, RightPassword, SecondRequest, RightCode, WrongCode,
               StepAfterPassword, Begin, Goto, MovesTo
    <2>3. \A d \in Enables : pc'[d] # "write"
        BY <2>1, <2>2 DEF SessionSteps
    <2>4. Enrolled'
        BY <1>3, <2>1, <2>3 DEF Enrolled, SecretShown
    <2>5. Counted'
        <3>1. CASE WrongPassword(c)
            <4> DEFINE n == NextCount(c)
                       lock == n >= LockAfter
            <4>1. /\ seen[c] = user /\ ~user.locked /\ n = user.failed + 1
                  /\ user.failed = streak % LockAfter
                BY <2>1, <3>1 DEF ReadsHold, WrongPassword, NextCount, Counted
            <4>2. /\ user' = [user EXCEPT !.failed = IF lock THEN 0 ELSE n,
                                          !.locked = lock \/ seen[c].locked]
                  /\ streak' = streak + 1
                BY <3>1 DEF WrongPassword
            <4>3. (streak + 1) % LockAfter = IF lock THEN 0 ELSE n
                BY <1>1, <4>1, ModNext DEF SessionData
            <4> HIDE DEF n
            <4>4. user'.failed = (IF lock THEN 0 ELSE n) /\ user'.locked = lock
                BY <1>1, <4>1, <4>2 DEF SessionData, Rows
            <4> HIDE DEF lock
            <4>5. streak' > 0
                BY <1>1, <4>2 DEF SessionData
            <4>6. user'.failed = streak' % LockAfter
                BY <4>2, <4>3, <4>4
            <4>7. lock => user'.failed = 0
                BY <4>4
            <4> QED
                BY <4>4, <4>5, <4>6, <4>7 DEF Counted
        <3>2. CASE ~WrongPassword(c)
            BY <2>1, <3>2 DEF ReadAccount, RightPassword, SecondRequest, RightCode, WrongCode,
                sessionVars, Counted
        <3> QED
            BY <3>1, <3>2
    <2>6. ReadsHold'
        <3>1. \A d \in Signins : d # c => pc'[d] \notin {"compare", "clear", "open"}
            BY <2>1 DEF SessionSteps
        <3>2. pc'[c] = "compare" => seen'[c] = user' /\ ~user'.locked
            BY <1>1, <2>2 DEF ReadAccount, WrongPassword, RightPassword, SecondRequest, RightCode,
                WrongCode, StepAfterPassword, Begin, Goto, MovesTo, SessionData
        <3>3. pc'[c] \in {"clear", "open"} /\ user'.enabled => c \in proved'
            <4>1. CASE RightPassword(c)
                BY <1>3, <2>1, <2>2, <4>1
                   DEF RightPassword, StepAfterPassword, Goto, MovesTo, ReadsHold
            <4>2. CASE RightCode(c)
                BY <1>3, <2>1, <4>2 DEF RightCode, Enrolled, SecretShown
            <4>3. CASE ~RightPassword(c) /\ ~RightCode(c)
                BY <2>2, <4>3 DEF ReadAccount, WrongPassword, SecondRequest, WrongCode, Begin, Goto,
                    MovesTo
            <4> QED
                BY <4>1, <4>2, <4>3
        <3> QED
            BY <3>1, <3>2, <3>3 DEF ReadsHold
    <2>7. Shut'
        <3> SUFFICES ASSUME user'.closed PROVE Shut'
            BY DEF Shut
        <3>1. user.closed /\ pc[c] \notin SessionSteps
            BY <1>3, <2>1 DEF Shut, Serving
        <3>2. ReadAccount(c)
            BY <3>1 DEF WrongPassword, RightPassword, SecondRequest, RightCode, WrongCode, SessionSteps
        <3>3. pc'[c] = "refused"
            BY <2>2, <3>1, <3>2 DEF ReadAccount, Begin, MovesTo
        <3>4. Serving' = {}
            BY <2>1, <3>3 DEF Serving, SessionSteps
        <3> QED
            BY <1>2, <1>3, <2>1, <3>1, <3>4 DEF Shut, tokenVars
    <2> QED
        BY <2>4, <2>5, <2>6, <2>7
<1>5. Undisturbed' => UpToDate'
    <2> SUFFICES ASSUME Undisturbed' PROVE UpToDate'
        OBVIOUS
    <2>1. Undisturbed
        BY <1>2 DEF Undisturbed, Turn
    <2>2. \A d \in Uses : pc'[d] = pc[d]
        BY <1>2 DEF Turn
    <2>3. Live' = Live
        BY <1>2 DEF Live, IsToken, tokenVars
    <2> QED
        BY <1>2, <1>3, <2>1, <2>2, <2>3 DEF UpToDate, SessionInv
<1> QED
    BY <1>2, <1>3, <1>4, <1>5, TurnKeeps DEF SessionInv
LEMMA ClearTurn ==
    ASSUME SessionInv, TokenInv, Only(AccountCalls), NEW c \in Openers, ClearLockout(c)
    PROVE  SessionInv'
<1> USE AccountParts
<1>1. SessionData
    BY DEF SessionInv, SessionsTypeOK, SessionData
<1>2. Turn(c) /\ failures' = failures /\ pc[c] = "clear" /\ pc'[c] = "open"
    <2>1. \E step \in SessionSteps \cup Ended :
              Begin(c, step) \/ (pc[c] \in SessionSteps /\ Goto(c, step))
        BY DEF ClearLockout, SessionSteps, Ended
    <2>2. pc[c] = "clear" /\ pc'[c] = "open"
        BY DEF ClearLockout, Begin, Goto, MovesTo
    <2> QED
        BY <2>1, <2>2, TurnsTaken
<1>3. SessionData'
    <2>1. user' = [user EXCEPT !.failed = 0, !.locked = FALSE] /\ 0 \in 0..LockAfter
        BY DEF ClearLockout
    <2>2. user' \in Rows
        BY <1>1, <2>1 DEF SessionData, Rows
    <2> QED
        BY <1>1, <2>2 DEF ClearLockout, SessionData, tokenVars
<1>4. ASSUME ~overlapped' PROVE Counted' /\ Enrolled' /\ ReadsHold' /\ Shut'
    <2>1. /\ ~overlapped /\ Counted /\ Enrolled /\ ReadsHold /\ Shut
          /\ \A d \in AccountCalls \ {c} : pc'[d] = pc[d] /\ pc[d] \notin SessionSteps
          /\ Serving' \subseteq {c}
        BY <1>2, <1>4, AloneIs
    <2>2. Counted'
        BY <1>1, <2>1 DEF ClearLockout, sessionVars, tokenVars, Counted, SessionData, Rows
    <2>3. Enrolled'
        BY <1>1, <1>2, <2>1 DEF ClearLockout, sessionVars, tokenVars, Enrolled, SecretShown, SessionSteps, SessionData, Rows
    <2>4. ReadsHold'
        BY <1>1, <1>2, <2>1 DEF ClearLockout, sessionVars, tokenVars, ReadsHold, SessionSteps, SessionData, Rows
    <2>5. Shut'
        BY <1>1, <1>2, <2>1 DEF ClearLockout, sessionVars, tokenVars, Shut, Serving, SessionSteps, SessionData, Rows
    <2> QED
        BY <2>2, <2>3, <2>4, <2>5
<1>5. Undisturbed' => UpToDate'
    <2> SUFFICES ASSUME Undisturbed' PROVE UpToDate'
        OBVIOUS
    <2>1. Undisturbed /\ UpToDate /\ \A d \in AccountCalls \ {c} : pc'[d] = pc[d]
        BY <1>2 DEF Undisturbed, Turn, SessionInv
    <2> QED
        BY <1>1, <1>2, <2>1 DEF ClearLockout, sessionVars, tokenVars, UpToDate, Live, IsToken, SessionData, Rows
<1> QED
    BY <1>2, <1>3, <1>4, <1>5, TurnKeeps DEF SessionInv

LEMMA OpenTurn ==
    ASSUME SessionInv, TokenInv, Only(AccountCalls), NEW c \in Openers, OpenSession(c)
    PROVE  SessionInv'
<1> USE AccountParts
<1>1. SessionData
    BY DEF SessionInv, SessionsTypeOK, SessionData
<1>2. Turn(c) /\ failures' = failures /\ pc[c] = "open" /\ pc'[c] = "done"
    <2>1. \E step \in SessionSteps \cup Ended :
              Begin(c, step) \/ (pc[c] \in SessionSteps /\ Goto(c, step))
        BY DEF OpenSession, SessionSteps, Ended
    <2>2. pc[c] = "open" /\ pc'[c] = "done"
        BY DEF OpenSession, Begin, Goto, MovesTo
    <2> QED
        BY <2>1, <2>2, TurnsTaken
<1>3. SessionData'
    <2>1. user.password \in Passwords
        BY <1>1 DEF SessionData, Rows
    <2>2. session' \in [Openers -> {"none", "live", "revoked", "deleted"}] /\ since' \in [Openers -> Passwords]
        BY <1>1, <2>1 DEF OpenSession, SessionData
    <2> QED
        BY <1>1, <2>2 DEF OpenSession, SessionData, tokenVars
<1>4. ASSUME ~overlapped' PROVE Counted' /\ Enrolled' /\ ReadsHold' /\ Shut'
    <2>1. /\ ~overlapped /\ Counted /\ Enrolled /\ ReadsHold /\ Shut
          /\ \A d \in AccountCalls \ {c} : pc'[d] = pc[d] /\ pc[d] \notin SessionSteps
          /\ Serving' \subseteq {c}
        BY <1>2, <1>4, AloneIs
    <2>2. Counted'
        BY <1>1, <2>1 DEF OpenSession, sessionVars, tokenVars, Counted, SessionData, Rows
    <2>3. Enrolled'
        BY <1>1, <1>2, <2>1 DEF OpenSession, sessionVars, tokenVars, Enrolled, SecretShown, SessionSteps, SessionData, Rows
    <2>4. ReadsHold'
        BY <1>1, <1>2, <2>1 DEF OpenSession, sessionVars, tokenVars, ReadsHold, SessionSteps, SessionData, Rows
    <2>5. Shut'
        BY <1>1, <1>2, <2>1 DEF OpenSession, sessionVars, tokenVars, Shut, Serving, SessionSteps, SessionData, Rows
    <2> QED
        BY <2>2, <2>3, <2>4, <2>5
<1>5. Undisturbed' => UpToDate'
    <2> SUFFICES ASSUME Undisturbed' PROVE UpToDate'
        OBVIOUS
    <2>1. Undisturbed /\ UpToDate /\ \A d \in AccountCalls \ {c} : pc'[d] = pc[d]
        BY <1>2 DEF Undisturbed, Turn, SessionInv
    <2> QED
        BY <1>1, <1>2, <2>1 DEF OpenSession, sessionVars, tokenVars, UpToDate, Live, IsToken, SessionData, Rows
<1> QED
    BY <1>2, <1>3, <1>4, <1>5, TurnKeeps DEF SessionInv

LEMMA IssueTurn ==
    ASSUME SessionInv, TokenInv, Only(AccountCalls), NEW c \in Issues, NEW k \in Tokens, IssueToken(c, k)
    PROVE  SessionInv'
<1> USE AccountParts
<1>1. SessionData
    BY DEF SessionInv, SessionsTypeOK, SessionData
<1>2. Turn(c) /\ failures' = failures /\ pc[c] = "idle" /\ pc'[c] = "done"
    <2>1. \E step \in SessionSteps \cup Ended :
              Begin(c, step) \/ (pc[c] \in SessionSteps /\ Goto(c, step))
        BY DEF IssueToken, SessionSteps, Ended
    <2>2. pc[c] = "idle" /\ pc'[c] = "done"
        BY DEF IssueToken, Begin, Goto, MovesTo
    <2> QED
        BY <2>1, <2>2, TurnsTaken
<1>3. SessionData'
    BY <1>1 DEF IssueToken, SessionData, sessionVars, tokenVars
<1>4. ASSUME ~overlapped' PROVE Counted' /\ Enrolled' /\ ReadsHold' /\ Shut'
    <2>1. /\ ~overlapped /\ Counted /\ Enrolled /\ ReadsHold /\ Shut
          /\ \A d \in AccountCalls \ {c} : pc'[d] = pc[d] /\ pc[d] \notin SessionSteps
          /\ Serving' \subseteq {c}
        BY <1>2, <1>4, AloneIs
    <2>2. Counted'
        BY <1>1, <2>1 DEF IssueToken, sessionVars, tokenVars, Counted, SessionData, Rows
    <2>3. Enrolled'
        BY <1>1, <1>2, <2>1 DEF IssueToken, sessionVars, tokenVars, Enrolled, SecretShown, SessionSteps, SessionData, Rows
    <2>4. ReadsHold'
        BY <1>1, <1>2, <2>1 DEF IssueToken, sessionVars, tokenVars, ReadsHold, SessionSteps, SessionData, Rows
    <2>5. Shut'
        BY <1>1, <1>2, <2>1 DEF IssueToken, sessionVars, tokenVars, Shut, Serving, SessionSteps, SessionData, Rows
    <2> QED
        BY <2>2, <2>3, <2>4, <2>5
<1>5. Undisturbed' => UpToDate'
    <2> SUFFICES ASSUME Undisturbed' PROVE UpToDate'
        OBVIOUS
    <2>1. Undisturbed /\ UpToDate /\ \A d \in AccountCalls \ {c} : pc'[d] = pc[d]
        BY <1>2 DEF Undisturbed, Turn, SessionInv
    <2> QED
        BY <1>1, <1>2, <2>1 DEF IssueToken, sessionVars, tokenVars, UpToDate, Live, IsToken, SessionData, Rows
<1> QED
    BY <1>2, <1>3, <1>4, <1>5, TurnKeeps DEF SessionInv

LEMMA ReadTurn ==
    ASSUME SessionInv, TokenInv, Only(AccountCalls), NEW c \in Uses, NEW k \in Tokens, ReadToken(c, k)
    PROVE  SessionInv'
<1> USE AccountParts
<1>1. SessionData
    BY DEF SessionInv, SessionsTypeOK, SessionData
<1>2. Turn(c) /\ failures' = failures /\ pc[c] = "idle" /\ pc'[c] \in {"burn", "refused"}
    <2>1. \E step \in SessionSteps \cup Ended :
              Begin(c, step) \/ (pc[c] \in SessionSteps /\ Goto(c, step))
        BY DEF ReadToken, SessionSteps, Ended
    <2>2. pc[c] = "idle" /\ pc'[c] \in {"burn", "refused"}
        BY DEF ReadToken, Begin, Goto, MovesTo
    <2> QED
        BY <2>1, <2>2, TurnsTaken
<1>3. SessionData'
    BY <1>1 DEF ReadToken, SessionData, sessionVars, tokenVars
<1>4. ASSUME ~overlapped' PROVE Counted' /\ Enrolled' /\ ReadsHold' /\ Shut'
    <2>1. /\ ~overlapped /\ Counted /\ Enrolled /\ ReadsHold /\ Shut
          /\ \A d \in AccountCalls \ {c} : pc'[d] = pc[d] /\ pc[d] \notin SessionSteps
          /\ Serving' \subseteq {c}
        BY <1>2, <1>4, AloneIs
    <2>2. Counted'
        BY <1>1, <2>1 DEF ReadToken, sessionVars, tokenVars, Counted, SessionData, Rows
    <2>3. Enrolled'
        BY <1>1, <1>2, <2>1 DEF ReadToken, sessionVars, tokenVars, Enrolled, SecretShown, SessionSteps, SessionData, Rows
    <2>4. ReadsHold'
        BY <1>1, <1>2, <2>1 DEF ReadToken, sessionVars, tokenVars, ReadsHold, SessionSteps, SessionData, Rows
    <2>5. Shut'
        <3>1. UNCHANGED <<user, token, session>>
            BY DEF ReadToken
        <3>2. pc'[c] = "burn" => token[k] = "fresh"
            BY DEF ReadToken, Begin, MovesTo
        <3>3. using'[c] = k
            BY <1>1 DEF ReadToken, SessionData
        <3> QED
            BY <1>2, <2>1, <3>1, <3>2, <3>3 DEF Shut, Serving, SessionSteps
    <2> QED
        BY <2>2, <2>3, <2>4, <2>5
<1>5. Undisturbed' => UpToDate'
    <2> SUFFICES ASSUME Undisturbed' PROVE UpToDate'
        OBVIOUS
    <2>1. Undisturbed /\ UpToDate /\ \A d \in AccountCalls \ {c} : pc'[d] = pc[d]
        BY <1>2 DEF Undisturbed, Turn, SessionInv
    <2>2. session[c] = "none"
        BY <1>2 DEF TokenInv
    <2>3. Live' = Live
        BY <1>1, <2>2 DEF Live, IsToken, ReadToken, SessionData
    <2> QED
        BY <1>2, <2>1, <2>3 DEF ReadToken, UpToDate
<1> QED
    BY <1>2, <1>3, <1>4, <1>5, TurnKeeps DEF SessionInv

LEMMA BurnTurn ==
    ASSUME SessionInv, TokenInv, Only(AccountCalls), NEW c \in Uses, BurnToken(c)
    PROVE  SessionInv'
<1> USE AccountParts
<1>1. SessionData
    BY DEF SessionInv, SessionsTypeOK, SessionData
<1>2. Turn(c) /\ failures' = failures /\ pc[c] = "burn" /\ pc'[c] \in {"effect", "refused"}
    <2>1. \E step \in SessionSteps \cup Ended :
              Begin(c, step) \/ (pc[c] \in SessionSteps /\ Goto(c, step))
        BY DEF BurnToken, SessionSteps, Ended
    <2>2. pc[c] = "burn" /\ pc'[c] \in {"effect", "refused"}
        BY DEF BurnToken, Begin, Goto, MovesTo
    <2> QED
        BY <2>1, <2>2, TurnsTaken
<1>3. SessionData'
    BY <1>1 DEF BurnToken, SessionData, sessionVars, tokenVars
<1>4. ASSUME ~overlapped' PROVE Counted' /\ Enrolled' /\ ReadsHold' /\ Shut'
    <2>1. /\ ~overlapped /\ Counted /\ Enrolled /\ ReadsHold /\ Shut
          /\ \A d \in AccountCalls \ {c} : pc'[d] = pc[d] /\ pc[d] \notin SessionSteps
          /\ Serving' \subseteq {c}
        BY <1>2, <1>4, AloneIs
    <2>2. Counted'
        BY <1>1, <2>1 DEF BurnToken, sessionVars, tokenVars, Counted, SessionData, Rows
    <2>3. Enrolled'
        BY <1>1, <1>2, <2>1 DEF BurnToken, sessionVars, tokenVars, Enrolled, SecretShown, SessionSteps, SessionData, Rows
    <2>4. ReadsHold'
        BY <1>1, <1>2, <2>1 DEF BurnToken, sessionVars, tokenVars, ReadsHold, SessionSteps, SessionData, Rows
    <2>5. Shut'
        BY <1>1, <1>2, <2>1 DEF BurnToken, sessionVars, tokenVars, Shut, Serving, SessionSteps, SessionData, Rows
    <2> QED
        BY <2>2, <2>3, <2>4, <2>5
<1>5. Undisturbed' => UpToDate'
    <2> SUFFICES ASSUME Undisturbed' PROVE UpToDate'
        OBVIOUS
    <2>1. Undisturbed /\ UpToDate /\ \A d \in AccountCalls \ {c} : pc'[d] = pc[d]
        BY <1>2 DEF Undisturbed, Turn, SessionInv
    <2> QED
        BY <1>1, <1>2, <2>1 DEF BurnToken, sessionVars, tokenVars, UpToDate, Live, IsToken, SessionData, Rows
<1> QED
    BY <1>2, <1>3, <1>4, <1>5, TurnKeeps DEF SessionInv

LEMMA WriteTurn ==
    ASSUME SessionInv, TokenInv, Only(AccountCalls), NEW c \in Uses, WriteUser(c)
    PROVE  SessionInv'
<1> USE AccountParts
<1>1. SessionData
    BY DEF SessionInv, SessionsTypeOK, SessionData
<1>2. Turn(c) /\ failures' = failures /\ pc[c] = "effect" /\ pc'[c] \in {"done", "spoil", "account"}
      /\ (IsToken(c, "reset") => pc'[c] = "spoil") /\ (IsToken(c, "link") => pc'[c] = "account")
    <2>0. /\ using[c] \in Tokens /\ ~IsToken(c, "code")
          /\ IsToken(c, "verify") \/ IsToken(c, "reset") \/ IsToken(c, "link")
          /\ pc[c] = "effect" /\ c \in Calls
        BY SessionsAssumption DEF TokenInv, AfterBurn, WriteUser, IsToken
    <2>4. \/ IsToken(c, "verify") /\ Goto(c, "done") /\ ~IsToken(c, "reset") /\ ~IsToken(c, "link")
          \/ IsToken(c, "reset") /\ Goto(c, "spoil") /\ ~IsToken(c, "link")
          \/ IsToken(c, "link") /\ Goto(c, "account") /\ ~IsToken(c, "reset")
        BY <2>0 DEF WriteUser, IsToken
    <2>1. \E step \in SessionSteps \cup Ended :
              Begin(c, step) \/ (pc[c] \in SessionSteps /\ Goto(c, step))
        BY <2>0, <2>4 DEF SessionSteps, Ended
    <2>2. /\ pc'[c] \in {"done", "spoil", "account"}
          /\ (IsToken(c, "reset") => pc'[c] = "spoil") /\ (IsToken(c, "link") => pc'[c] = "account")
        BY <2>0, <2>4 DEF Goto, MovesTo
    <2> QED
        BY <2>0, <2>1, <2>2, TurnsTaken
<1>3. SessionData'
    <2>1. user' \in Rows
        BY <1>1 DEF WriteUser, SessionData, Rows, Passwords
    <2> QED
        BY <1>1, <2>1 DEF WriteUser, SessionData, tokenVars
<1>4. ASSUME ~overlapped' PROVE Counted' /\ Enrolled' /\ ReadsHold' /\ Shut'
    <2>1. /\ ~overlapped /\ Counted /\ Enrolled /\ ReadsHold /\ Shut
          /\ \A d \in AccountCalls \ {c} : pc'[d] = pc[d] /\ pc[d] \notin SessionSteps
          /\ Serving' \subseteq {c}
        BY <1>2, <1>4, AloneIs
    <2>2. Counted'
        BY <1>1, <2>1 DEF WriteUser, sessionVars, tokenVars, Counted, SessionData, Rows
    <2>3. Enrolled'
        BY <1>1, <1>2, <2>1 DEF WriteUser, sessionVars, tokenVars, Enrolled, SecretShown, SessionSteps, SessionData, Rows
    <2>4. ReadsHold'
        BY <1>1, <1>2, <2>1 DEF WriteUser, sessionVars, tokenVars, ReadsHold, SessionSteps, SessionData, Rows
    <2>5. Shut'
        <3> SUFFICES ASSUME user'.closed PROVE Shut'
            BY DEF Shut
        <3>1. user.closed
            BY <1>1 DEF WriteUser, SessionData, Rows
        <3>2. c \in Serving /\ Kind[using[c]] = "link" /\ using[c] \in Tokens
            BY <1>2, <2>1, <3>1 DEF Shut, Serving, SessionSteps, TokenInv, AfterBurn
        <3>3. IsToken(c, "link") /\ ~IsToken(c, "reset")
            BY <3>2, SessionsAssumption DEF IsToken
        <3>4. user'.password = user.password /\ pc'[c] = "account"
            BY <1>1, <1>2, <3>3 DEF WriteUser, SessionData, Rows
        <3> QED
            BY <2>1, <3>1, <3>2, <3>4 DEF WriteUser, Shut, tokenVars
    <2> QED
        BY <2>2, <2>3, <2>4, <2>5
<1>5. Undisturbed' => UpToDate'
    <2> SUFFICES ASSUME Undisturbed' PROVE UpToDate'
        OBVIOUS
    <2>1. Undisturbed /\ UpToDate /\ \A d \in AccountCalls \ {c} : pc'[d] = pc[d]
        BY <1>2 DEF Undisturbed, Turn, SessionInv
    <2>2. Live' = Live /\ since' = since
        BY DEF Live, IsToken, WriteUser, tokenVars
    <2>3. CASE IsToken(c, "reset")
        BY <1>2, <2>3 DEF UpToDate
    <2>4. CASE ~IsToken(c, "reset")
        <3>1. user'.password = user.password
            BY <1>1, <2>4 DEF WriteUser, SessionData, Rows
        <3> QED
            BY <1>2, <2>1, <2>2, <3>1 DEF UpToDate
    <2> QED
        BY <2>3, <2>4
<1> QED
    BY <1>2, <1>3, <1>4, <1>5, TurnKeeps DEF SessionInv

LEMMA GrantTurn ==
    ASSUME SessionInv, TokenInv, Only(AccountCalls), NEW c \in Uses, GrantAccess(c)
    PROVE  SessionInv'
<1> USE AccountParts
<1>1. SessionData
    BY DEF SessionInv, SessionsTypeOK, SessionData
<1>2. Turn(c) /\ failures' = failures /\ pc[c] = "effect" /\ pc'[c] = "done"
    <2>1. \E step \in SessionSteps \cup Ended :
              Begin(c, step) \/ (pc[c] \in SessionSteps /\ Goto(c, step))
        BY DEF GrantAccess, SessionSteps, Ended
    <2>2. pc[c] = "effect" /\ pc'[c] = "done"
        BY DEF GrantAccess, Begin, Goto, MovesTo
    <2> QED
        BY <2>1, <2>2, TurnsTaken
<1>3. SessionData'
    <2>1. user.password \in Passwords
        BY <1>1 DEF SessionData, Rows
    <2>2. session' \in [Openers -> {"none", "live", "revoked", "deleted"}] /\ since' \in [Openers -> Passwords]
        BY <1>1, <2>1 DEF GrantAccess, SessionData
    <2> QED
        BY <1>1, <2>2 DEF GrantAccess, SessionData, tokenVars
<1>4. ASSUME ~overlapped' PROVE Counted' /\ Enrolled' /\ ReadsHold' /\ Shut'
    <2>1. /\ ~overlapped /\ Counted /\ Enrolled /\ ReadsHold /\ Shut
          /\ \A d \in AccountCalls \ {c} : pc'[d] = pc[d] /\ pc[d] \notin SessionSteps
          /\ Serving' \subseteq {c}
        BY <1>2, <1>4, AloneIs
    <2>2. Counted'
        BY <1>1, <2>1 DEF GrantAccess, sessionVars, tokenVars, Counted, SessionData, Rows
    <2>3. Enrolled'
        BY <1>1, <1>2, <2>1 DEF GrantAccess, sessionVars, tokenVars, Enrolled, SecretShown, SessionSteps, SessionData, Rows
    <2>4. ReadsHold'
        BY <1>1, <1>2, <2>1 DEF GrantAccess, sessionVars, tokenVars, ReadsHold, SessionSteps, SessionData, Rows
    <2>5. Shut'
        <3>1. c \in Serving /\ IsToken(c, "code")
            BY <1>2 DEF GrantAccess, Serving, SessionSteps
        <3>2. ~user.closed
            BY <2>1, <3>1 DEF Shut, IsToken
        <3> QED
            BY <3>2 DEF GrantAccess, Shut
    <2> QED
        BY <2>2, <2>3, <2>4, <2>5
<1>5. Undisturbed' => UpToDate'
    <2> SUFFICES ASSUME Undisturbed' PROVE UpToDate'
        OBVIOUS
    <2>1. Undisturbed /\ UpToDate /\ \A d \in AccountCalls \ {c} : pc'[d] = pc[d]
        BY <1>2 DEF Undisturbed, Turn, SessionInv
    <2> QED
        BY <1>1, <1>2, <2>1 DEF GrantAccess, sessionVars, tokenVars, UpToDate, Live, IsToken, SessionData, Rows
<1> QED
    BY <1>2, <1>3, <1>4, <1>5, TurnKeeps DEF SessionInv

LEMMA SpoilTurn ==
    ASSUME SessionInv, TokenInv, Only(AccountCalls), NEW c \in Uses, SpoilResets(c)
    PROVE  SessionInv'
<1> USE AccountParts
<1>1. SessionData
    BY DEF SessionInv, SessionsTypeOK, SessionData
<1>2. Turn(c) /\ failures' = failures /\ pc[c] = "spoil" /\ pc'[c] = "revoke"
    <2>1. \E step \in SessionSteps \cup Ended :
              Begin(c, step) \/ (pc[c] \in SessionSteps /\ Goto(c, step))
        BY DEF SpoilResets, SessionSteps, Ended
    <2>2. pc[c] = "spoil" /\ pc'[c] = "revoke"
        BY DEF SpoilResets, Begin, Goto, MovesTo
    <2> QED
        BY <2>1, <2>2, TurnsTaken
<1>3. SessionData'
    BY <1>1 DEF SpoilResets, SessionData, sessionVars, tokenVars
<1>4. ASSUME ~overlapped' PROVE Counted' /\ Enrolled' /\ ReadsHold' /\ Shut'
    <2>1. /\ ~overlapped /\ Counted /\ Enrolled /\ ReadsHold /\ Shut
          /\ \A d \in AccountCalls \ {c} : pc'[d] = pc[d] /\ pc[d] \notin SessionSteps
          /\ Serving' \subseteq {c}
        BY <1>2, <1>4, AloneIs
    <2>2. Counted'
        BY <1>1, <2>1 DEF SpoilResets, sessionVars, tokenVars, Counted, SessionData, Rows
    <2>3. Enrolled'
        BY <1>1, <1>2, <2>1 DEF SpoilResets, sessionVars, tokenVars, Enrolled, SecretShown, SessionSteps, SessionData, Rows
    <2>4. ReadsHold'
        BY <1>1, <1>2, <2>1 DEF SpoilResets, sessionVars, tokenVars, ReadsHold, SessionSteps, SessionData, Rows
    <2>5. Shut'
        BY <1>1, <1>2, <2>1 DEF SpoilResets, sessionVars, tokenVars, Shut, Serving, SessionSteps, SessionData, Rows
    <2> QED
        BY <2>2, <2>3, <2>4, <2>5
<1>5. Undisturbed' => UpToDate'
    <2> SUFFICES ASSUME Undisturbed' PROVE UpToDate'
        OBVIOUS
    <2>1. Undisturbed /\ UpToDate /\ \A d \in AccountCalls \ {c} : pc'[d] = pc[d]
        BY <1>2 DEF Undisturbed, Turn, SessionInv
    <2> QED
        BY <1>1, <1>2, <2>1 DEF SpoilResets, sessionVars, tokenVars, UpToDate, Live, IsToken, SessionData, Rows
<1> QED
    BY <1>2, <1>3, <1>4, <1>5, TurnKeeps DEF SessionInv

LEMMA RevokeTurn ==
    ASSUME SessionInv, TokenInv, Only(AccountCalls), NEW c \in Uses, RevokeSessions(c)
    PROVE  SessionInv'
<1> USE AccountParts
<1>1. SessionData
    BY DEF SessionInv, SessionsTypeOK, SessionData
<1>2. Turn(c) /\ failures' = failures /\ pc[c] = "revoke" /\ pc'[c] = "done"
    <2>1. \E step \in SessionSteps \cup Ended :
              Begin(c, step) \/ (pc[c] \in SessionSteps /\ Goto(c, step))
        BY DEF RevokeSessions, SessionSteps, Ended
    <2>2. pc[c] = "revoke" /\ pc'[c] = "done"
        BY DEF RevokeSessions, Begin, Goto, MovesTo
    <2> QED
        BY <2>1, <2>2, TurnsTaken
<1>3. SessionData'
    BY <1>1 DEF RevokeSessions, SessionData, sessionVars, tokenVars
<1>4. ASSUME ~overlapped' PROVE Counted' /\ Enrolled' /\ ReadsHold' /\ Shut'
    <2>1. /\ ~overlapped /\ Counted /\ Enrolled /\ ReadsHold /\ Shut
          /\ \A d \in AccountCalls \ {c} : pc'[d] = pc[d] /\ pc[d] \notin SessionSteps
          /\ Serving' \subseteq {c}
        BY <1>2, <1>4, AloneIs
    <2>2. Counted'
        BY <1>1, <2>1 DEF RevokeSessions, sessionVars, tokenVars, Counted, SessionData, Rows
    <2>3. Enrolled'
        BY <1>1, <1>2, <2>1 DEF RevokeSessions, sessionVars, tokenVars, Enrolled, SecretShown, SessionSteps, SessionData, Rows
    <2>4. ReadsHold'
        BY <1>1, <1>2, <2>1 DEF RevokeSessions, sessionVars, tokenVars, ReadsHold, SessionSteps, SessionData, Rows
    <2>5. Shut'
        BY <1>1, <1>2, <2>1 DEF RevokeSessions, sessionVars, tokenVars, Shut, Serving, SessionSteps, SessionData, Rows
    <2> QED
        BY <2>2, <2>3, <2>4, <2>5
<1>5. Undisturbed' => UpToDate'
    <2> SUFFICES ASSUME Undisturbed' PROVE UpToDate'
        OBVIOUS
    <2>1. Undisturbed /\ UpToDate /\ \A d \in AccountCalls \ {c} : pc'[d] = pc[d]
        BY <1>2 DEF Undisturbed, Turn, SessionInv
    <2>2. Live' = {}
        BY <1>1 DEF Live, IsToken, RevokeSessions, RevokedByReset, tokenVars, SessionData
    <2> QED
        BY <2>2 DEF UpToDate
<1> QED
    BY <1>2, <1>3, <1>4, <1>5, TurnKeeps DEF SessionInv

LEMMA LinkTurn ==
    ASSUME SessionInv, TokenInv, Only(AccountCalls), NEW c \in Uses, ReadAccountOfLink(c)
    PROVE  SessionInv'
<1> USE AccountParts
<1>1. SessionData
    BY DEF SessionInv, SessionsTypeOK, SessionData
<1>2. Turn(c) /\ failures' = failures /\ pc[c] = "account" /\ pc'[c] \in {"clear", "refused"}
    <2>1. \E step \in SessionSteps \cup Ended :
              Begin(c, step) \/ (pc[c] \in SessionSteps /\ Goto(c, step))
        BY DEF ReadAccountOfLink, SessionSteps, Ended
    <2>2. pc[c] = "account" /\ pc'[c] \in {"clear", "refused"}
        BY DEF ReadAccountOfLink, Begin, Goto, MovesTo
    <2> QED
        BY <2>1, <2>2, TurnsTaken
<1>3. SessionData'
    BY <1>1 DEF ReadAccountOfLink, SessionData, sessionVars, tokenVars
<1>4. ASSUME ~overlapped' PROVE Counted' /\ Enrolled' /\ ReadsHold' /\ Shut'
    <2>1. /\ ~overlapped /\ Counted /\ Enrolled /\ ReadsHold /\ Shut
          /\ \A d \in AccountCalls \ {c} : pc'[d] = pc[d] /\ pc[d] \notin SessionSteps
          /\ Serving' \subseteq {c}
        BY <1>2, <1>4, AloneIs
    <2>2. Counted'
        BY <1>1, <2>1 DEF ReadAccountOfLink, sessionVars, tokenVars, Counted, SessionData, Rows
    <2>3. Enrolled'
        BY <1>1, <1>2, <2>1 DEF ReadAccountOfLink, sessionVars, tokenVars, Enrolled, SecretShown, SessionSteps, SessionData, Rows
    <2>4. ReadsHold'
        BY <1>1, <1>2, <2>1 DEF ReadAccountOfLink, sessionVars, tokenVars, ReadsHold, SessionSteps, SessionData, Rows
    <2>5. Shut'
        <3>1. user.closed => pc'[c] = "refused"
            BY <1>2 DEF ReadAccountOfLink, AccountOpen, Goto, MovesTo
        <3>2. user.closed => Serving' = {}
            BY <2>1, <3>1 DEF Serving, SessionSteps
        <3> QED
            BY <2>1, <3>2 DEF ReadAccountOfLink, sessionVars, tokenVars, Shut
    <2> QED
        BY <2>2, <2>3, <2>4, <2>5
<1>5. Undisturbed' => UpToDate'
    <2> SUFFICES ASSUME Undisturbed' PROVE UpToDate'
        OBVIOUS
    <2>1. Undisturbed /\ UpToDate /\ \A d \in AccountCalls \ {c} : pc'[d] = pc[d]
        BY <1>2 DEF Undisturbed, Turn, SessionInv
    <2> QED
        BY <1>1, <1>2, <2>1 DEF ReadAccountOfLink, sessionVars, tokenVars, UpToDate, Live, IsToken, SessionData, Rows
<1> QED
    BY <1>2, <1>3, <1>4, <1>5, TurnKeeps DEF SessionInv

LEMMA SetupTurn ==
    ASSUME SessionInv, TokenInv, Only(AccountCalls), NEW c \in Setups, SetupTotp(c)
    PROVE  SessionInv'
<1> USE AccountParts
<1>1. SessionData
    BY DEF SessionInv, SessionsTypeOK, SessionData
<1>2. Turn(c) /\ failures' = failures /\ pc[c] = "idle" /\ pc'[c] \in {"write", "refused"}
    <2>1. \E step \in SessionSteps \cup Ended :
              Begin(c, step) \/ (pc[c] \in SessionSteps /\ Goto(c, step))
        BY DEF SetupTotp, SessionSteps, Ended
    <2>2. pc[c] = "idle" /\ pc'[c] \in {"write", "refused"}
        BY DEF SetupTotp, Begin, Goto, MovesTo
    <2> QED
        BY <2>1, <2>2, TurnsTaken
<1>3. SessionData'
    BY <1>1 DEF SetupTotp, SessionData, sessionVars, tokenVars
<1>4. ASSUME ~overlapped' PROVE Counted' /\ Enrolled' /\ ReadsHold' /\ Shut'
    <2>1. /\ ~overlapped /\ Counted /\ Enrolled /\ ReadsHold /\ Shut
          /\ \A d \in AccountCalls \ {c} : pc'[d] = pc[d] /\ pc[d] \notin SessionSteps
          /\ Serving' \subseteq {c}
        BY <1>2, <1>4, AloneIs
    <2>2. Counted'
        BY <1>1, <2>1 DEF SetupTotp, sessionVars, tokenVars, Counted, SessionData, Rows
    <2>3. Enrolled'
        BY <1>1, <1>2, <2>1 DEF SetupTotp, sessionVars, tokenVars, Enrolled, SecretShown, SessionSteps, SessionData, Rows
    <2>4. ReadsHold'
        BY <1>1, <1>2, <2>1 DEF SetupTotp, sessionVars, tokenVars, ReadsHold, SessionSteps, SessionData, Rows
    <2>5. Shut'
        BY <1>1, <1>2, <2>1 DEF SetupTotp, sessionVars, tokenVars, Shut, Serving, SessionSteps, SessionData, Rows
    <2> QED
        BY <2>2, <2>3, <2>4, <2>5
<1>5. Undisturbed' => UpToDate'
    <2> SUFFICES ASSUME Undisturbed' PROVE UpToDate'
        OBVIOUS
    <2>1. Undisturbed /\ UpToDate /\ \A d \in AccountCalls \ {c} : pc'[d] = pc[d]
        BY <1>2 DEF Undisturbed, Turn, SessionInv
    <2> QED
        BY <1>1, <1>2, <2>1 DEF SetupTotp, sessionVars, tokenVars, UpToDate, Live, IsToken, SessionData, Rows
<1> QED
    BY <1>2, <1>3, <1>4, <1>5, TurnKeeps DEF SessionInv

LEMMA ProvisionTurn ==
    ASSUME SessionInv, TokenInv, Only(AccountCalls), NEW c \in Setups, ProvisionSecret(c)
    PROVE  SessionInv'
<1> USE AccountParts
<1>1. SessionData
    BY DEF SessionInv, SessionsTypeOK, SessionData
<1>2. Turn(c) /\ failures' = failures /\ pc[c] = "write" /\ pc'[c] = "done"
    <2>1. \E step \in SessionSteps \cup Ended :
              Begin(c, step) \/ (pc[c] \in SessionSteps /\ Goto(c, step))
        BY DEF ProvisionSecret, SessionSteps, Ended
    <2>2. pc[c] = "write" /\ pc'[c] = "done"
        BY DEF ProvisionSecret, Begin, Goto, MovesTo
    <2> QED
        BY <2>1, <2>2, TurnsTaken
<1>3. SessionData'
    <2>1. user' \in Rows
        BY <1>1 DEF ProvisionSecret, SessionData, Rows, Passwords
    <2> QED
        BY <1>1, <2>1 DEF ProvisionSecret, SessionData, tokenVars
<1>4. ASSUME ~overlapped' PROVE Counted' /\ Enrolled' /\ ReadsHold' /\ Shut'
    <2>1. /\ ~overlapped /\ Counted /\ Enrolled /\ ReadsHold /\ Shut
          /\ \A d \in AccountCalls \ {c} : pc'[d] = pc[d] /\ pc[d] \notin SessionSteps
          /\ Serving' \subseteq {c}
        BY <1>2, <1>4, AloneIs
    <2>2. Counted'
        BY <1>1, <2>1 DEF ProvisionSecret, sessionVars, tokenVars, Counted, SessionData, Rows
    <2>3. Enrolled'
        BY <1>1, <1>2, <2>1 DEF ProvisionSecret, sessionVars, tokenVars, Enrolled, SecretShown, SessionSteps, SessionData, Rows
    <2>4. ReadsHold'
        BY <1>1, <1>2, <2>1 DEF ProvisionSecret, sessionVars, tokenVars, ReadsHold, SessionSteps, SessionData, Rows
    <2>5. Shut'
        BY <1>1, <1>2, <2>1 DEF ProvisionSecret, sessionVars, tokenVars, Shut, Serving, SessionSteps, SessionData, Rows
    <2> QED
        BY <2>2, <2>3, <2>4, <2>5
<1>5. Undisturbed' => UpToDate'
    <2> SUFFICES ASSUME Undisturbed' PROVE UpToDate'
        OBVIOUS
    <2>1. Undisturbed /\ UpToDate /\ \A d \in AccountCalls \ {c} : pc'[d] = pc[d]
        BY <1>2 DEF Undisturbed, Turn, SessionInv
    <2> QED
        BY <1>1, <1>2, <2>1 DEF ProvisionSecret, sessionVars, tokenVars, UpToDate, Live, IsToken, SessionData, Rows
<1> QED
    BY <1>2, <1>3, <1>4, <1>5, TurnKeeps DEF SessionInv

LEMMA EnableTurn ==
    ASSUME SessionInv, TokenInv, Only(AccountCalls), NEW c \in Enables, EnableTotp(c)
    PROVE  SessionInv'
<1> USE AccountParts
<1>1. SessionData
    BY DEF SessionInv, SessionsTypeOK, SessionData
<1>2. Turn(c) /\ failures' = failures /\ pc[c] = "idle" /\ pc'[c] \in {"write", "refused"}
    <2>1. \E step \in SessionSteps \cup Ended :
              Begin(c, step) \/ (pc[c] \in SessionSteps /\ Goto(c, step))
        BY DEF EnableTotp, SessionSteps, Ended
    <2>2. pc[c] = "idle" /\ pc'[c] \in {"write", "refused"}
        BY DEF EnableTotp, Begin, Goto, MovesTo
    <2> QED
        BY <2>1, <2>2, TurnsTaken
<1>3. SessionData'
    <2>1. UNCHANGED <<user, seen, tokenVars, session, since, streak>>
        BY DEF EnableTotp
    <2>2. proved' \subseteq Setups \cup Signins
        BY <1>1 DEF EnableTotp, SessionData, Rows
    <2> QED
        BY <1>1, <2>1, <2>2 DEF SessionData, tokenVars
<1>4. ASSUME ~overlapped' PROVE Counted' /\ Enrolled' /\ ReadsHold' /\ Shut'
    <2>1. /\ ~overlapped /\ Counted /\ Enrolled /\ ReadsHold /\ Shut
          /\ \A d \in AccountCalls \ {c} : pc'[d] = pc[d] /\ pc[d] \notin SessionSteps
          /\ Serving' \subseteq {c}
        BY <1>2, <1>4, AloneIs
    <2>2. Counted'
        BY <1>1, <2>1 DEF EnableTotp, sessionVars, tokenVars, Counted, SessionData, Rows
    <2>3. Enrolled'
        <3>1. pc'[c] = "write" => SecretShown'
            BY <1>2 DEF EnableTotp, Begin, MovesTo, SecretShown
        <3>2. user' = user /\ proved \subseteq proved'
            BY DEF EnableTotp
        <3> QED
            BY <1>2, <2>1, <3>1, <3>2 DEF Enrolled, SecretShown, SessionSteps
    <2>4. ReadsHold'
        BY <1>1, <1>2, <2>1 DEF EnableTotp, sessionVars, tokenVars, ReadsHold, SessionSteps, SessionData, Rows
    <2>5. Shut'
        BY <1>1, <1>2, <2>1 DEF EnableTotp, sessionVars, tokenVars, Shut, Serving, SessionSteps, SessionData, Rows
    <2> QED
        BY <2>2, <2>3, <2>4, <2>5
<1>5. Undisturbed' => UpToDate'
    <2> SUFFICES ASSUME Undisturbed' PROVE UpToDate'
        OBVIOUS
    <2>1. Undisturbed /\ UpToDate /\ \A d \in AccountCalls \ {c} : pc'[d] = pc[d]
        BY <1>2 DEF Undisturbed, Turn, SessionInv
    <2> QED
        BY <1>1, <1>2, <2>1 DEF EnableTotp, sessionVars, tokenVars, UpToDate, Live, IsToken, SessionData, Rows
<1> QED
    BY <1>2, <1>3, <1>4, <1>5, TurnKeeps DEF SessionInv

LEMMA EnabledTurn ==
    ASSUME SessionInv, TokenInv, Only(AccountCalls), NEW c \in Enables, WriteEnabled(c)
    PROVE  SessionInv'
<1> USE AccountParts
<1>1. SessionData
    BY DEF SessionInv, SessionsTypeOK, SessionData
<1>2. Turn(c) /\ failures' = failures /\ pc[c] = "write" /\ pc'[c] = "done"
    <2>1. \E step \in SessionSteps \cup Ended :
              Begin(c, step) \/ (pc[c] \in SessionSteps /\ Goto(c, step))
        BY DEF WriteEnabled, SessionSteps, Ended
    <2>2. pc[c] = "write" /\ pc'[c] = "done"
        BY DEF WriteEnabled, Begin, Goto, MovesTo
    <2> QED
        BY <2>1, <2>2, TurnsTaken
<1>3. SessionData'
    <2>1. user' \in Rows
        BY <1>1 DEF WriteEnabled, SessionData, Rows, Passwords
    <2> QED
        BY <1>1, <2>1 DEF WriteEnabled, SessionData, tokenVars
<1>4. ASSUME ~overlapped' PROVE Counted' /\ Enrolled' /\ ReadsHold' /\ Shut'
    <2>1. /\ ~overlapped /\ Counted /\ Enrolled /\ ReadsHold /\ Shut
          /\ \A d \in AccountCalls \ {c} : pc'[d] = pc[d] /\ pc[d] \notin SessionSteps
          /\ Serving' \subseteq {c}
        BY <1>2, <1>4, AloneIs
    <2>2. Counted'
        BY <1>1, <2>1 DEF WriteEnabled, sessionVars, tokenVars, Counted, SessionData, Rows
    <2>3. Enrolled'
        BY <1>1, <1>2, <2>1 DEF WriteEnabled, sessionVars, tokenVars, Enrolled, SecretShown, SessionSteps, SessionData, Rows
    <2>4. ReadsHold'
        BY <1>1, <1>2, <2>1 DEF WriteEnabled, sessionVars, tokenVars, ReadsHold, SessionSteps, SessionData, Rows
    <2>5. Shut'
        BY <1>1, <1>2, <2>1 DEF WriteEnabled, sessionVars, tokenVars, Shut, Serving, SessionSteps, SessionData, Rows
    <2> QED
        BY <2>2, <2>3, <2>4, <2>5
<1>5. Undisturbed' => UpToDate'
    <2> SUFFICES ASSUME Undisturbed' PROVE UpToDate'
        OBVIOUS
    <2>1. Undisturbed /\ UpToDate /\ \A d \in AccountCalls \ {c} : pc'[d] = pc[d]
        BY <1>2 DEF Undisturbed, Turn, SessionInv
    <2> QED
        BY <1>1, <1>2, <2>1 DEF WriteEnabled, sessionVars, tokenVars, UpToDate, Live, IsToken, SessionData, Rows
<1> QED
    BY <1>2, <1>3, <1>4, <1>5, TurnKeeps DEF SessionInv

LEMMA DisableTurn ==
    ASSUME SessionInv, TokenInv, Only(AccountCalls), NEW c \in Disables, DisableTotp(c)
    PROVE  SessionInv'
<1> USE AccountParts
<1>1. SessionData
    BY DEF SessionInv, SessionsTypeOK, SessionData
<1>2. Turn(c) /\ failures' = failures /\ pc[c] = "idle" /\ pc'[c] \in {"write", "refused", "done"}
    <2>1. \E step \in SessionSteps \cup Ended :
              Begin(c, step) \/ (pc[c] \in SessionSteps /\ Goto(c, step))
        BY DEF DisableTotp, SessionSteps, Ended
    <2>2. pc[c] = "idle" /\ pc'[c] \in {"write", "refused", "done"}
        BY DEF DisableTotp, Begin, Goto, MovesTo
    <2> QED
        BY <2>1, <2>2, TurnsTaken
<1>3. SessionData'
    BY <1>1 DEF DisableTotp, SessionData, sessionVars, tokenVars
<1>4. ASSUME ~overlapped' PROVE Counted' /\ Enrolled' /\ ReadsHold' /\ Shut'
    <2>1. /\ ~overlapped /\ Counted /\ Enrolled /\ ReadsHold /\ Shut
          /\ \A d \in AccountCalls \ {c} : pc'[d] = pc[d] /\ pc[d] \notin SessionSteps
          /\ Serving' \subseteq {c}
        BY <1>2, <1>4, AloneIs
    <2>2. Counted'
        BY <1>1, <2>1 DEF DisableTotp, sessionVars, tokenVars, Counted, SessionData, Rows
    <2>3. Enrolled'
        BY <1>1, <1>2, <2>1 DEF DisableTotp, sessionVars, tokenVars, Enrolled, SecretShown, SessionSteps, SessionData, Rows
    <2>4. ReadsHold'
        BY <1>1, <1>2, <2>1 DEF DisableTotp, sessionVars, tokenVars, ReadsHold, SessionSteps, SessionData, Rows
    <2>5. Shut'
        BY <1>1, <1>2, <2>1 DEF DisableTotp, sessionVars, tokenVars, Shut, Serving, SessionSteps, SessionData, Rows
    <2> QED
        BY <2>2, <2>3, <2>4, <2>5
<1>5. Undisturbed' => UpToDate'
    <2> SUFFICES ASSUME Undisturbed' PROVE UpToDate'
        OBVIOUS
    <2>1. Undisturbed /\ UpToDate /\ \A d \in AccountCalls \ {c} : pc'[d] = pc[d]
        BY <1>2 DEF Undisturbed, Turn, SessionInv
    <2> QED
        BY <1>1, <1>2, <2>1 DEF DisableTotp, sessionVars, tokenVars, UpToDate, Live, IsToken, SessionData, Rows
<1> QED
    BY <1>2, <1>3, <1>4, <1>5, TurnKeeps DEF SessionInv

LEMMA DisabledTurn ==
    ASSUME SessionInv, TokenInv, Only(AccountCalls), NEW c \in Disables, WriteDisabled(c)
    PROVE  SessionInv'
<1> USE AccountParts
<1>1. SessionData
    BY DEF SessionInv, SessionsTypeOK, SessionData
<1>2. Turn(c) /\ failures' = failures /\ pc[c] = "write" /\ pc'[c] = "done"
    <2>1. \E step \in SessionSteps \cup Ended :
              Begin(c, step) \/ (pc[c] \in SessionSteps /\ Goto(c, step))
        BY DEF WriteDisabled, SessionSteps, Ended
    <2>2. pc[c] = "write" /\ pc'[c] = "done"
        BY DEF WriteDisabled, Begin, Goto, MovesTo
    <2> QED
        BY <2>1, <2>2, TurnsTaken
<1>3. SessionData'
    <2>1. user' \in Rows
        BY <1>1 DEF WriteDisabled, SessionData, Rows, Passwords
    <2> QED
        BY <1>1, <2>1 DEF WriteDisabled, SessionData, tokenVars
<1>4. ASSUME ~overlapped' PROVE Counted' /\ Enrolled' /\ ReadsHold' /\ Shut'
    <2>1. /\ ~overlapped /\ Counted /\ Enrolled /\ ReadsHold /\ Shut
          /\ \A d \in AccountCalls \ {c} : pc'[d] = pc[d] /\ pc[d] \notin SessionSteps
          /\ Serving' \subseteq {c}
        BY <1>2, <1>4, AloneIs
    <2>2. Counted'
        BY <1>1, <2>1 DEF WriteDisabled, sessionVars, tokenVars, Counted, SessionData, Rows
    <2>3. Enrolled'
        BY <1>1, <1>2, <2>1 DEF WriteDisabled, sessionVars, tokenVars, Enrolled, SecretShown, SessionSteps, SessionData, Rows
    <2>4. ReadsHold'
        BY <1>1, <1>2, <2>1 DEF WriteDisabled, sessionVars, tokenVars, ReadsHold, SessionSteps, SessionData, Rows
    <2>5. Shut'
        BY <1>1, <1>2, <2>1 DEF WriteDisabled, sessionVars, tokenVars, Shut, Serving, SessionSteps, SessionData, Rows
    <2> QED
        BY <2>2, <2>3, <2>4, <2>5
<1>5. Undisturbed' => UpToDate'
    <2> SUFFICES ASSUME Undisturbed' PROVE UpToDate'
        OBVIOUS
    <2>1. Undisturbed /\ UpToDate /\ \A d \in AccountCalls \ {c} : pc'[d] = pc[d]
        BY <1>2 DEF Undisturbed, Turn, SessionInv
    <2> QED
        BY <1>1, <1>2, <2>1 DEF WriteDisabled, sessionVars, tokenVars, UpToDate, Live, IsToken, SessionData, Rows
<1> QED
    BY <1>2, <1>3, <1>4, <1>5, TurnKeeps DEF SessionInv

LEMMA AskTurn ==
    ASSUME SessionInv, TokenInv, Only(AccountCalls), NEW c \in Closes, AskToClose(c)
    PROVE  SessionInv'
<1> USE AccountParts
<1>1. SessionData
    BY DEF SessionInv, SessionsTypeOK, SessionData
<1>2. Turn(c) /\ failures' = failures /\ pc[c] = "idle" /\ pc'[c] \in {"write", "refused", "done"}
    <2>1. \E step \in SessionSteps \cup Ended :
              Begin(c, step) \/ (pc[c] \in SessionSteps /\ Goto(c, step))
        BY DEF AskToClose, SessionSteps, Ended
    <2>2. pc[c] = "idle" /\ pc'[c] \in {"write", "refused", "done"}
        BY DEF AskToClose, Begin, Goto, MovesTo
    <2> QED
        BY <2>1, <2>2, TurnsTaken
<1>3. SessionData'
    BY <1>1 DEF AskToClose, SessionData, sessionVars, tokenVars
<1>4. ASSUME ~overlapped' PROVE Counted' /\ Enrolled' /\ ReadsHold' /\ Shut'
    <2>1. /\ ~overlapped /\ Counted /\ Enrolled /\ ReadsHold /\ Shut
          /\ \A d \in AccountCalls \ {c} : pc'[d] = pc[d] /\ pc[d] \notin SessionSteps
          /\ Serving' \subseteq {c}
        BY <1>2, <1>4, AloneIs
    <2>2. Counted'
        BY <1>1, <2>1 DEF AskToClose, sessionVars, tokenVars, Counted, SessionData, Rows
    <2>3. Enrolled'
        BY <1>1, <1>2, <2>1 DEF AskToClose, sessionVars, tokenVars, Enrolled, SecretShown, SessionSteps, SessionData, Rows
    <2>4. ReadsHold'
        BY <1>1, <1>2, <2>1 DEF AskToClose, sessionVars, tokenVars, ReadsHold, SessionSteps, SessionData, Rows
    <2>5. Shut'
        <3>1. user.closed => pc'[c] = "done"
            BY <1>2 DEF AskToClose, Begin, MovesTo
        <3>2. user.closed => Serving' = {}
            BY <2>1, <3>1 DEF Serving, SessionSteps
        <3> QED
            BY <2>1, <3>2 DEF AskToClose, sessionVars, tokenVars, Shut
    <2> QED
        BY <2>2, <2>3, <2>4, <2>5
<1>5. Undisturbed' => UpToDate'
    <2> SUFFICES ASSUME Undisturbed' PROVE UpToDate'
        OBVIOUS
    <2>1. Undisturbed /\ UpToDate /\ \A d \in AccountCalls \ {c} : pc'[d] = pc[d]
        BY <1>2 DEF Undisturbed, Turn, SessionInv
    <2> QED
        BY <1>1, <1>2, <2>1 DEF AskToClose, sessionVars, tokenVars, UpToDate, Live, IsToken, SessionData, Rows
<1> QED
    BY <1>2, <1>3, <1>4, <1>5, TurnKeeps DEF SessionInv

LEMMA CloseTurn ==
    ASSUME SessionInv, TokenInv, Only(AccountCalls), NEW c \in Closes, CloseAccount(c)
    PROVE  SessionInv'
<1> USE AccountParts
<1>1. SessionData
    BY DEF SessionInv, SessionsTypeOK, SessionData
<1>2. Turn(c) /\ failures' = failures /\ pc[c] = "write" /\ pc'[c] = "done"
    <2>1. \E step \in SessionSteps \cup Ended :
              Begin(c, step) \/ (pc[c] \in SessionSteps /\ Goto(c, step))
        BY DEF CloseAccount, SessionSteps, Ended
    <2>2. pc[c] = "write" /\ pc'[c] = "done"
        BY DEF CloseAccount, Begin, Goto, MovesTo
    <2> QED
        BY <2>1, <2>2, TurnsTaken
<1>3. SessionData'
    <2>1. user' \in Rows
        BY <1>1 DEF CloseAccount, SessionData, Rows, Passwords
    <2>2. token' \in [Tokens -> {"none", "fresh", "used", "deleted"}]
        BY <1>1 DEF CloseAccount, SessionData
    <2>3. session' \in [Openers -> {"none", "live", "revoked", "deleted"}]
        BY <1>1 DEF CloseAccount, SessionData
    <2> QED
        BY <1>1, <2>1, <2>2, <2>3 DEF CloseAccount, SessionData, tokenVars
<1>4. ASSUME ~overlapped' PROVE Counted' /\ Enrolled' /\ ReadsHold' /\ Shut'
    <2>1. /\ ~overlapped /\ Counted /\ Enrolled /\ ReadsHold /\ Shut
          /\ \A d \in AccountCalls \ {c} : pc'[d] = pc[d] /\ pc[d] \notin SessionSteps
          /\ Serving' \subseteq {c}
        BY <1>2, <1>4, AloneIs
    <2>2. Counted'
        BY <1>1, <2>1 DEF CloseAccount, sessionVars, tokenVars, Counted, SessionData, Rows
    <2>3. Enrolled'
        BY <1>1, <1>2, <2>1 DEF CloseAccount, sessionVars, tokenVars, Enrolled, SecretShown, SessionSteps, SessionData, Rows
    <2>4. ReadsHold'
        BY <1>1, <1>2, <2>1 DEF CloseAccount, sessionVars, tokenVars, ReadsHold, SessionSteps, SessionData, Rows
    <2>5. Shut'
        BY <1>1, <1>2, <2>1 DEF CloseAccount, sessionVars, tokenVars, Shut, Serving, SessionSteps, SessionData, Rows
    <2> QED
        BY <2>2, <2>3, <2>4, <2>5
<1>5. Undisturbed' => UpToDate'
    <2> SUFFICES ASSUME Undisturbed' PROVE UpToDate'
        OBVIOUS
    <2>1. Undisturbed /\ UpToDate /\ \A d \in AccountCalls \ {c} : pc'[d] = pc[d]
        BY <1>2 DEF Undisturbed, Turn, SessionInv
    <2> QED
        BY <1>1, <1>2, <2>1 DEF CloseAccount, sessionVars, tokenVars, UpToDate, Live, IsToken, SessionData, Rows
<1> QED
    BY <1>2, <1>3, <1>4, <1>5, TurnKeeps DEF SessionInv

LEMMA LogOutTurn ==
    ASSUME SessionInv, TokenInv, Only(AccountCalls), NEW c \in LogOuts, LogOut(c)
    PROVE  SessionInv'
<1> USE AccountParts
<1>1. SessionData
    BY DEF SessionInv, SessionsTypeOK, SessionData
<1>2. Turn(c) /\ failures' = failures /\ pc[c] = "idle" /\ pc'[c] = "done"
    <2>1. \E step \in SessionSteps \cup Ended :
              Begin(c, step) \/ (pc[c] \in SessionSteps /\ Goto(c, step))
        BY DEF LogOut, SessionSteps, Ended
    <2>2. pc[c] = "idle" /\ pc'[c] = "done"
        BY DEF LogOut, Begin, Goto, MovesTo
    <2> QED
        BY <2>1, <2>2, TurnsTaken
<1>3. SessionData'
    BY <1>1 DEF LogOut, SessionData, sessionVars, tokenVars
<1>4. ASSUME ~overlapped' PROVE Counted' /\ Enrolled' /\ ReadsHold' /\ Shut'
    <2>1. /\ ~overlapped /\ Counted /\ Enrolled /\ ReadsHold /\ Shut
          /\ \A d \in AccountCalls \ {c} : pc'[d] = pc[d] /\ pc[d] \notin SessionSteps
          /\ Serving' \subseteq {c}
        BY <1>2, <1>4, AloneIs
    <2>2. Counted'
        BY <1>1, <2>1 DEF LogOut, sessionVars, tokenVars, Counted, SessionData, Rows
    <2>3. Enrolled'
        BY <1>1, <1>2, <2>1 DEF LogOut, sessionVars, tokenVars, Enrolled, SecretShown, SessionSteps, SessionData, Rows
    <2>4. ReadsHold'
        BY <1>1, <1>2, <2>1 DEF LogOut, sessionVars, tokenVars, ReadsHold, SessionSteps, SessionData, Rows
    <2>5. Shut'
        BY <1>1, <1>2, <2>1 DEF LogOut, sessionVars, tokenVars, Shut, Serving, SessionSteps, SessionData, Rows
    <2> QED
        BY <2>2, <2>3, <2>4, <2>5
<1>5. Undisturbed' => UpToDate'
    <2> SUFFICES ASSUME Undisturbed' PROVE UpToDate'
        OBVIOUS
    <2>1. Undisturbed /\ UpToDate /\ \A d \in AccountCalls \ {c} : pc'[d] = pc[d]
        BY <1>2 DEF Undisturbed, Turn, SessionInv
    <2> QED
        BY <1>1, <1>2, <2>1 DEF LogOut, sessionVars, tokenVars, UpToDate, Live, IsToken, SessionData, Rows
<1> QED
    BY <1>2, <1>3, <1>4, <1>5, TurnKeeps DEF SessionInv

LEMMA CutTurn ==
    ASSUME SessionInv, NEW c \in AccountCalls, AccountCutShort(c)
    PROVE  SessionInv'
<1> USE AccountParts
<1>1. SessionData
    BY DEF SessionInv, SessionsTypeOK, SessionData
<1>2. /\ Turn(c) /\ failures' \in Nat /\ ~Undisturbed' /\ UNCHANGED sessionVars /\ pc'[c] = "dead"
    <2>1. pc[c] \in SessionSteps /\ pc'[c] = "dead" /\ failures' = failures + 1
        BY DEF AccountCutShort, CutShort, Busy, Started, SessionInv, SessionsTypeOK, MovesTo
    <2>2. Turn(c)
        BY <2>1 DEF AccountCutShort, CutShort, MovesTo, Turn, SessionInv, Serving, Ended
    <2> QED
        BY <2>1, <2>2 DEF AccountCutShort, Undisturbed, SessionInv
<1>3. ASSUME ~overlapped' PROVE Counted' /\ Enrolled' /\ ReadsHold' /\ Shut'
    <2>1. /\ ~overlapped /\ Counted /\ Enrolled /\ ReadsHold /\ Shut
          /\ \A d \in AccountCalls \ {c} : pc'[d] = pc[d] /\ pc[d] \notin SessionSteps
          /\ Serving' = {}
        BY <1>2, <1>3, AloneIs DEF Serving, SessionSteps
    <2>2. Counted' /\ Enrolled'
        BY <1>2, <2>1 DEF sessionVars, Counted, Enrolled, SecretShown
    <2>3. ReadsHold'
        BY <1>2, <2>1 DEF sessionVars, ReadsHold, SessionSteps
    <2>4. Shut'
        BY <1>2, <2>1 DEF sessionVars, tokenVars, Shut
    <2> QED
        BY <2>2, <2>3, <2>4
<1> QED
    BY <1>1, <1>2, <1>3, TurnKeeps DEF SessionData, sessionVars, tokenVars

LEMMA LockoutTurn ==
    ASSUME SessionInv, LockoutPasses
    PROVE  SessionInv'
<1> USE AccountParts
<1>1. UNCHANGED <<requestVars, seen, tokenVars, session, since, proved, streak>>
    BY DEF LockoutPasses
<1>2. user.locked /\ user' = [user EXCEPT !.locked = FALSE] /\ user \in Rows /\ user' \in Rows
    BY DEF LockoutPasses, SessionInv, SessionsTypeOK, Rows
<1>3. /\ user'.failed = user.failed /\ ~user'.locked /\ user'.secret = user.secret
      /\ user'.enabled = user.enabled /\ user'.closed = user.closed
      /\ user'.password = user.password
    BY <1>2 DEF Rows
<1>4. SessionsTypeOK'
    BY <1>1, <1>2 DEF SessionInv, SessionsTypeOK, tokenVars, requestVars
<1>5. ASSUME ~overlapped' PROVE Counted' /\ Enrolled' /\ ReadsHold' /\ Shut'
    <2>1. Counted /\ Enrolled /\ ReadsHold /\ Shut
        BY <1>1, <1>5 DEF SessionInv, requestVars
    <2>2. Counted' /\ Enrolled'
        BY <1>1, <1>3, <2>1 DEF requestVars, Counted, Enrolled, SecretShown
    <2>3. ReadsHold'
        BY <1>1, <1>2, <1>3, <2>1 DEF requestVars, ReadsHold
    <2>4. Shut'
        BY <1>1, <1>3, <2>1 DEF requestVars, tokenVars, Shut, Serving
    <2> QED
        BY <2>2, <2>3, <2>4
<1>6. Undisturbed' => UpToDate'
    BY <1>1, <1>3 DEF SessionInv, Undisturbed, UpToDate, Live, IsToken, requestVars, tokenVars
<1>7. ~overlapped' => \A c, d \in Serving' : c = d
    BY <1>1 DEF SessionInv, requestVars, Serving
<1> QED
    BY <1>1, <1>4, <1>5, <1>6, <1>7 DEF SessionInv, requestVars

LEMMA SessionStep ==
    ASSUME SessionInv, TokenInv, Only(AccountCalls), SessionsNext
    PROVE  SessionInv'
    BY SignInTurn, ClearTurn, OpenTurn, IssueTurn, ReadTurn, BurnTurn, WriteTurn, GrantTurn,
       SpoilTurn, RevokeTurn, LinkTurn, SetupTurn, ProvisionTurn, EnableTurn, EnabledTurn,
       DisableTurn, DisabledTurn, AskTurn, CloseTurn, LogOutTurn, CutTurn, LockoutTurn
       DEF SessionsNext

LEMMA SessionInductive == SessionInv /\ TokenInv /\ [Next]_vars => SessionInv'
<1> SUFFICES ASSUME SessionInv, TokenInv, [Next]_vars PROVE SessionInv'
    OBVIOUS
<1> USE AccountParts
<1>1. CASE UNCHANGED <<sessionVars, requestVars>>
    <2>1. SessionsTypeOK' /\ Serving' = Serving
        BY <1>1 DEF SessionInv, SessionsTypeOK, sessionVars, tokenVars, requestVars, Serving
    <2>2. (Counted' <=> Counted) /\ (Enrolled' <=> Enrolled) /\ (ReadsHold' <=> ReadsHold)
        BY <1>1 DEF Counted, Enrolled, SecretShown, ReadsHold, sessionVars, requestVars
    <2>3. (Shut' <=> Shut) /\ (UpToDate' <=> UpToDate)
        BY <1>1 DEF Shut, Serving, UpToDate, Live, IsToken, sessionVars, tokenVars, requestVars
    <2> QED
        BY <1>1, <2>1, <2>2, <2>3 DEF SessionInv, requestVars, Undisturbed
<1>2. ASSUME NEW i \in 1..11, i # 2, StepOf(i) PROVE SessionInv'
    <2>1. UNCHANGED sessionVars /\ FailuresGrow /\ OverlapStays
        BY <1>2, CountersStep DEF StepOf
    <2>2. \A c \in AccountCalls : pc[c] = "idle" /\ pc'[c] = "idle"
        BY <1>2, OthersAreIdle, PartsByNumber
    <2>3. SessionsTypeOK' /\ Serving' = Serving /\ Serving = {}
        BY <2>1, <2>2 DEF SessionInv, SessionsTypeOK, sessionVars, tokenVars, Serving, SessionSteps
    <2>4. (Counted' <=> Counted) /\ (Enrolled' <=> Enrolled) /\ (ReadsHold' <=> ReadsHold)
        BY <2>1, <2>2 DEF Counted, Enrolled, SecretShown, ReadsHold, sessionVars
    <2>5. (Shut' <=> Shut) /\ (UpToDate' <=> UpToDate)
        <3>1. Live' = Live
            BY <2>1 DEF Live, IsToken, sessionVars, tokenVars
        <3> QED
            BY <2>1, <2>2, <2>3, <3>1 DEF Shut, UpToDate, sessionVars, tokenVars
    <2>6. failures' \in Nat /\ (~overlapped' => ~overlapped) /\ (Undisturbed' => Undisturbed)
        BY <2>1 DEF FailuresGrow, OverlapStays, Undisturbed, SessionInv
    <2> QED
        BY <2>3, <2>4, <2>5, <2>6 DEF SessionInv
<1>3. CASE Next
    <2>1. PICK i \in 1..11 : StepOf(i)
        BY <1>3, StepsOfParts
    <2>2. CASE i = 2
        BY <2>1, <2>2, SessionStep, PartsByNumber DEF StepOf
    <2> QED
        BY <1>2, <2>1, <2>2
<1> QED
    BY <1>1, <1>3 DEF vars

(* What the account promises, and what a sign-in must have shown.          *)
LEMMA SessionHolds ==
    ASSUME SessionInv
    PROVE  SessionsTypeOK /\ ResetRevokes /\ ClosedIsFinal /\ LockoutCounts /\ EnrolledSecretWasShown
<1> USE AccountParts
<1>1. ResetRevokes
    <2> SUFFICES ASSUME Undisturbed, Busy = {} PROVE \A c \in Live : since[c] = user.password
        BY DEF ResetRevokes
    <2>1. \A c \in Uses : pc[c] \notin {"spoil", "revoke"}
        BY DEF Busy, Started, Ended
    <2> QED
        BY <2>1 DEF SessionInv, UpToDate
<1>2. ClosedIsFinal
    BY DEF ClosedIsFinal, SessionInv, Shut
<1>3. LockoutCounts
    BY DEF LockoutCounts, SessionInv, Counted
<1>4. EnrolledSecretWasShown
    BY DEF EnrolledSecretWasShown, SessionInv, Enrolled, SecretShown
<1> QED
    BY <1>1, <1>2, <1>3, <1>4 DEF SessionInv

LEMMA SecondFactorStep ==
    ASSUME SessionInv, [Next]_vars, NEW c \in Signins, session'[c] = "live", session[c] # "live",
           user.enabled, ~overlapped
    PROVE  c \in proved
<1> USE AccountParts
<1>1. SessionsNext
    <2>1. ~UNCHANGED sessionVars
        BY DEF sessionVars
    <2> QED
        BY <2>1 DEF Next, vars
<1>2. session \in [Openers -> {"none", "live", "revoked", "deleted"}] /\ c \in Openers
    BY DEF SessionInv, SessionsTypeOK
<1>3. OpenSession(c) \/ GrantAccess(c)
    <2>1. CASE \E d \in Openers : OpenSession(d)
        BY <1>2, <2>1 DEF OpenSession
    <2>2. CASE \E d \in Uses : GrantAccess(d)
        BY <1>2, <2>2 DEF GrantAccess
    <2>3. CASE \E d \in Uses : RevokeSessions(d)
        BY <1>2, <2>3 DEF RevokeSessions
    <2>4. CASE \E d \in Closes : CloseAccount(d)
        BY <1>2, <2>4 DEF CloseAccount
    <2>5. CASE \E d \in LogOuts : LogOut(d)
        BY <1>2, <2>5 DEF LogOut
    <2>6. CASE session' = session
        BY <2>6
    <2>7. session' = session \/ (\E d \in Openers : OpenSession(d)) \/ (\E d \in Uses : GrantAccess(d))
            \/ (\E d \in Uses : RevokeSessions(d)) \/ (\E d \in Closes : CloseAccount(d))
            \/ (\E d \in LogOuts : LogOut(d))
        BY <1>1 DEF SessionsNext, ReadAccount, WrongPassword, RightPassword, SecondRequest, RightCode,
           WrongCode, ClearLockout, IssueToken, ReadToken, BurnToken, WriteUser, SpoilResets,
           ReadAccountOfLink, SetupTotp, ProvisionSecret, EnableTotp, WriteEnabled, DisableTotp,
           WriteDisabled, AskToClose, AccountCutShort, LockoutPasses, sessionVars
    <2> QED
        BY <2>1, <2>2, <2>3, <2>4, <2>5, <2>6, <2>7
<1>4. ~GrantAccess(c)
    BY DEF GrantAccess, IsToken
<1>5. pc[c] = "open"
    BY <1>3, <1>4 DEF OpenSession
<1> QED
    BY <1>5 DEF SessionInv, ReadsHold

-------------------------------------------------------------------------------
(* The account of one address: its password and its referral.              *)

SignUpSteps == {"write", "refer", "token", "email", "link", "create"}
SigningUp == {c \in SignUpPart : pc[c] \in SignUpSteps}

Namings == Referrers \cup {MailUser, Unset}
Claims == [code : Namings, exists : BOOLEAN, referredBy : Namings]

ClaimsFit ==
    \A c \in SignUpCalls :
        pc[c] # "idle" => claim[c] \in Claims /\ (claim[c].exists => MailUser \in users)

(* Who wrote the account has its password, or saw it without one while     *)
(* another did; who is about to write knows no more than who wrote it.     *)
PasswordsFit ==
    /\ passwordOf # Unset => MailUser \in users /\ pc[passwordOf] # "idle"
    /\ \A c \in SignUpCalls :
        /\ pc[c] \in {"refer", "token", "done"} /\ passwordOf # c => overlapped /\ claim[c].exists
        /\ pc[c] = "write" /\ passwordOf # Unset
               => overlapped /\ (claim[c].exists => claim[passwordOf].exists)

(* The row of a referral is there, or the sign-up that owes it goes on.    *)
ReferralsFit ==
    /\ referral # Unset => referredBy # Unset
    /\ \A c \in SignUpCalls :
        pc[c] = "refer" => referredBy # Unset /\ claim[c].code \in Referrers
    /\ /\ failures = 0
       /\ \/ referredBy \in Referrers
          \/ \E c \in SignUpCalls : pc[c] = "write" /\ claim[c].referredBy \in Referrers
       => referral # Unset \/ \E c \in SignUpCalls : pc[c] = "refer"

SignUpsTakeTurns ==
    /\ ~overlapped => \A c, d \in SigningUp : c = d
    /\ Undisturbed =>
        /\ \A c \in SignUpCalls : pc[c] = "write" => claim[c].referredBy = referredBy
        /\ referredBy # MailUser =>
            \/ referral = referredBy
            \/ \E c \in SignUpCalls :
                pc[c] = "refer" /\ referral = Unset /\ claim[c].code = referredBy

SignUpInv ==
    /\ SignUpsTypeOK /\ failures \in Nat
    /\ ClaimsFit /\ PasswordsFit /\ ReferralsFit /\ SignUpsTakeTurns

LEMMA SignUpInit == Init => SignUpInv
<1> SUFFICES ASSUME Init PROVE SignUpInv
    OBVIOUS
<1>1. \A c \in SignUpPart : pc[c] = "idle"
    BY SignUpsAssumption DEF Init, RequestsInit, SignUpPart
<1>2. /\ users = {} /\ passwordOf = Unset /\ referredBy = Unset /\ referral = Unset
      /\ linked = [i \in Identities |-> Unset] /\ answered = [c \in SocialCalls |-> Unset]
      /\ failures = 0
    BY DEF Init, SignUpsInit, RequestsInit
<1>3. SigningUp = {}
    BY <1>1 DEF SigningUp, SignUpSteps
<1>4. SignUpsTypeOK /\ ClaimsFit /\ PasswordsFit /\ SignUpsTakeTurns
    BY <1>1, <1>2, <1>3 DEF SignUpsTypeOK, ClaimsFit, PasswordsFit, SignUpsTakeTurns, SignUpPart
<1>5. ReferralsFit
    BY <1>1, <1>2, SignUpsAssumption DEF ReferralsFit, SignUpPart
<1> QED
    BY <1>2, <1>4, <1>5 DEF SignUpInv

LEMMA SignUpParts ==
    /\ SignUpCalls \subseteq SignUpPart /\ SocialCalls \subseteq SignUpPart /\ SignUpPart \subseteq Calls
    /\ SignUpPart = SignUpCalls \cup SocialCalls
    /\ SignUpCalls \cap SocialCalls = {} /\ Unset \notin SignUpCalls /\ Unset \notin Referrers
    /\ Unset # MailUser /\ MailUser \notin Referrers
    BY SignUpsAssumption DEF SignUpPart

(* One request of a sign-up goes on; if none overlaps it is alone.         *)
SignUpTurn(c) ==
    /\ \A d \in SignUpPart \ {c} : pc'[d] = pc[d]
    /\ pc'[c] \in SignUpSteps \cup Ended
    /\ overlapped => overlapped'
    /\ ~overlapped' => \A d \in SignUpPart \ {c} : pc[d] \notin SignUpSteps

LEMMA SignUpTurnsTaken ==
    ASSUME SignUpInv, Only(SignUpPart), NEW c \in SignUpPart, NEW step \in SignUpSteps \cup Ended,
           Begin(c, step) \/ (pc[c] \in SignUpSteps /\ Goto(c, step))
    PROVE  SignUpTurn(c) /\ pc'[c] = step /\ failures' = failures
<1> USE SignUpParts
<1>1. SigningUp \subseteq Busy
    BY DEF SigningUp, Busy, Started, SignUpSteps, Ended
<1>2. pc'[c] = step /\ (\A d \in SignUpPart \ {c} : pc'[d] = pc[d]) /\ failures' = failures
    BY DEF Begin, Goto, MovesTo
<1>3. CASE Begin(c, step)
    <2>1. (overlapped => overlapped') /\ (~overlapped' => ~overlapped /\ SigningUp = {})
        BY <1>1, <1>3 DEF Begin
    <2> QED
        BY <1>2, <2>1 DEF SignUpTurn, SigningUp
<1>4. CASE pc[c] \in SignUpSteps /\ Goto(c, step)
    <2>1. overlapped' = overlapped /\ c \in SigningUp
        BY <1>4 DEF Goto, SigningUp
    <2> QED
        BY <1>2, <2>1 DEF SignUpTurn, SigningUp, SignUpInv, SignUpsTakeTurns
<1> QED
    BY <1>3, <1>4

LEMMA SignUpsAlone ==
    ASSUME NEW c \in SignUpPart, SignUpTurn(c)
    PROVE  ~overlapped' => (\A d, e \in SigningUp' : d = e)
    BY DEF SignUpTurn, SigningUp

LEMMA ReadStep ==
    ASSUME SignUpInv, IdentityInv, Only(SignUpPart), ReadExisting
    PROVE  SignUpInv'
<1> USE SignUpParts
<1> DEFINE c == NextOf(SignUpCalls)
<1>1. c \in SignUpCalls /\ pc[c] = "idle"
    BY NextIsUnused DEF ReadExisting
<1> HIDE DEF c
<1>2. PICK r \in Referrers \cup {Unset} \cup (users \cap {MailUser}) :
          /\ Begin(c, IF Registered THEN "refused" ELSE "write")
          /\ claim' = [claim EXCEPT ![c] =
                 [code |-> r, exists |-> MailUser \in users, referredBy |-> referredBy]]
          /\ UNCHANGED <<users, passwordOf, referredBy, referral, linked, answered>>
    BY DEF ReadExisting, c
<1>3. /\ SignUpTurn(c) /\ failures' = failures
      /\ pc'[c] = IF Registered THEN "refused" ELSE "write"
    BY <1>1, <1>2, SignUpTurnsTaken DEF SignUpSteps, Ended
<1>4. /\ claim'[c] = [code |-> r, exists |-> MailUser \in users, referredBy |-> referredBy]
      /\ claim'[c] \in Claims
      /\ \A d \in SignUpCalls : d # c => claim'[d] = claim[d]
    BY <1>1, <1>2 DEF IdentityInv, Claims, Namings, SignUpInv, SignUpsTypeOK
<1>5. SignUpsTypeOK'
    BY <1>1, <1>2, <1>3 DEF SignUpInv, SignUpsTypeOK, SignUpTurn, Ended
<1>6. ClaimsFit'
    <2> DEFINE e == MailUser \in users
    <2> HIDE DEF e
    <2>0. claim'[c].exists = e
        BY <1>4 DEF e
    <2>1. claim'[c].exists => MailUser \in users
        BY <2>0 DEF e
    <2> QED
        BY <1>1, <1>2, <1>3, <1>4, <2>1 DEF SignUpInv, ClaimsFit, SignUpTurn
<1>7. PasswordsFit'
    <2>1. /\ passwordOf # Unset => passwordOf # c /\ pc'[c] = "refused"
          /\ pc'[c] \notin {"refer", "token", "done"}
        BY <1>1, <1>3 DEF SignUpInv, PasswordsFit, Registered
    <2>2. passwordOf # Unset => passwordOf \in SignUpCalls
        BY DEF SignUpInv, SignUpsTypeOK
    <2> QED
        BY <1>1, <1>2, <1>3, <1>4, <2>1, <2>2 DEF SignUpInv, PasswordsFit, SignUpTurn
<1>8. ReferralsFit'
    <2>1. pc'[c] # "refer"
        BY <1>3
    <2> QED
        BY <1>1, <1>2, <1>3, <1>4, <2>1 DEF SignUpInv, ReferralsFit, SignUpTurn
<1>9. SignUpsTakeTurns'
    BY <1>1, <1>2, <1>3, <1>4, SignUpsAlone DEF SignUpInv, SignUpsTakeTurns, SignUpTurn, Undisturbed
<1> QED
    BY <1>3, <1>5, <1>6, <1>7, <1>8, <1>9 DEF SignUpInv

(* Requests of providers, and sign-ups that are over.                      *)
LEMMA SignUpRests ==
    ASSUME SignUpInv, NEW c \in SignUpPart, SignUpTurn(c),
           UNCHANGED <<passwordOf, referredBy, referral>>,
           \A d \in SignUpCalls : claim'[d] = claim[d],
           users \subseteq users', users' \subseteq AllUsers,
           linked' \in [Identities -> AllUsers \cup {Unset}],
           answered' \in [SocialCalls -> AllUsers \cup {Unset}],
           failures' \in Nat,
           failures' = 0 => failures = 0 /\ (c \in SignUpCalls => pc[c] # "refer"),
           c \in SignUpCalls =>
               pc'[c] \in Ended /\ pc[c] # "idle" /\ (pc'[c] = "done" => pc[c] = "token"),
           c \in SocialCalls => pc'[c] \in {"email", "link", "create"} \cup Ended
    PROVE  SignUpInv'
<1> USE SignUpParts
<1>1. SignUpsTypeOK'
    BY DEF SignUpInv, SignUpsTypeOK, SignUpTurn
<1>2. ClaimsFit'
    BY DEF SignUpInv, ClaimsFit, SignUpTurn
<1>3. \A d \in SignUpCalls : pc'[d] = pc[d] \/ (d = c /\ pc'[d] \in Ended)
    BY DEF SignUpTurn
<1>4. PasswordsFit'
    <2>1. passwordOf # Unset => passwordOf \in SignUpCalls
        BY DEF SignUpInv, SignUpsTypeOK
    <2>2. passwordOf # Unset => pc'[passwordOf] # "idle"
        BY <1>3, <2>1 DEF SignUpInv, PasswordsFit, Ended
    <2>3. \A d \in SignUpCalls : pc'[d] \in {"refer", "token", "done"} => pc[d] \in {"refer", "token", "done"}
        BY <1>3 DEF Ended
    <2>4. \A d \in SignUpCalls : pc'[d] = "write" => pc[d] = "write"
        BY <1>3 DEF Ended
    <2>5. overlapped => overlapped'
        BY DEF SignUpTurn
    <2> QED
        BY <2>1, <2>2, <2>3, <2>4, <2>5 DEF SignUpInv, PasswordsFit
<1>5. ReferralsFit'
    <2>1. \A d \in SignUpCalls : pc'[d] \in {"write", "refer"} => pc'[d] = pc[d]
        BY <1>3 DEF Ended
    <2>2. failures' = 0 => \A d \in SignUpCalls : pc[d] = "refer" => pc'[d] = "refer"
        BY DEF SignUpTurn
    <2> QED
        BY <2>1, <2>2 DEF SignUpInv, ReferralsFit
<1>6. SignUpsTakeTurns'
    <2> SUFFICES ASSUME Undisturbed'
                 PROVE  /\ \A d \in SignUpCalls : pc'[d] = "write" => claim[d].referredBy = referredBy
                        /\ referredBy # MailUser =>
                            \/ referral = referredBy
                            \/ \E d \in SignUpCalls :
                                pc'[d] = "refer" /\ referral = Unset /\ claim[d].code = referredBy
        BY SignUpsAlone DEF SignUpsTakeTurns
    <2>1. Undisturbed /\ failures' = 0
        BY DEF Undisturbed, SignUpTurn
    <2>2. \A d \in SignUpCalls : pc'[d] = "write" => pc[d] = "write"
        BY <1>3 DEF Ended
    <2>3. \A d \in SignUpCalls : pc[d] = "refer" => pc'[d] = "refer"
        BY <2>1 DEF SignUpTurn
    <2> QED
        BY <2>1, <2>2, <2>3 DEF SignUpInv, SignUpsTakeTurns
<1> QED
    BY <1>1, <1>2, <1>4, <1>5, <1>6 DEF SignUpInv

LEMMA WriteStep ==
    ASSUME SignUpInv, IdentityInv, Only(SignUpPart), NEW c \in SignUpCalls, WriteAccount(c)
    PROVE  SignUpInv'
<1> USE SignUpParts
<1>1. /\ pc[c] = "write" /\ claim[c] \in Claims /\ UNCHANGED <<referral, linked, claim, answered>>
      /\ referredBy \in Namings /\ (Refers(c) <=> claim[c].code \in Referrers)
    BY DEF WriteAccount, SignUpInv, ClaimsFit, SignUpsTypeOK, Namings, Refers
<1>2. CASE claim[c].exists \/ MailUser \notin users
    <2>1. /\ users' = users \cup {MailUser} /\ passwordOf' = c
          /\ Goto(c, IF Refers(c) THEN "refer" ELSE "token")
          /\ referredBy' = CASE claim[c].referredBy # Unset -> claim[c].referredBy
                             [] claim[c].referredBy = Unset /\ claim[c].code # Unset -> claim[c].code
                             [] claim[c].referredBy = Unset /\ claim[c].code = Unset -> referredBy
        BY <1>2 DEF WriteAccount
    <2>2. /\ SignUpTurn(c) /\ failures' = failures
          /\ pc'[c] = IF Refers(c) THEN "refer" ELSE "token"
        BY <1>1, <2>1, SignUpTurnsTaken DEF SignUpSteps, Ended
    <2>3. \/ referredBy' = claim[c].referredBy /\ claim[c].referredBy # Unset
          \/ referredBy' = claim[c].code /\ claim[c].code # Unset /\ claim[c].referredBy = Unset
          \/ referredBy' = referredBy /\ claim[c].code = Unset /\ claim[c].referredBy = Unset
        BY <2>1
    <2>4. SignUpsTypeOK'
        BY <1>1, <2>1, <2>2, <2>3 DEF SignUpInv, SignUpsTypeOK, AllUsers, SignUpTurn, Claims, Namings
    <2>5. ClaimsFit'
        BY <1>1, <2>1, <2>2 DEF SignUpInv, ClaimsFit, SignUpTurn
    <2>6. PasswordsFit'
        <3>1. \A d \in SignUpCalls : d # c /\ pc[d] = "write" => overlapped' /\ (claim[d].exists => claim[c].exists)
            <4>1. \A d \in SignUpCalls : d # c /\ pc[d] = "write" => overlapped'
                BY <2>2 DEF SignUpTurn, SignUpSteps
            <4> QED
                BY <1>2, <4>1 DEF SignUpInv, ClaimsFit
        <3>2. \A d \in SignUpCalls : d # c /\ pc[d] \in {"refer", "token", "done"} => overlapped' /\ claim[d].exists
            <4> SUFFICES ASSUME NEW d \in SignUpCalls, d # c, pc[d] \in {"refer", "token", "done"}
                         PROVE  overlapped' /\ claim[d].exists
                OBVIOUS
            <4>1. CASE passwordOf # d
                BY <2>2, <4>1 DEF SignUpInv, PasswordsFit, SignUpTurn
            <4>2. CASE passwordOf = d
                <5>1. overlapped /\ MailUser \in users /\ (claim[c].exists => claim[d].exists)
                    BY <1>1, <4>2 DEF SignUpInv, PasswordsFit
                <5> QED
                    BY <1>2, <2>2, <5>1 DEF SignUpTurn
            <4> QED
                BY <4>1, <4>2
        <3> QED
            BY <1>1, <2>1, <2>2, <3>1, <3>2 DEF PasswordsFit, SignUpTurn
    <2>7. ReferralsFit'
        <3>1. referredBy # Unset => referredBy' # Unset
            BY <2>3
        <3>2. Refers(c) => referredBy' # Unset
            BY <1>1, <2>3
        <3>3. \A d \in SignUpCalls : pc[d] = "refer" => pc'[d] = "refer"
            BY <1>1, <2>2 DEF SignUpTurn
        <3>4. \A d \in SignUpCalls : pc'[d] = "refer" => pc[d] = "refer" \/ (d = c /\ Refers(c))
            BY <2>2 DEF SignUpTurn
        <3>5. \A d \in SignUpCalls : pc'[d] = "write" => pc[d] = "write"
            BY <2>2 DEF SignUpTurn
        <3>6. Refers(c) => \E d \in SignUpCalls : pc'[d] = "refer"
            BY <2>2
        <3>7. referredBy' \in Referrers => referredBy \in Referrers \/ claim[c].referredBy \in Referrers \/ Refers(c)
            BY <1>1, <2>3
        <3> QED
            BY <1>1, <2>2, <3>1, <3>2, <3>3, <3>4, <3>5, <3>6, <3>7 DEF SignUpInv, ReferralsFit
    <2>8. SignUpsTakeTurns'
        <3> SUFFICES ASSUME Undisturbed'
                     PROVE  /\ \A d \in SignUpCalls : pc'[d] # "write"
                            /\ referredBy' # MailUser =>
                                \/ referral = referredBy'
                                \/ pc'[c] = "refer" /\ referral = Unset /\ claim[c].code = referredBy'
            BY <1>1, <2>2, SignUpsAlone DEF SignUpsTakeTurns
        <3>1. Undisturbed /\ \A d \in SignUpPart \ {c} : pc'[d] = pc[d] /\ pc[d] \notin SignUpSteps
            BY <2>2 DEF SignUpTurn, Undisturbed
        <3>2. \A d \in SignUpCalls : pc'[d] # "write"
            BY <2>2, <3>1 DEF SignUpSteps
        <3>3. claim[c].referredBy = referredBy /\ (referredBy # MailUser => referral = referredBy)
            BY <1>1, <3>1 DEF SignUpInv, SignUpsTakeTurns, SignUpSteps
        <3> QED
            BY <1>1, <2>2, <2>3, <3>2, <3>3 DEF Claims, Namings
    <2> QED
        BY <2>2, <2>4, <2>5, <2>6, <2>7, <2>8 DEF SignUpInv
<1>3. CASE ~(claim[c].exists \/ MailUser \notin users)
    <2>1. Goto(c, "refused") /\ UNCHANGED signUpVars
        BY <1>3 DEF WriteAccount, signUpVars
    <2>2. SignUpTurn(c) /\ failures' = failures /\ pc'[c] = "refused"
        BY <1>1, <2>1, SignUpTurnsTaken DEF SignUpSteps, Ended
    <2>3. pc'[c] \in Ended
        BY <2>2 DEF Ended
    <2> QED
        BY <1>1, <2>1, <2>2, <2>3, SignUpRests DEF signUpVars, SignUpInv, SignUpsTypeOK
<1> QED
    BY <1>2, <1>3

LEMMA ReferStep ==
    ASSUME SignUpInv, NEW c \in SignUpCalls, Only(SignUpPart), RecordReferral(c)
    PROVE  SignUpInv'
<1> USE SignUpParts
<1>1. /\ pc[c] = "refer" /\ claim[c].code \in Referrers /\ Goto(c, "token")
      /\ UNCHANGED <<users, passwordOf, referredBy, linked, claim, answered>>
      /\ referral' = IF referral = Unset THEN claim[c].code ELSE referral
    BY DEF RecordReferral, SignUpInv, ReferralsFit
<1>2. SignUpTurn(c) /\ failures' = failures /\ pc'[c] = "token"
    BY <1>1, SignUpTurnsTaken DEF SignUpSteps, Ended
<1>3. \A d \in SignUpCalls : pc'[d] = IF d = c THEN "token" ELSE pc[d]
    BY <1>2 DEF SignUpTurn
<1>4. overlapped' = overlapped /\ referral' # Unset
    BY <1>1 DEF Goto
<1>5. SignUpsTypeOK'
    BY <1>1, <1>2 DEF SignUpInv, SignUpsTypeOK, SignUpTurn
<1>6. ClaimsFit' /\ PasswordsFit'
    <2>1. ClaimsFit'
        BY <1>1, <1>3 DEF SignUpInv, ClaimsFit
    <2>2. PasswordsFit'
        BY <1>1, <1>3, <1>4 DEF SignUpInv, PasswordsFit, SignUpsTypeOK
    <2> QED
        BY <2>1, <2>2
<1>7. ReferralsFit'
    BY <1>1, <1>2, <1>3, <1>4 DEF SignUpInv, ReferralsFit
<1>8. SignUpsTakeTurns'
    <2> SUFFICES ASSUME Undisturbed'
                 PROVE  /\ \A d \in SignUpCalls : pc'[d] = "write" => claim'[d].referredBy = referredBy'
                        /\ referredBy' # MailUser => referral' = referredBy'
        BY <1>2, SignUpsAlone DEF SignUpsTakeTurns
    <2>1. Undisturbed /\ \A d \in SignUpPart \ {c} : pc[d] \notin SignUpSteps
        BY <1>2, <1>4 DEF SignUpTurn, Undisturbed
    <2>2. \A d \in SignUpCalls : pc'[d] # "write"
        BY <1>3, <2>1 DEF SignUpSteps
    <2>3. referredBy # MailUser => referral = referredBy \/ (referral = Unset /\ claim[c].code = referredBy)
        BY <2>1 DEF SignUpInv, SignUpsTakeTurns, SignUpSteps
    <2>4. referredBy # Unset
        BY <1>1 DEF SignUpInv, ReferralsFit
    <2> QED
        BY <1>1, <2>2, <2>3, <2>4
<1> QED
    BY <1>2, <1>5, <1>6, <1>7, <1>8 DEF SignUpInv

LEMMA SocialStep ==
    ASSUME SignUpInv, IdentityInv, Only(SignUpPart),
           \/ FindIdentity
           \/ \E c \in SocialCalls : FindByEmail(c) \/ LinkIdentity(c)
    PROVE  SignUpInv'
<1> USE SignUpParts
<1>1. /\ users \subseteq AllUsers /\ linked \in [Identities -> AllUsers \cup {Unset}]
      /\ answered \in [SocialCalls -> AllUsers \cup {Unset}] /\ failures \in Nat
    BY DEF SignUpInv, SignUpsTypeOK
<1>2. CASE FindIdentity
    <2> DEFINE c == NextOf(SocialCalls)
    <2>1. c \in SocialCalls
        BY <1>2, NextIsUnused DEF FindIdentity
    <2> HIDE DEF c
    <2>2. PICK i \in Identities, told \in BOOLEAN :
              /\ Begin(c, CASE linked[i] # Unset -> "done"
                            [] linked[i] = Unset /\ told -> "email"
                            [] linked[i] = Unset /\ ~told -> "create")
              /\ claim' = [claim EXCEPT ![c] = [identity |-> i, told |-> told]]
              /\ answered' = [answered EXCEPT ![c] = linked[i]]
              /\ UNCHANGED <<users, passwordOf, referredBy, referral, linked>>
        BY <1>2 DEF FindIdentity, c
    <2>3. PICK step \in {"done", "email", "create"} : Begin(c, step)
        BY <2>2
    <2>4. SignUpTurn(c) /\ failures' = failures /\ pc'[c] = step
        BY <2>1, <2>3, SignUpTurnsTaken DEF SignUpSteps, Ended
    <2>5. answered' \in [SocialCalls -> AllUsers \cup {Unset}]
        BY <1>1, <2>2
    <2>6. \A d \in SignUpCalls : claim'[d] = claim[d]
        BY <2>1, <2>2 DEF IdentityInv
    <2> QED
        BY <1>1, <2>1, <2>2, <2>4, <2>5, <2>6, SignUpRests DEF Ended
<1>3. ASSUME NEW c \in SocialCalls, FindByEmail(c) PROVE SignUpInv'
    <2>1. PICK step \in {"link", "create"} : pc[c] = "email" /\ Goto(c, step) /\ UNCHANGED signUpVars
        BY <1>3 DEF FindByEmail
    <2>2. SignUpTurn(c) /\ failures' = failures /\ pc'[c] = step
        BY <2>1, SignUpTurnsTaken DEF SignUpSteps, Ended
    <2> QED
        BY <1>1, <2>1, <2>2, SignUpRests DEF Ended, signUpVars
<1>4. ASSUME NEW c \in SocialCalls, LinkIdentity(c) PROVE SignUpInv'
    <2> DEFINE u == UserOfClaim(c)
    <2>1. u \in AllUsers
        BY <1>4 DEF LinkIdentity, UserOfClaim, AllUsers, IdentityInv
    <2>2. PICK step \in {"done", "refused"} : pc[c] \in {"link", "create"} /\ Goto(c, step)
        BY <1>4 DEF LinkIdentity
    <2>3. /\ users' = users \/ users' = users \cup {u}
          /\ linked' = linked \/ linked' = [linked EXCEPT ![claim[c].identity] = u]
          /\ answered' = answered \/ answered' = [answered EXCEPT ![c] = u]
          /\ UNCHANGED <<passwordOf, referredBy, referral, claim>>
        BY <1>4 DEF LinkIdentity
    <2>4. SignUpTurn(c) /\ failures' = failures /\ pc'[c] = step
        BY <2>2, SignUpTurnsTaken DEF SignUpSteps, Ended
    <2> HIDE DEF u
    <2>5. /\ users' \subseteq AllUsers /\ users \subseteq users'
          /\ linked' \in [Identities -> AllUsers \cup {Unset}]
          /\ answered' \in [SocialCalls -> AllUsers \cup {Unset}]
        BY <1>1, <2>1, <2>3
    <2> QED
        BY <1>1, <2>3, <2>4, <2>5, SignUpRests DEF Ended
<1> QED
    BY <1>2, <1>3, <1>4

LEMMA SignUpStep ==
    ASSUME SignUpInv, IdentityInv, Only(SignUpPart), SignUpsNext
    PROVE  SignUpInv'
<1> USE SignUpParts
<1>1. /\ users \subseteq AllUsers /\ linked \in [Identities -> AllUsers \cup {Unset}]
      /\ answered \in [SocialCalls -> AllUsers \cup {Unset}] /\ failures \in Nat
    BY DEF SignUpInv, SignUpsTypeOK
<1>2. ASSUME NEW c \in SignUpCalls, AnswerSignUp(c) PROVE SignUpInv'
    <2>1. pc[c] = "token" /\ Goto(c, "done") /\ UNCHANGED signUpVars
        BY <1>2 DEF AnswerSignUp
    <2>2. SignUpTurn(c) /\ failures' = failures /\ pc'[c] = "done"
        BY <2>1, SignUpTurnsTaken DEF SignUpSteps, Ended
    <2> QED
        BY <1>1, <2>1, <2>2, SignUpRests DEF Ended, signUpVars
<1>3. ASSUME NEW c \in SignUpPart, SignUpCutShort(c) PROVE SignUpInv'
    <2>1. /\ pc'[c] = "dead" /\ failures' = failures + 1 /\ UNCHANGED signUpVars /\ pc[c] # "idle"
          /\ overlapped' = overlapped /\ pc[c] \notin Ended
          /\ \A d \in SignUpPart \ {c} : pc'[d] = pc[d]
        BY <1>3 DEF SignUpCutShort, CutShort, MovesTo, Busy, Started
    <2>2. pc[c] \in SignUpSteps
        BY <2>1 DEF SignUpInv, SignUpsTypeOK, SignUpSteps
    <2>3. SignUpTurn(c)
        BY <2>1, <2>2 DEF SignUpTurn, SignUpInv, SignUpsTakeTurns, SigningUp, Ended
    <2> QED
        BY <1>1, <2>1, <2>3, SignUpRests DEF Ended, signUpVars
<1> QED
    BY <1>2, <1>3, ReadStep, WriteStep, ReferStep, SocialStep DEF SignUpsNext

LEMMA SignUpInductive == SignUpInv /\ IdentityInv /\ [Next]_vars => SignUpInv'
<1> SUFFICES ASSUME SignUpInv, IdentityInv, [Next]_vars PROVE SignUpInv'
    OBVIOUS
<1> USE SignUpParts
<1>1. FailuresGrow /\ OverlapStays
    BY CountersStep
<1>2. ASSUME UNCHANGED signUpVars, \A c \in SignUpPart : pc'[c] = pc[c],
             overlapped' = overlapped \/ \A c \in SignUpPart : pc[c] = "idle"
      PROVE  SignUpInv'
    <2>1. SignUpsTypeOK' /\ ClaimsFit' /\ SigningUp' = SigningUp
        BY <1>2 DEF SignUpInv, SignUpsTypeOK, ClaimsFit, signUpVars, SigningUp
    <2>2. failures' \in Nat /\ (failures' = 0 => failures = 0) /\ (Undisturbed' => Undisturbed)
        BY <1>1 DEF SignUpInv, FailuresGrow, OverlapStays, Undisturbed
    <2>3. PasswordsFit'
        BY <1>1, <1>2 DEF SignUpInv, PasswordsFit, signUpVars, OverlapStays, SignUpsTypeOK
    <2>4. ReferralsFit'
        BY <1>2, <2>2 DEF SignUpInv, ReferralsFit, signUpVars
    <2>5. SignUpsTakeTurns'
        BY <1>1, <1>2, <2>1, <2>2 DEF SignUpInv, SignUpsTakeTurns, signUpVars, OverlapStays
    <2> QED
        BY <2>1, <2>2, <2>3, <2>4, <2>5 DEF SignUpInv
<1>3. CASE UNCHANGED vars
    BY <1>2, <1>3 DEF vars, requestVars
<1>4. CASE Next
    <2>1. PICK i \in 1..11 : StepOf(i)
        BY <1>4, StepsOfParts
    <2>2. CASE i = 3
        BY <2>1, <2>2, SignUpStep, PartsByNumber DEF StepOf
    <2>3. CASE i # 3
        <3>1. \A c \in SignUpPart : pc[c] = "idle" /\ pc'[c] = "idle"
            BY <2>1, <2>3, OthersAreIdle, PartsByNumber
        <3>2. UNCHANGED signUpVars
            BY <2>1, <2>3 DEF StepOf
        <3> QED
            BY <1>2, <3>1, <3>2
    <2> QED
        BY <2>2, <2>3
<1> QED
    BY <1>3, <1>4

LEMMA SignUpHolds ==
    ASSUME SignUpInv
    PROVE  SignUpsTypeOK /\ PasswordsSurvive /\ ReferralsMatch
<1> USE SignUpParts
<1>1. PasswordsSurvive
    BY DEF SignUpInv, PasswordsFit, PasswordsSurvive
<1>2. ReferralsMatch
    <2>1. Busy = {} => \A c \in SignUpCalls : pc[c] # "refer"
        BY DEF Busy, Started, Ended
    <2> QED
        BY <2>1 DEF SignUpInv, ReferralsFit, SignUpsTakeTurns, ReferralsMatch, Undisturbed
<1> QED
    BY <1>1, <1>2 DEF SignUpInv

ConsoleTyped ==
    /\ OrganizersTypeOK

LEMMA ConsoleTypesStep ==
    ASSUME ConsoleTyped, ConsoleInv, ConsoleInv', OrganizersNext
    PROVE  ConsoleTyped'
<1> USE OrganizersAssumption
    DEF ConsoleTyped, OrganizersTypeOK, Begin, Goto, CutShort, MovesTo, Ended, ConsoleCalls
<1>1. ASSUME NEW c \in Reviews, Approve(c) PROVE ConsoleTyped'
    BY <1>1 DEF Approve
<1>2. ASSUME NEW c \in Reviews, Suspend(c) PROVE ConsoleTyped'
    BY <1>2 DEF Suspend
<1>12. ASSUME NEW c \in Reviews, SetCommission(c) PROVE ConsoleTyped'
    BY <1>12 DEF SetCommission
<1>3. ASSUME NEW c \in Publishes, AskToPublish(c) PROVE ConsoleTyped'
    BY <1>3 DEF AskToPublish, organizerVars
<1>4. ASSUME NEW c \in Publishes, Publish(c) PROVE ConsoleTyped'
    BY <1>4 DEF Publish, Events
<1>5. ASSUME NEW c \in Edits, ReadEventToEdit(c) PROVE ConsoleTyped'
    <2>1. UNCHANGED <<approval, commission, bank, event>> /\ charged' = charged
        BY <1>5 DEF ReadEventToEdit
    <2>2. draft' \in [Edits \cup Streams -> Events]
        BY DEF ConsoleInv
    <2>3. \A d \in Reviews \cup ConsoleCalls : pc'[d] \in {"idle", "write", "call"} \cup Ended
        BY DEF ConsoleInv
    <2> QED
        BY <2>1, <2>2, <2>3
<1>6. ASSUME NEW c \in Edits, UpdateEvent(c) PROVE ConsoleTyped'
    BY <1>6 DEF UpdateEvent, WriteDates, Events
<1>7. ASSUME NEW c \in Streams, ReadEventToStream(c) PROVE ConsoleTyped'
    <2>1. UNCHANGED <<approval, commission, bank, event>> /\ charged' = charged
        BY <1>7 DEF ReadEventToStream
    <2>2. draft' \in [Edits \cup Streams -> Events]
        BY DEF ConsoleInv
    <2>3. \A d \in Reviews \cup ConsoleCalls : pc'[d] \in {"idle", "write", "call"} \cup Ended
        BY DEF ConsoleInv
    <2> QED
        BY <2>1, <2>2, <2>3
<1>8. ASSUME NEW c \in Streams, SetStream(c) PROVE ConsoleTyped'
    BY <1>8 DEF SetStream, Events
<1>9. ASSUME NEW c \in Payouts, CreateSubaccount(c) PROVE ConsoleTyped'
    BY <1>9 DEF CreateSubaccount, RateInForce
<1>10. ASSUME NEW c \in Payouts, StoreBankDetails(c) PROVE ConsoleTyped'
    BY <1>10 DEF StoreBankDetails
<1>11. ASSUME NEW c \in ConsoleCalls, ConsoleCutShort(c) PROVE ConsoleTyped'
    BY <1>11 DEF ConsoleCutShort, organizerVars
<1> QED
    BY <1>1, <1>2, <1>3, <1>4, <1>5, <1>6, <1>7, <1>8, <1>9, <1>10, <1>11, <1>12 DEF OrganizersNext

DeviceTyped ==
    /\ DevicesTypeOK
    /\ \A c \in SignIns : pc[c] \in {"getToken", "send", "listen"} => task[c][1] \in PhoneUsers

LEMMA DeviceTypesStep ==
    ASSUME DeviceTyped, DeviceInv, DeviceInv', DevicesNext
    PROVE  DeviceTyped'
<1> USE DevicesAssumption
    DEF DeviceTyped, DevicesTypeOK, Begin, Goto, CutShort, MovesTo, Ended, Holders
<1>1. ASSUME NEW c \in SignIns \cup SignOuts, GetFcmToken(c) PROVE DeviceTyped'
    BY <1>1 DEF GetFcmToken
<1>2. ASSUME NEW c \in SignIns \cup SignOuts, DeviceCutShort(c) PROVE DeviceTyped'
    BY <1>2 DEF DeviceCutShort, deviceVars
<1>3. ASSUME NEW c \in SignIns, SignIn(c) PROVE DeviceTyped'
    BY <1>3 DEF SignIn
<1>4. ASSUME NEW c \in SignIns, RegisterDevice(c) PROVE DeviceTyped'
    BY <1>4 DEF RegisterDevice
<1>5. ASSUME NEW c \in SignIns, ListenForRefresh(c) PROVE DeviceTyped'
    BY <1>5 DEF ListenForRefresh
<1>6. ASSUME NEW c \in SignOuts, SignOut(c) PROVE DeviceTyped'
    BY <1>6 DEF SignOut
<1>7. ASSUME NEW c \in SignOuts, UnregisterDevice(c) PROVE DeviceTyped'
    BY <1>7 DEF UnregisterDevice
<1>8. ASSUME NEW c \in SignOuts, UnregisterFails(c) PROVE DeviceTyped'
    BY <1>8 DEF UnregisterFails, deviceVars
<1>9. ASSUME NEW c \in SignOuts, ClearSession(c) PROVE DeviceTyped'
    BY <1>9 DEF ClearSession
<1>10. ASSUME RotateToken PROVE DeviceTyped'
    BY <1>10 DEF RotateToken, requestVars
<1>11. ASSUME RegisterRefreshed PROVE DeviceTyped'
    BY <1>11 DEF RegisterRefreshed, requestVars
<1>12. ASSUME DropStaleDevice PROVE DeviceTyped'
    BY <1>12 DEF DropStaleDevice, requestVars
<1> QED
    BY <1>1, <1>2, <1>3, <1>4, <1>5, <1>6, <1>7, <1>8, <1>9, <1>10, <1>11, <1>12 DEF DevicesNext

ScreenTyped ==
    /\ ScreensTypeOK
    /\ \A c \in Scans : pc[c] \in AtApi => scan[c].by \in Scanners /\ scan[c].code \in Codes

LEMMA ScreenTypesStep ==
    ASSUME ScreenTyped, ScreenInv, ScreenInv', ScreensNext
    PROVE  ScreenTyped'
<1> DEFINE Answers == {"none", "admit", "used", "voided", "error"}
           Requests == [by : Scanners \cup {Nothing}, code : Codes \cup {Nothing},
                        read : Statuses \cup {"none"}, says : Answers]
(* What the invariant of the screens says of the types.                    *)
<1>0. /\ status' \in [Tickets -> Statuses] /\ admitted' \in [Codes -> SUBSET Scans]
      /\ denied' \subseteq Codes /\ crossed' \subseteq Scanners
      /\ \A c \in Scans : pc'[c] \in {"idle"} \cup AtApi \cup Ended
      /\ \A c \in Scans : pc'[c] \in AtApi => scan'[c].by \in Scanners /\ scan'[c].code \in Codes
    BY ScreensAssumption DEF ScreenInv, AdmissionInv, Scanners
<1>t. ASSUME staff' \subseteq Scanners, last' \in [Scanners -> Codes \cup {Nothing}],
             scan' \in [Scans -> Requests], shown' \in [Scanners -> Codes \cup {Nothing}],
             failed' \in [Scanners -> Codes \cup {Nothing}]
      PROVE  ScreenTyped'
    BY <1>0, <1>t DEF ScreenTyped, ScreensTypeOK
<1>n. NoScan \in Requests
    BY DEF NoScan, Statuses
<1>1. /\ staff \subseteq Scanners /\ last \in [Scanners -> Codes \cup {Nothing}]
      /\ scan \in [Scans -> Requests] /\ shown \in [Scanners -> Codes \cup {Nothing}]
      /\ failed \in [Scanners -> Codes \cup {Nothing}] /\ status \in [Tickets -> Statuses]
      /\ \A c \in Scans : pc[c] \in AtApi => scan[c].by \in Scanners /\ scan[c].code \in Codes
    BY DEF ScreenTyped, ScreensTypeOK
<1> USE <1>1
<1> HIDE DEF Requests
<1>2. ASSUME NEW c \in Scans, NEW s \in Scanners, DetectCode(c, s) PROVE ScreenTyped'
    <2>1. PICK k \in Codes :
              /\ scan' = [scan EXCEPT ![c] = ScanOf(s, k)]
              /\ last' = [last EXCEPT ![s] = k]
              /\ failed' = [failed EXCEPT ![s] = Nothing]
              /\ UNCHANGED <<staff, shown>>
        BY <1>2 DEF DetectCode
    <2>2. ScanOf(s, k) \in Requests
        BY DEF NoScan, ScanOf, Requests, Statuses
    <2> QED
        BY <1>t, <2>1, <2>2
<1>3. ASSUME NEW c \in Scans, ReadTicket(c) PROVE ScreenTyped'
    <2>1. \/ scan' = [scan EXCEPT ![c].says = "error"]
          \/ scan[c].code \in Tickets /\ scan' = [scan EXCEPT ![c].read = status[scan[c].code]]
        BY <1>3 DEF ReadTicket
    <2>2. scan' \in [Scans -> Requests]
        <3>1. CASE scan' = [scan EXCEPT ![c].says = "error"]
            BY <3>1 DEF Requests
        <3>2. ASSUME NEW r \in Statuses, scan' = [scan EXCEPT ![c].read = r]
              PROVE  scan' \in [Scans -> Requests]
            BY <3>2 DEF Requests
        <3> QED
            BY <2>1, <3>1, <3>2
    <2> QED
        BY <1>3, <1>t, <2>2 DEF ReadTicket
<1>4. ASSUME NEW c \in Scans, ScanTicket(c) PROVE ScreenTyped'
    <2>1. PICK x \in Answers : scan' = [scan EXCEPT ![c].says = x]
        BY <1>4 DEF ScanTicket, Refusal
    <2>2. scan' \in [Scans -> Requests]
        BY <2>1 DEF Requests
    <2> QED
        BY <1>4, <1>t, <2>2 DEF ScanTicket
<1>5. ASSUME NEW c \in Scans, ShowOutcome(c) \/ ScanLost(c) PROVE ScreenTyped'
    <2>1. /\ \E e \in BOOLEAN : Shows(c, e)
          /\ scan' = [scan EXCEPT ![c] = NoScan]
          /\ UNCHANGED <<staff, last>>
          /\ scan[c].code \in Codes
        BY <1>5 DEF ShowOutcome, ScanLost, AtApi
    <2>2. PICK e \in BOOLEAN : Shows(c, e)
        BY <2>1
    <2>3. /\ shown' \in [Scanners -> Codes \cup {Nothing}]
          /\ failed' \in [Scanners -> Codes \cup {Nothing}]
        BY <2>1, <2>2 DEF Shows
    <2>4. scan' \in [Scans -> Requests]
        BY <1>n, <2>1
    <2> QED
        BY <1>t, <2>1, <2>3, <2>4
<1>6. ASSUME NEW s \in Scanners, LosesRole(s) PROVE ScreenTyped'
    BY <1>6, <1>t DEF LosesRole
<1>7. ASSUME NEW k \in Tickets, VoidTicket(k) PROVE ScreenTyped'
    BY <1>7, <1>t DEF VoidTicket
<1> QED
    BY <1>2, <1>3, <1>4, <1>5, <1>6, <1>7 DEF ScreensNext

SignInTyped ==
    /\ IdentityTypeOK
    /\ \A c \in LogIns : pc[c] = "name" => entering[c] \in NamedUsers

LEMMA SignInTypesStep ==
    ASSUME SignInTyped, SignInInv, SignInInv', IdentityNext
    PROVE  SignInTyped'
<1> USE IdentityAssumption
    DEF SignInTyped, IdentityTypeOK, Begin, Goto, CutShort, MovesTo, Ended
<1>1. ASSUME NEW c \in LogIns, NEW u \in AppUsers, LogIn(c, u) PROVE SignInTyped'
    BY <1>1 DEF LogIn
<1>2. ASSUME NEW c \in LogOffs, LogOff(c) PROVE SignInTyped'
    BY <1>2 DEF LogOff, identityVars
<1>3. ASSUME NEW c \in LogOffs, DeviceForgotten(c) PROVE SignInTyped'
    BY <1>3 DEF DeviceForgotten, identityVars
<1>4. ASSUME NEW c \in LogIns \cup LogOffs, PutToken(c) PROVE SignInTyped'
    BY <1>4 DEF PutToken, Owner
<1>5. ASSUME NEW c \in LogIns \cup LogOffs, PutEmail(c) PROVE SignInTyped'
    BY <1>5 DEF PutEmail, Owner, WritesName
<1>6. ASSUME NEW c \in LogIns \cup LogOffs, PutName(c) PROVE SignInTyped'
    BY <1>6 DEF PutName, Owner
<1>7. ASSUME NEW c \in LogIns \cup LogOffs, Remember(c) PROVE SignInTyped'
    BY <1>7 DEF Remember, Owner
<1>8. ASSUME Relaunch PROVE SignInTyped'
    BY <1>8 DEF Relaunch
<1> QED
    BY <1>1, <1>2, <1>3, <1>4, <1>5, <1>6, <1>7, <1>8 DEF IdentityNext

PartnerTyped ==
    /\ grantCode \in [Grants -> {"none", "fresh", "expired", "used"}]
    /\ access \in [Askers -> [state : {"none", "live", "expired"},
                              client : Registrations \cup {NoParty},
                              user : GrantUsers \cup {NoParty}, scopes : SUBSET Scopes]]
    /\ apiKey \in [KeyCreations -> {"none", "live", "revoked"}]
    /\ lastUsed \in [KeyCreations -> {"never", "lately", "earlier"}]
    /\ served \in [TokenCalls \cup KeyCalls -> Registrations \cup KeyCreations \cup {NoParty}]
    /\ revokedBefore \in [TokenCalls \cup KeyCalls -> SUBSET (Registrations \cup KeyCreations)]
    /\ \A c \in PartnerCalls :
        pc[c] \in {"idle", "create", "revoke", "client", "issue", "code", "burn", "token",
                   "verify", "touch"} \cup Ended

LEMMA PartnersTyped == PartnerTyped /\ PartnerInv => PartnersTypeOK
<1> SUFFICES ASSUME PartnerTyped, PartnerInv PROVE PartnersTypeOK
    OBVIOUS
<1> QED
    BY DEF PartnerTyped, PartnerInv, PartnersTypeOK, ClientRow, AskRow

LEMMA PartnerTypesStep ==
    ASSUME PartnerTyped, GrantInv, PartnersNext
    PROVE  PartnerTyped'
<1> USE PartnersAssumption
    DEF PartnerTyped, Begin, Goto, CutShort, MovesTo, Ended, PartnerCalls, Askers
<1>1. ASSUME NEW c \in Registrations, Register(c) PROVE PartnerTyped'
    BY <1>1 DEF Register
<1>2. ASSUME NEW c \in Registrations, CreateClient(c) PROVE PartnerTyped'
    BY <1>2 DEF CreateClient
<1>3. ASSUME NEW c \in Revocations, NEW k \in Registrations, AskToRevoke(c, k) PROVE PartnerTyped'
    BY <1>3 DEF AskToRevoke
<1>4. ASSUME NEW c \in Revocations, RevokeClient(c) PROVE PartnerTyped'
    BY <1>4 DEF RevokeClient
<1>5. ASSUME NEW c \in Grants, NEW k \in Registrations, NEW u \in GrantUsers, NEW uri \in Uris \cup {NoParty}, NEW S \in ScopeSets, Grant(c, k, u, uri, S) PROVE PartnerTyped'
    BY <1>5 DEF Grant
<1>6. ASSUME NEW c \in Grants, ReadClientToGrant(c) PROVE PartnerTyped'
    BY <1>6 DEF ReadClientToGrant, partnerVars
<1>7. ASSUME NEW c \in Grants, IssueCode(c) PROVE PartnerTyped'
    BY <1>7 DEF IssueCode
<1>8. ASSUME NEW c \in Exchanges, NEW k \in Registrations, NEW g \in Grants, NEW uri \in Uris \cup {NoParty}, Exchange(c, k, g, uri) PROVE PartnerTyped'
    BY <1>8 DEF Exchange
<1>9. ASSUME NEW c \in Exchanges, ReadClientToExchange(c) PROVE PartnerTyped'
    BY <1>9 DEF ReadClientToExchange, partnerVars
<1>10. ASSUME NEW c \in Exchanges, ReadCode(c) PROVE PartnerTyped'
    BY <1>10 DEF ReadCode, partnerVars
<1>11. ASSUME NEW c \in Exchanges, BurnCode(c) PROVE PartnerTyped'
    BY <1>11 DEF BurnCode
<1>12. ASSUME NEW c \in Exchanges, IssueUserToken(c) PROVE PartnerTyped'
    <2> DEFINE g == ask[c].of
    <2>1. ask[c].client \in Registrations /\ g \in Grants
        BY <1>12 DEF IssueUserToken, GrantInv, PartnerInv
    <2>2. ask[g] \in AskRow
        BY <2>1 DEF GrantInv, PartnerInv
    <2>3. ask[g].scopes \subseteq Scopes /\ ask[g].user \in GrantUsers \cup {NoParty}
        BY <2>2 DEF AskRow
    <2> QED
        BY <1>12, <2>1, <2>3 DEF IssueUserToken
<1>13. ASSUME NEW c \in Issuings, NEW k \in Registrations, NEW S \in ScopeSets, AskToken(c, k, S) PROVE PartnerTyped'
    BY <1>13 DEF AskToken
<1>14. ASSUME NEW c \in Issuings, ReadClientToIssue(c) PROVE PartnerTyped'
    BY <1>14 DEF ReadClientToIssue, partnerVars
<1>15. ASSUME NEW c \in Issuings, IssueClientToken(c) PROVE PartnerTyped'
    <2>1. ask[c].client \in Registrations /\ ask[c] \in AskRow
        BY <1>15 DEF IssueClientToken, GrantInv, PartnerInv
    <2>2. ask[c].scopes \subseteq Scopes
        BY <2>1 DEF AskRow
    <2> QED
        BY <1>15, <2>1, <2>2 DEF IssueClientToken, NoAccess
<1>16. ASSUME NEW c \in TokenCalls, VerifyToken(c) PROVE PartnerTyped'
    <2>1. ask[c].of \in Askers
        BY <1>16 DEF VerifyToken, GrantInv, PartnerInv
    <2> QED
        BY <1>16, <2>1 DEF VerifyToken
<1>17. ASSUME NEW c \in TokenCalls, NEW t \in Askers, CallWithToken(c, t) PROVE PartnerTyped'
    <2>1. Revoked \subseteq Registrations \cup KeyCreations
        BY DEF Revoked, GrantInv, PartnerInv, MadeClients, Gone
    <2> QED
        BY <1>17, <2>1 DEF CallWithToken
<1>18. ASSUME NEW c \in KeyCreations, AskForKey(c) PROVE PartnerTyped'
    BY <1>18 DEF AskForKey, partnerVars
<1>19. ASSUME NEW c \in KeyCreations, CreateKey(c) PROVE PartnerTyped'
    BY <1>19 DEF CreateKey
<1>20. ASSUME NEW c \in KeyRevocations, RevokeKey(c) PROVE PartnerTyped'
    BY <1>20 DEF RevokeKey
<1>21. ASSUME NEW c \in KeyRevocations, NEW k \in KeyCreations, AskToRevokeKey(c, k) PROVE PartnerTyped'
    BY <1>21 DEF AskToRevokeKey
<1>22. ASSUME NEW c \in KeyCalls, ResolveKey(c) PROVE PartnerTyped'
    <2>1. ask[c].of \in KeyCreations
        BY <1>22 DEF ResolveKey, GrantInv, PartnerInv
    <2> QED
        BY <1>22, <2>1 DEF ResolveKey
<1>23. ASSUME NEW c \in KeyCalls, TouchKey(c) PROVE PartnerTyped'
    BY <1>23 DEF TouchKey
<1>24. ASSUME NEW c \in KeyCalls, NEW k \in KeyCreations, CallWithKey(c, k) PROVE PartnerTyped'
    <2>1. Revoked \subseteq Registrations \cup KeyCreations
        BY DEF Revoked, GrantInv, PartnerInv, MadeClients, Gone
    <2> QED
        BY <1>24, <2>1 DEF CallWithKey
<1>25. ASSUME NEW c \in PartnerCalls, PartnerCutShort(c) PROVE PartnerTyped'
    BY <1>25 DEF PartnerCutShort, partnerVars
<1>26. ASSUME Expire PROVE PartnerTyped'
    BY <1>26 DEF Expire, requestVars
<1>27. ASSUME MinutePasses PROVE PartnerTyped'
    BY <1>27 DEF MinutePasses, requestVars
<1> QED
    BY <1>1, <1>2, <1>3, <1>4, <1>5, <1>6, <1>7, <1>8, <1>9, <1>10, <1>11, <1>12, <1>13, <1>14, <1>15, <1>16, <1>17, <1>18, <1>19, <1>20, <1>21, <1>22, <1>23, <1>24, <1>25, <1>26, <1>27 DEF PartnersNext

ActsTyped ==
    /\ latest \in Acts \cup {NoRow}
    /\ finished \subseteq ActRows /\ freedEarly \subseteq ActRows
    /\ replaced \in BOOLEAN /\ stuck \in BOOLEAN

LEMMA PagesTyped == ActsTyped /\ ActsFit => PagesTypeOK
    BY DEF ActsTyped, ActsFit, PagesTypeOK

LEMMA ActsTypesStep ==
    ASSUME ActsTyped, ActsFit, PagesNext
    PROVE  ActsTyped'
<1> USE PagesAssumption
    DEF ActsTyped, Begin, Goto, CutShort, MovesTo, Ended
<1>1. ASSUME NEW h \in Handlers, NEW r \in ActRows, Press(h, r) PROVE ActsTyped'
    BY <1>1 DEF Press, TrackFreed
<1>2. ASSUME NEW h \in Handlers, NEW r \in ActRows, PressInvalid(h, r) PROVE ActsTyped'
    BY <1>2 DEF PressInvalid
<1>3. ASSUME NEW c \in Acts, PerformAct(c) PROVE ActsTyped'
    BY <1>3 DEF PerformAct
<1>4. ASSUME NEW c \in Acts, RefuseAct(c) PROVE ActsTyped'
    BY <1>4 DEF RefuseAct, pageVars
<1>5. ASSUME NEW c \in Acts, AskForList(c) PROVE ActsTyped'
    BY <1>5 DEF AskForList
<1>6. ASSUME NEW c \in Acts, ReadRows(c) PROVE ActsTyped'
    BY <1>6 DEF ReadRows
<1>7. ASSUME NEW c \in Acts, ShowRows(c) PROVE ActsTyped'
    BY <1>7 DEF ShowRows, TrackFreed
<1>8. ASSUME NEW c \in Acts, Succeed(c) PROVE ActsTyped'
    BY <1>8 DEF Succeed, TrackFreed, ActsFit, UnderWay, Busy, Started
<1>9. ASSUME NEW c \in Acts, FailAct(c) PROVE ActsTyped'
    BY <1>9 DEF FailAct, TrackFreed
<1> QED
    BY <1>1, <1>2, <1>3, <1>4, <1>5, <1>6, <1>7, <1>8, <1>9 DEF PagesNext

TabTyped ==
    /\ stored \in BrowserUsers \cup {NoUser}
    /\ header \in BOOLEAN /\ unheard \in BOOLEAN /\ ownChange \in BOOLEAN
    /\ changedSince \in BOOLEAN /\ problem \in BOOLEAN /\ sentAway \in BOOLEAN
    /\ openedAs \in BrowserUsers \cup {NoUser} /\ heldToken \in BrowserUsers \cup {NoUser}
    /\ shownUser \in BrowserUsers \cup {NoUser}
    /\ sentAs \in [PageCalls -> BrowserUsers \cup {NoUser}]
    /\ gate \in [state : {"absent", "loading", "ok", "unauth"},
                 path : Paths \cup {NoUser}, next : Paths \cup {NoUser}]
    /\ checkOf \in [GateCalls -> Paths \cup {NoUser}]
    /\ pc[Window] \in {"idle", "done"}

LEMMA BrowserTyped == TabTyped /\ PageInv /\ GateInv => BrowserTypeOK
    BY DEF TabTyped, PageInv, GateInv, BrowserTypeOK, BrowserCalls, Ended

LEMMA TabTypesStep ==
    ASSUME TabTyped, PageInv, GateInv, BrowserNext
    PROVE  TabTyped'
<1> USE BrowserAssumption
    DEF TabTyped, Begin, Goto, CutShort, MovesTo, Ended, headerVars, tabVars, gateVars, requestVars, BrowserCalls
<1>1. ASSUME OpenWindow PROVE TabTyped'
    BY <1>1 DEF OpenWindow
<1>2. ASSUME NEW u \in BrowserUsers \cup {NoUser}, ChangeElsewhere(u) PROVE TabTyped'
    BY <1>2 DEF ChangeElsewhere, Change
<1>3. ASSUME NEW u \in BrowserUsers \cup {NoUser}, ChangeHere(u) PROVE TabTyped'
    BY <1>3 DEF ChangeHere, Change
<1>4. ASSUME HearStorage PROVE TabTyped'
    <2>1. header' \in BOOLEAN /\ unheard' \in BOOLEAN /\ ownChange' \in BOOLEAN
        BY <1>4 DEF HearStorage, Synced
    <2> QED
        BY <1>4, <2>1 DEF HearStorage
<1>5. ASSUME NEW p \in BrowserPages, ShowPage(p) PROVE TabTyped'
    <2>1. CASE p.loads /\ stored # NoUser
        <3>1. SendAs(stored, "data")
            BY <1>5, <2>1 DEF ShowPage
        <3>2. PICK d \in PageCalls :
                  /\ pc'[Window] = pc[Window]
                  /\ sentAs' = [sentAs EXCEPT ![d] = stored]
            BY <3>1, SentAs
        <3> QED
            BY <1>5, <3>2 DEF ShowPage
    <2>2. CASE ~(p.loads /\ stored # NoUser)
        BY <1>5, <2>2 DEF ShowPage
    <2> QED
        BY <2>1, <2>2
<1>6. ASSUME PressOnPage PROVE TabTyped'
    <2>1. ActingUser \in BrowserUsers \cup {NoUser}
        BY DEF ActingUser
    <2>2. CASE SendAs(ActingUser, "act")
        <3>1. PICK d \in PageCalls :
                  /\ pc'[Window] = pc[Window]
                  /\ sentAs' = [sentAs EXCEPT ![d] = ActingUser]
            BY <2>2, SentAs
        <3>2. sentAway' \in BOOLEAN
            BY <1>6 DEF PressOnPage
        <3> QED
            BY <1>6, <2>1, <3>1, <3>2 DEF PressOnPage
    <2>3. CASE sentAway' = TRUE /\ UNCHANGED <<requestVars, sentAs>>
        BY <1>6, <2>3 DEF PressOnPage
    <2> QED
        BY <1>6, <2>2, <2>3 DEF PressOnPage
<1>7. ASSUME NEW c \in PageCalls, ShowData(c) PROVE TabTyped'
    BY <1>7 DEF ShowData, ShownBy
<1>8. ASSUME NEW c \in PageCalls, TurnAway(c) PROVE TabTyped'
    BY <1>8 DEF TurnAway
<1>9. ASSUME NEW c \in PageCalls, ActDone(c) PROVE TabTyped'
    <2>1. ActingUser \in BrowserUsers \cup {NoUser}
        BY DEF ActingUser
    <2>2. \/ sentAs' = sentAs
          \/ sentAs' = [sentAs EXCEPT ![c] = ActingUser]
        BY <1>9 DEF ActDone
    <2>3. sentAs' \in [PageCalls -> BrowserUsers \cup {NoUser}]
        BY <2>1, <2>2
    <2>4. sentAway' \in BOOLEAN /\ pc'[Window] = pc[Window]
        BY <1>9 DEF ActDone
    <2> QED
        BY <1>9, <2>3, <2>4 DEF ActDone
<1>10. ASSUME NEW c \in PageCalls, ActRefused(c) PROVE TabTyped'
    BY <1>10 DEF ActRefused
<1>11. ASSUME NEW c \in PageCalls, PageCallFails(c) PROVE TabTyped'
    BY <1>11 DEF PageCallFails, NotesFailure
<1>12. ASSUME NEW p \in Paths, Follow(p) PROVE TabTyped'
    <2>1. /\ gate' \in [state : {"absent", "loading", "ok", "unauth"},
                         path : Paths \cup {NoUser}, next : Paths \cup {NoUser}]
          /\ checkOf' \in [GateCalls -> Paths \cup {NoUser}]
        <3>1. CASE stored = NoUser
            BY <1>12, <3>1 DEF Follow
        <3>2. CASE stored # NoUser
            <4>1. /\ checkOf' = [checkOf EXCEPT ![FreshCheck] = p]
                  /\ gate' = [gate EXCEPT !.path = p,
                                   !.state = IF gate.state = "absent" THEN "loading" ELSE gate.state]
                BY <1>12, <3>2 DEF Follow
            <4> QED
                BY <4>1
        <3> QED
            BY <3>1, <3>2
    <2>2. (\E c \in GateCalls : pc[c] = "idle") /\ FreshCheck \in GateCalls
        BY <1>12 DEF Follow, FreshCheck
    <2>3. pc'[Window] = pc[Window]
        BY <1>12, <2>2 DEF Follow
    <2> QED
        BY <1>12, <2>1, <2>3 DEF Follow
<1>13. ASSUME NEW c \in GateCalls, CheckOk(c) PROVE TabTyped'
    BY <1>13 DEF CheckOk
<1>14. ASSUME NEW c \in GateCalls, CheckFails(c) PROVE TabTyped'
    <2>1. gate' \in [state : {"absent", "loading", "ok", "unauth"},
                     path : Paths \cup {NoUser}, next : Paths \cup {NoUser}]
        <3>1. checkOf[c] \in Paths \cup {NoUser}
            OBVIOUS
        <3> QED
            BY <1>14, <3>1 DEF CheckFails, ReturnTo
    <2>2. c # Window /\ pc'[Window] = pc[Window]
        BY <1>14 DEF CheckFails
    <2> QED
        BY <1>14, <2>1, <2>2 DEF CheckFails
<1> QED
    BY <1>1, <1>2, <1>3, <1>4, <1>5, <1>6, <1>7, <1>8, <1>9, <1>10, <1>11, <1>12, <1>13, <1>14 DEF BrowserNext

-------------------------------------------------------------------------------
(* An endpoint is issued to a press that has not come to it before.        *)
Unspent == {c \in Toggles : pc[c] \in {"idle", "permission", "subscribe"}}

WebTyped ==
    /\ permission \in {"default", "granted", "denied"}
    /\ issued \in Nat /\ issued + Cardinality(Unspent) <= Cardinality(Toggles)
    /\ subscription \in 0..issued
    /\ endpoint \in [Tabs -> 0..issued] /\ toggling \subseteq Tabs
    /\ webRows \in [Endpoints -> WebUsers \cup {NoOne}]
    /\ webUser \in WebUsers \cup {NoOne} /\ switched \in BOOLEAN
    /\ \A c \in Pressed :
        toggle[c].tab \in Tabs /\ toggle[c].user \in WebUsers /\ toggle[c].was \in 0..issued

LEMMA WebTypedInit == Init => WebTyped
<1> SUFFICES ASSUME Init PROVE WebTyped
    OBVIOUS
<1>1. \A c \in Toggles : pc[c] = "idle"
    BY WebPushAssumption DEF Init, RequestsInit
<1>2. Unspent = Toggles /\ Pressed = {} /\ Cardinality(Toggles) \in Nat
    BY <1>1, WebPushAssumption, FS_CardinalityType DEF Unspent, Pressed
<1>3. issued = 0 /\ issued + Cardinality(Unspent) <= Cardinality(Toggles)
    BY <1>2 DEF Init, WebPushInit
<1>4. /\ permission = "default" /\ subscription = 0 /\ toggling = {} /\ webUser = NoOne
      /\ switched = FALSE /\ endpoint = [t \in Tabs |-> 0]
      /\ webRows = [e \in Endpoints |-> NoOne]
    BY DEF Init, WebPushInit
<1>5. endpoint \in [Tabs -> 0..issued] /\ subscription \in 0..issued
    BY <1>3, <1>4
<1>6. webRows \in [Endpoints -> WebUsers \cup {NoOne}]
    BY <1>4
<1>7. issued \in Nat /\ webUser \in WebUsers \cup {NoOne} /\ switched \in BOOLEAN
    BY <1>3, <1>4
<1> QED
    BY <1>2, <1>3, <1>4, <1>5, <1>6, <1>7 DEF WebTyped

(* A press that goes on spends its right to an endpoint at most once.      *)
LEMMA UnspentShrinks ==
    ASSUME NEW S, Unspent' = Unspent \ S
    PROVE  /\ Cardinality(Unspent) \in Nat /\ Cardinality(Unspent') \in Nat
           /\ Cardinality(Unspent') <= Cardinality(Unspent)
           /\ \A c \in Unspent : S = {c} => Cardinality(Unspent') = Cardinality(Unspent) - 1
<1>1. IsFiniteSet(Toggles) /\ Unspent \subseteq Toggles
    BY WebPushAssumption DEF Unspent
<1>2. IsFiniteSet(Unspent)
    BY <1>1, FS_Subset
<1>3. /\ IsFiniteSet(Unspent')
      /\ Cardinality(Unspent) \in Nat /\ Cardinality(Unspent') \in Nat
      /\ Cardinality(Unspent') <= Cardinality(Unspent)
    BY <1>2, FS_Subset, FS_CardinalityType
<1>4. \A c \in Unspent : S = {c} => Cardinality(Unspent') = Cardinality(Unspent) - 1
    BY <1>2, FS_RemoveElement
<1> QED
    BY <1>3, <1>4

(* Where the others stay, only the press c may spend it.                   *)
LEMMA OnePressMoves ==
    ASSUME NEW c \in Toggles, \A d \in Toggles \ {c} : pc'[d] = pc[d],
           pc[c] \in {"idle", "permission", "subscribe"} \/ pc'[c] \notin {"idle", "permission", "subscribe"}
    PROVE  /\ Unspent' = Unspent \ (IF pc'[c] \in {"idle", "permission", "subscribe"} THEN {} ELSE {c})
           /\ Cardinality(Unspent) \in Nat /\ Cardinality(Unspent') \in Nat
           /\ Cardinality(Unspent') <= Cardinality(Unspent)
           /\ pc[c] = "subscribe" /\ pc'[c] = "register" =>
                 Cardinality(Unspent') = Cardinality(Unspent) - 1
<1> DEFINE S == IF pc'[c] \in {"idle", "permission", "subscribe"} THEN {} ELSE {c}
<1>1. Unspent' = Unspent \ S
    BY DEF Unspent
<1>2. pc[c] = "subscribe" /\ pc'[c] = "register" => S = {c} /\ c \in Unspent
    BY DEF Unspent
<1> HIDE DEF S
<1>3. /\ Cardinality(Unspent) \in Nat /\ Cardinality(Unspent') \in Nat
      /\ Cardinality(Unspent') <= Cardinality(Unspent)
      /\ \A d \in Unspent : S = {d} => Cardinality(Unspent') = Cardinality(Unspent) - 1
    BY <1>1, UnspentShrinks
<1> QED
    BY <1>1, <1>2, <1>3 DEF S

LEMMA WebTypedHolds == ASSUME WebTyped, WebInv PROVE WebPushTypeOK
<1>1. /\ Cardinality(Toggles) \in Nat /\ Cardinality(Unspent) \in Nat
    <2>1. IsFiniteSet(Toggles) /\ Unspent \subseteq Toggles
        BY WebPushAssumption DEF Unspent
    <2> QED
        BY <2>1, FS_Subset, FS_CardinalityType
<1>2. issued \in {0} \cup Endpoints
    BY <1>1 DEF WebTyped, Endpoints
<1> QED
    BY <1>2 DEF WebTyped, WebInv, WebPushTypeOK, Pressed, Ended

LEMMA WebTypesStep ==
    ASSUME WebTyped, WebInv, WebPushNext
    PROVE  WebTyped'
<1>0. /\ Toggles \subseteq Calls /\ NoOne \notin WebUsers /\ Pressed \subseteq Toggles
      /\ Cardinality(Toggles) \in Nat /\ DOMAIN toggle = Toggles
    BY WebPushAssumption, FS_CardinalityType DEF Pressed, WebInv
<1> USE <1>0
<1>1. ASSUME NEW t \in Tabs, PressToggle(t) PROVE WebTyped'
    <2>1. PICK c \in Toggles :
              /\ pc[c] = "idle" /\ pc'[c] \in {"find", "permission"}
              /\ \A d \in Toggles \ {c} : pc'[d] = pc[d]
              /\ toggle' = [toggle EXCEPT ![c] =
                                [tab |-> t, user |-> webUser', was |-> endpoint[t]]]
        BY <1>1 DEF PressToggle, FreshToggle, Begin, MovesTo
    <2>2. /\ Cardinality(Unspent) \in Nat /\ Cardinality(Unspent') \in Nat
          /\ Cardinality(Unspent') <= Cardinality(Unspent)
        BY <2>1, OnePressMoves
    <2>3. /\ webUser' \in WebUsers /\ switched' = switched
          /\ toggling' = toggling \cup {t}
          /\ UNCHANGED <<permission, subscription, issued, endpoint, webRows>>
        BY <1>1 DEF PressToggle, WebTyped
    <2>4. ASSUME NEW d \in Pressed'
          PROVE  toggle'[d].tab \in Tabs /\ toggle'[d].user \in WebUsers /\ toggle'[d].was \in 0..issued
        <3>1. CASE d = c
            BY <2>1, <2>3, <3>1 DEF WebTyped
        <3>2. CASE d # c
            <4>1. d \in Pressed /\ toggle'[d] = toggle[d]
                BY <2>1, <2>4, <3>2 DEF Pressed
            <4> QED
                BY <4>1 DEF WebTyped
        <3> QED
            BY <3>1, <3>2
    <2> QED
        BY <2>2, <2>3, <2>4 DEF WebTyped
<1>2. ASSUME NEW t \in Tabs, ReloadTab(t) PROVE WebTyped'
    BY <1>2 DEF ReloadTab, WebTyped, Unspent, Pressed, requestVars
<1>3. ASSUME NEW c \in Toggles,
             \/ AnswerPermission(c) \/ Subscribe(c) \/ RegisterBrowser(c)
             \/ Unsubscribe(c) \/ UnregisterBrowser(c) \/ ToggleFails(c)
      PROVE  WebTyped'
    <2>1. /\ c \in Pressed /\ \A d \in Toggles \ {c} : pc'[d] = pc[d]
          /\ pc'[c] \in {"subscribe", "register", "unregister"} \cup Ended
        BY <1>3
        DEF AnswerPermission, Subscribe, RegisterBrowser, Unsubscribe, UnregisterBrowser,
            ToggleFails, CutShort, Goto, MovesTo, Busy, Started, Ended, WebInv, Pressed
    <2>2. /\ toggle[c].tab \in Tabs /\ toggle[c].user \in WebUsers /\ toggle[c].was \in 0..issued
          /\ {"tab", "user", "was"} \subseteq DOMAIN toggle[c]
        BY <2>1 DEF WebTyped, WebInv
    <2>3. pc'[c] = "subscribe" => pc[c] = "permission"
        BY <1>3
        DEF AnswerPermission, Subscribe, RegisterBrowser, Unsubscribe, UnregisterBrowser,
            ToggleFails, CutShort, Goto, MovesTo
    <2>4. /\ Cardinality(Unspent) \in Nat /\ Cardinality(Unspent') \in Nat
          /\ Cardinality(Unspent') <= Cardinality(Unspent)
          /\ pc[c] = "subscribe" /\ pc'[c] = "register" =>
                Cardinality(Unspent') = Cardinality(Unspent) - 1
        BY <2>1, <2>3, OnePressMoves DEF Ended
    <2>5. \A d \in Pressed' : d \in Pressed
        BY <2>1 DEF Pressed
    <2>6. CASE AnswerPermission(c)
        BY <2>2, <2>4, <2>5, <2>6 DEF AnswerPermission, WebTyped
    <2>7. CASE Subscribe(c)
        <3>1. /\ subscription' \in 0..issued' /\ issued' \in Nat
              /\ issued' = issued \/ issued' = issued + 1
              /\ pc[c] = "subscribe" /\ pc'[c] = "register"
            BY <2>7 DEF Subscribe, Goto, MovesTo, WebTyped
        <3>2. issued' + Cardinality(Unspent') <= Cardinality(Toggles)
            BY <2>4, <3>1 DEF WebTyped
        <3>3. 0..issued \subseteq 0..issued'
            BY <3>1 DEF WebTyped
        <3>4. /\ endpoint' = [endpoint EXCEPT ![toggle[c].tab] = subscription']
              /\ toggle' = [toggle EXCEPT ![c].was = subscription']
              /\ UNCHANGED <<permission, toggling, webRows, webUser, switched>>
            BY <2>7 DEF Subscribe
        <3>5. endpoint' \in [Tabs -> 0..issued']
            BY <2>2, <3>1, <3>3, <3>4 DEF WebTyped
        <3>6. ASSUME NEW d \in Pressed'
              PROVE  /\ toggle'[d].tab \in Tabs /\ toggle'[d].user \in WebUsers
                     /\ toggle'[d].was \in 0..issued'
            <4>1. CASE d = c
                BY <2>2, <3>1, <3>4, <4>1
            <4>2. CASE d # c
                BY <2>5, <3>3, <3>4, <3>6, <4>2 DEF WebTyped
            <4> QED
                BY <4>1, <4>2
        <3> QED
            BY <3>1, <3>2, <3>4, <3>5, <3>6 DEF WebTyped
    <2>8. CASE RegisterBrowser(c)
        <3>1. webRows' \in [Endpoints -> WebUsers \cup {NoOne}]
            BY <2>2, <2>8 DEF RegisterBrowser, WebTyped
        <3> QED
            BY <2>4, <2>5, <2>8, <3>1 DEF RegisterBrowser, WebTyped
    <2>9. CASE Unsubscribe(c)
        <3>1. /\ EndpointToRemove(c) \in 0..issued
              /\ toggle' = [toggle EXCEPT ![c].was = EndpointToRemove(c)]
            BY <2>2, <2>9 DEF Unsubscribe, EndpointToRemove, WebTyped
        <3>2. ASSUME NEW d \in Pressed'
              PROVE  /\ toggle'[d].tab \in Tabs /\ toggle'[d].user \in WebUsers
                     /\ toggle'[d].was \in 0..issued
            <4>1. CASE d = c
                BY <2>2, <3>1, <4>1
            <4>2. CASE d # c
                BY <2>5, <3>1, <3>2, <4>2 DEF WebTyped
            <4> QED
                BY <4>1, <4>2
        <3> QED
            BY <2>4, <2>9, <3>2 DEF Unsubscribe, WebTyped
    <2>10. ASSUME TurnedOff(c)
           PROVE  /\ endpoint' \in [Tabs -> 0..issued] /\ toggling' \subseteq Tabs
                  /\ UNCHANGED <<permission, subscription, issued, webUser, toggle, switched>>
        BY <2>2, <2>10 DEF TurnedOff, WebTyped
    <2>11. CASE UnregisterBrowser(c)
        <3>1. webRows' \in [Endpoints -> WebUsers \cup {NoOne}]
            BY <2>11 DEF UnregisterBrowser, WebTyped
        <3>2. TurnedOff(c)
            BY <2>11 DEF UnregisterBrowser
        <3> QED
            BY <2>4, <2>5, <2>10, <3>1, <3>2 DEF WebTyped
    <2>12. CASE ToggleFails(c)
        <3>1. webRows' = webRows
            BY <2>12 DEF ToggleFails
        <3>2. CASE TurnedOff(c)
            BY <2>4, <2>5, <2>10, <3>1, <3>2 DEF WebTyped
        <3>3. CASE ~TurnedOff(c)
            BY <2>4, <2>5, <2>12, <3>1, <3>3 DEF ToggleFails, WebTyped
        <3> QED
            BY <3>2, <3>3
    <2> QED
        BY <1>3, <2>6, <2>7, <2>8, <2>9, <2>11, <2>12
<1>4. CASE SwitchUser
    BY <1>4 DEF SwitchUser, WebTyped, Unspent, Pressed, requestVars
<1>5. ASSUME NEW e \in Endpoints, DropBrowser(e) PROVE WebTyped'
    BY <1>5 DEF DropBrowser, WebTyped, Unspent, Pressed, requestVars
<1> QED
    BY <1>1, <1>2, <1>3, <1>4, <1>5 DEF WebPushNext

-------------------------------------------------------------------------------
(* Every part keeps the types of its state.                                *)
PartsTyped ==
    /\ ConsoleTyped /\ DeviceTyped /\ WebTyped /\ ScreenTyped
    /\ ActsTyped /\ PartnerTyped /\ TabTyped /\ SignInTyped
    /\ failures \in 0..MaxFailures /\ overlapped \in BOOLEAN

PartsFit ==
    /\ ConsoleInv /\ DeviceInv /\ WebInv /\ ScreenInv /\ ActsFit
    /\ GrantInv /\ PageInv /\ GateInv /\ SignInInv

LEMMA PartsTypedInit == Init => PartsTyped
<1> SUFFICES ASSUME Init PROVE PartsTyped
    OBVIOUS
<1>1. \A c \in Calls : pc[c] = "idle"
    BY DEF Init, RequestsInit
<1>2. ConsoleTyped
    BY <1>1, OrganizersAssumption
    DEF Init, OrganizersInit, ConsoleTyped, OrganizersTypeOK, ConsoleCalls, Events
<1>3. DeviceTyped
    <2>1. 1 \in 1..FcmTokens
        BY DevicesAssumption
    <2>2. \A c \in SignIns \cup SignOuts : pc[c] = "idle"
        BY <1>1, DevicesAssumption
    <2> QED
        BY <2>1, <2>2 DEF Init, DevicesInit, DeviceTyped, DevicesTypeOK, Holders
<1>4. WebTyped
    BY WebTypedInit
<1>5. ScreenTyped
    <2>1. ScreensInit
        BY DEF Init
    <2>2. \A c \in Scans : pc[c] = "idle"
        BY <1>1, ScreensAssumption
    <2>3. /\ scan \in [Scans -> [by : Scanners \cup {Nothing}, code : Codes \cup {Nothing},
                                 read : Statuses \cup {"none"},
                                 says : {"none", "admit", "used", "voided", "error"}]]
          /\ \A c \in Scans : pc[c] \notin AtApi
        BY <2>1, <2>2 DEF ScreensInit, NoScan, AtApi
    <2>4. /\ status \in [Tickets -> Statuses]
          /\ admitted \in [Codes -> SUBSET Scans]
        BY <2>1 DEF ScreensInit, Statuses
    <2> QED
        BY <2>1, <2>2, <2>3, <2>4 DEF ScreensInit, ScreenTyped, ScreensTypeOK
<1>6. ActsTyped
    BY DEF Init, PagesInit, ActsTyped
<1>7. PartnerTyped
    BY <1>1, PartnersAssumption
    DEF Init, PartnersInit, PartnerTyped, NoAccess, Askers, PartnerCalls
<1>8. TabTyped
    BY <1>1, BrowserAssumption DEF Init, BrowserInit, TabTyped, BrowserCalls
<1>9. SignInTyped
    <2>1. \A c \in LogIns \cup LogOffs : pc[c] = "idle"
        BY <1>1, IdentityAssumption
    <2> QED
        BY <2>1 DEF Init, IdentityInit, SignInTyped, IdentityTypeOK, Unknown
<1>10. failures \in 0..MaxFailures /\ overlapped \in BOOLEAN
    <2>1. 0 \in 0..MaxFailures
        BY RequestsAssumption
    <2> QED
        BY <2>1 DEF Init, RequestsInit
<1> QED
    BY <1>2, <1>3, <1>4, <1>5, <1>6, <1>7, <1>8, <1>9, <1>10 DEF PartsTyped

(* What leaves the state of a part and its calls alone keeps their types.  *)
LEMMA OthersKeepTypes ==
    ASSUME PartsTyped, NEW i \in 1..11, StepOf(i)
    PROVE  /\ i # 4 => ConsoleTyped'
           /\ i # 5 => DeviceTyped'
           /\ i # 6 => WebTyped'
           /\ i # 7 => ScreenTyped'
           /\ i # 8 => ActsTyped'
           /\ i # 9 => PartnerTyped'
           /\ i # 10 => TabTyped'
           /\ i # 11 => SignInTyped'
<1>1. ASSUME NEW j \in 1..11, i # j
      PROVE  \A c \in Parts[j] \cap Calls : pc'[c] = pc[c]
    BY <1>1, OthersAreIdle
<1>2. ASSUME i # 4 PROVE ConsoleTyped'
    <2>1. \A c \in Reviews \cup ConsoleCalls : pc'[c] = pc[c]
        BY <1>1, <1>2, PartsByNumber, OrganizersAssumption DEF ConsolePart
    <2> QED
        BY <1>2, <2>1 DEF StepOf, organizerVars, PartsTyped, ConsoleTyped, OrganizersTypeOK
<1>3. ASSUME i # 5 PROVE DeviceTyped'
    <2>1. \A c \in SignIns \cup SignOuts : pc'[c] = pc[c]
        BY <1>1, <1>3, PartsByNumber, DevicesAssumption DEF DevicePart
    <2> QED
        BY <1>3, <2>1 DEF StepOf, deviceVars, PartsTyped, DeviceTyped, DevicesTypeOK
<1>4. ASSUME i # 6 PROVE WebTyped'
    <2>1. \A c \in Toggles : pc'[c] = pc[c]
        BY <1>1, <1>4, PartsByNumber, WebPushAssumption
    <2>2. Unspent' = Unspent /\ Pressed' = Pressed
        BY <2>1 DEF Unspent, Pressed
    <2> QED
        BY <1>4, <2>2 DEF StepOf, webPushVars, PartsTyped, WebTyped
<1>5. ASSUME i # 7 PROVE ScreenTyped'
    <2>1. \A c \in Scans : pc'[c] = pc[c]
        BY <1>1, <1>5, PartsByNumber, ScreensAssumption
    <2> QED
        BY <1>5, <2>1 DEF StepOf, screenVars, PartsTyped, ScreenTyped, ScreensTypeOK
<1>6. ASSUME i # 8 PROVE ActsTyped'
    BY <1>6 DEF StepOf, pageVars, PartsTyped, ActsTyped
<1>7. ASSUME i # 9 PROVE PartnerTyped'
    <2>1. \A c \in PartnerCalls : pc'[c] = pc[c]
        BY <1>1, <1>7, PartsByNumber, PartnersAssumption
    <2> QED
        BY <1>7, <2>1 DEF StepOf, partnerVars, PartsTyped, PartnerTyped
<1>8. ASSUME i # 10 PROVE TabTyped'
    <2>1. pc'[Window] = pc[Window]
        BY <1>1, <1>8, PartsByNumber, BrowserAssumption DEF BrowserCalls
    <2> QED
        BY <1>8, <2>1
        DEF StepOf, browserVars, headerVars, tabVars, gateVars, PartsTyped, TabTyped
<1>9. ASSUME i # 11 PROVE SignInTyped'
    <2>1. \A c \in LogIns \cup LogOffs : pc'[c] = pc[c]
        BY <1>1, <1>9, PartsByNumber, IdentityAssumption DEF IdentityPart
    <2> QED
        BY <1>9, <2>1 DEF StepOf, identityVars, PartsTyped, SignInTyped, IdentityTypeOK
<1> QED
    BY <1>2, <1>3, <1>4, <1>5, <1>6, <1>7, <1>8, <1>9

LEMMA PartsTypedInductive ==
    ASSUME PartsTyped, PartsFit, PartsFit', [Next]_vars
    PROVE  PartsTyped'
<1>1. CASE UNCHANGED vars
    BY <1>1
    DEF vars, requestVars, organizerVars, deviceVars, webPushVars, screenVars, pageVars,
        partnerVars, browserVars, headerVars, tabVars, gateVars, identityVars,
        PartsTyped, ConsoleTyped, OrganizersTypeOK, DeviceTyped, DevicesTypeOK, WebTyped,
        Unspent, Pressed, ScreenTyped, ScreensTypeOK, ActsTyped, PartnerTyped, TabTyped,
        SignInTyped, IdentityTypeOK
<1>2. CASE Next
    <2>1. PICK i \in 1..11 : StepOf(i)
        BY <1>2, StepsOfParts
    <2>2. failures' \in 0..MaxFailures /\ overlapped' \in BOOLEAN
        <3>1. FailuresGrow /\ OverlapStays
            BY CountersStep
        <3> QED
            BY <3>1, RequestsAssumption DEF PartsTyped, FailuresGrow, OverlapStays
    <2>3. /\ i = 4 => ConsoleTyped'
          /\ i = 5 => DeviceTyped'
          /\ i = 6 => WebTyped'
          /\ i = 7 => ScreenTyped'
          /\ i = 8 => ActsTyped'
          /\ i = 9 => PartnerTyped'
          /\ i = 10 => TabTyped'
          /\ i = 11 => SignInTyped'
        <3> USE <2>1 DEF StepOf, PartsTyped, PartsFit
        <3>1. i = 4 => ConsoleTyped'
            BY ConsoleTypesStep
        <3>2. i = 5 => DeviceTyped'
            BY DeviceTypesStep
        <3>3. i = 6 => WebTyped'
            BY WebTypesStep
        <3>4. i = 7 => ScreenTyped'
            BY ScreenTypesStep
        <3>5. i = 8 => ActsTyped'
            BY ActsTypesStep
        <3>6. i = 9 => PartnerTyped'
            BY PartnerTypesStep
        <3>7. i = 10 => TabTyped'
            BY TabTypesStep
        <3>8. i = 11 => SignInTyped'
            BY SignInTypesStep
        <3> QED
            BY <3>1, <3>2, <3>3, <3>4, <3>5, <3>6, <3>7, <3>8
    <2>4. /\ i # 4 => ConsoleTyped'
          /\ i # 5 => DeviceTyped'
          /\ i # 6 => WebTyped'
          /\ i # 7 => ScreenTyped'
          /\ i # 8 => ActsTyped'
          /\ i # 9 => PartnerTyped'
          /\ i # 10 => TabTyped'
          /\ i # 11 => SignInTyped'
        BY <2>1, OthersKeepTypes
    <2> QED
        BY <2>2, <2>3, <2>4 DEF PartsTyped
<1> QED
    BY <1>1, <1>2

LEMMA TypesHold ==
    ASSUME PartsTyped, PartsFit, TeamInv, SessionInv, SignUpInv
    PROVE  TypeOK
<1>1. TeamTypeOK /\ SessionsTypeOK /\ SignUpsTypeOK
    BY SessionHolds, SignUpHolds DEF TeamInv
<1>2. OrganizersTypeOK /\ DevicesTypeOK /\ ScreensTypeOK /\ IdentityTypeOK
    BY DEF PartsTyped, ConsoleTyped, DeviceTyped, ScreenTyped, SignInTyped
<1>3. PartnerInv
    BY DEF PartsFit, GrantInv
<1>4. WebPushTypeOK /\ PagesTypeOK /\ PartnersTypeOK /\ BrowserTypeOK
    BY <1>3, WebTypedHolds, PagesTyped, PartnersTyped, BrowserTyped DEF PartsTyped, PartsFit
<1> QED
    BY <1>1, <1>2, <1>4 DEF TypeOK, PartsTyped

LEMMA PartsAlwaysFit == Spec => []PartsFit
<1>1. Init => FlagInv /\ FreshInv
    BY FlagInit, FreshInit
<1>2. Init => ButtonInv
    BY <1>1, ActsInit DEF ButtonInv
<1>3. ButtonInv => ActsFit
    BY DEF ButtonInv
<1>4. /\ ConsoleInv /\ DeviceInv /\ WebInv /\ ScreenInv /\ ActsFit
      /\ GrantInv /\ PageInv /\ GateInv /\ SignInInv
      => PartsFit
    BY DEF PartsFit
<1> QED
    BY <1>2, <1>3, <1>4, ConsoleInit, ConsoleInductive, DeviceInit, DeviceInductive,
       WebInit, WebInductive, ScreenInit, ScreenInductive, ButtonInductive,
       GrantInvInit, GrantInductive, PageInvInit, GateInvInit, BrowserInductive,
       SignInInit, SignInInductive, PTL DEF Spec

(* The account of one user, from its sign-up on: AuthService keeps the     *)
(* password that was set last and the referrer that was named, revokes the *)
(* sessions on a reset, and closes for good; the lockout counts failures   *)
(* as they come, a second factor was shown before it is asked for, and a   *)
(* password alone opens no session while it is on; and no state of any     *)
(* part leaves its type.                                                   *)
THEOREM AccountAlwaysKept == Spec => AccountKept
<1>1. SessionInv =>
        ResetRevokes /\ ClosedIsFinal /\ LockoutCounts /\ EnrolledSecretWasShown
    BY SessionHolds
<1>2. SignUpInv => PasswordsSurvive /\ ReferralsMatch
    BY SignUpHolds
<1>3. PartsTyped /\ PartsFit /\ TeamInv /\ SessionInv /\ SignUpInv => TypeOK
    BY TypesHold
<1>4. PartsTyped /\ PartsFit /\ PartsFit' /\ [Next]_vars => PartsTyped'
    BY PartsTypedInductive
<1>5. SessionInv /\ [Next]_vars =>
        [\A c \in Signins :
            session'[c] = "live" /\ session[c] # "live" /\ user.enabled /\ ~overlapped
                => c \in proved]_sessionVars
    BY SecondFactorStep
<1> QED
    BY <1>1, <1>2, <1>3, <1>4, <1>5, PartsAlwaysFit, PartsTypedInit,
       TokenInit, TokenInductive, IdentityInvInit, IdentityInductive,
       SessionInit, SessionInductive, SignUpInit, SignUpInductive,
       TeamInvInit, TeamInductive, PTL DEF Spec, AccountKept, SecondFactorAsked

================================================================================
