-------------------------------- MODULE Accounts --------------------------------
(***************************************************************************)
(* Who is who and who sees what: the members of an organizer, the account  *)
(* of one user, the organizer's console, a phone and a browser that users  *)
(* share, the screens at the door, the buttons of the clients' pages,      *)
(* third parties, and what browser and app know of who is signed in.  The  *)
(* parts share the requests of one API and no rows.                        *)
(***************************************************************************)
EXTENDS Team, Sessions, SignUps, Organizers, Devices, Screens, Pages,
        Partners, Browser, Identity

(* The calls of each part.                                                 *)
TeamPart == TeamCalls \cup LeaveCalls
SignUpPart == SignUpCalls \cup SocialCalls
ConsolePart == Reviews \cup ConsoleCalls
DevicePart == SignIns \cup SignOuts
IdentityPart == LogIns \cup LogOffs

Parts ==
    <<TeamPart, AccountCalls, SignUpPart, ConsolePart, DevicePart, Toggles, Scans, Acts,
      PartnerCalls, BrowserCalls, IdentityPart>>

ASSUME AccountsAssumption ==
    /\ \A G \in Groups : \E i \in 1..11 : G \subseteq Parts[i]
    /\ \A i, j \in 1..11 : i # j => Parts[i] \cap Parts[j] = {}

vars == <<requestVars, teamVars, sessionVars, signUpVars, organizerVars, deviceVars,
          webPushVars, screenVars, pageVars, partnerVars, browserVars,
          identityVars>>

TypeOK ==
    /\ TeamTypeOK /\ SessionsTypeOK /\ SignUpsTypeOK /\ OrganizersTypeOK
    /\ DevicesTypeOK /\ WebPushTypeOK /\ ScreensTypeOK
    /\ PagesTypeOK /\ PartnersTypeOK /\ BrowserTypeOK /\ IdentityTypeOK
    /\ failures \in 0..MaxFailures /\ overlapped \in BOOLEAN

Init ==
    /\ RequestsInit
    /\ TeamInit /\ SessionsInit /\ SignUpsInit /\ OrganizersInit
    /\ DevicesInit /\ WebPushInit /\ ScreensInit /\ PagesInit
    /\ PartnersInit /\ BrowserInit /\ IdentityInit

(* A part acts while no other did, and with its own calls.                 *)
Next ==
    \/ /\ Only(TeamPart) /\ TeamNext /\ Only(TeamPart)'
       /\ UNCHANGED <<sessionVars, signUpVars, organizerVars, deviceVars, webPushVars,
                      screenVars, pageVars, partnerVars, browserVars,
                      identityVars>>
    \/ /\ Only(AccountCalls) /\ SessionsNext /\ Only(AccountCalls)'
       /\ UNCHANGED <<teamVars, signUpVars, organizerVars, deviceVars, webPushVars,
                      screenVars, pageVars, partnerVars, browserVars,
                      identityVars>>
    \/ /\ Only(SignUpPart) /\ SignUpsNext /\ Only(SignUpPart)'
       /\ UNCHANGED <<teamVars, sessionVars, organizerVars, deviceVars, webPushVars,
                      screenVars, pageVars, partnerVars, browserVars,
                      identityVars>>
    \/ /\ Only(ConsolePart) /\ OrganizersNext /\ Only(ConsolePart)'
       /\ UNCHANGED <<teamVars, sessionVars, signUpVars, deviceVars, webPushVars,
                      screenVars, pageVars, partnerVars, browserVars,
                      identityVars>>
    \/ /\ Only(DevicePart) /\ DevicesNext /\ Only(DevicePart)'
       /\ UNCHANGED <<teamVars, sessionVars, signUpVars, organizerVars, webPushVars,
                      screenVars, pageVars, partnerVars, browserVars,
                      identityVars>>
    \/ /\ Only(Toggles) /\ WebPushNext /\ Only(Toggles)'
       /\ UNCHANGED <<teamVars, sessionVars, signUpVars, organizerVars, deviceVars,
                      screenVars, pageVars, partnerVars, browserVars,
                      identityVars>>
    \/ /\ Only(Scans) /\ ScreensNext /\ Only(Scans)'
       /\ UNCHANGED <<teamVars, sessionVars, signUpVars, organizerVars, deviceVars,
                      webPushVars, pageVars, partnerVars, browserVars,
                      identityVars>>
    \/ /\ Only(Acts) /\ PagesNext /\ Only(Acts)'
       /\ UNCHANGED <<teamVars, sessionVars, signUpVars, organizerVars, deviceVars,
                      webPushVars, screenVars, partnerVars, browserVars,
                      identityVars>>
    \/ /\ Only(PartnerCalls) /\ PartnersNext /\ Only(PartnerCalls)'
       /\ UNCHANGED <<teamVars, sessionVars, signUpVars, organizerVars, deviceVars,
                      webPushVars, screenVars, pageVars, browserVars,
                      identityVars>>
    \/ /\ Only(BrowserCalls) /\ BrowserNext /\ Only(BrowserCalls)'
       /\ UNCHANGED <<teamVars, sessionVars, signUpVars, organizerVars, deviceVars,
                      webPushVars, screenVars, pageVars, partnerVars,
                      identityVars>>
    \/ /\ Only(IdentityPart) /\ IdentityNext /\ Only(IdentityPart)'
       /\ UNCHANGED <<teamVars, sessionVars, signUpVars, organizerVars, deviceVars,
                      webPushVars, screenVars, pageVars, partnerVars,
                      browserVars>>

Spec == Init /\ [][Next]_vars

(* The account of one user, from its sign-up on: what he set up and gave   *)
(* up holds, whatever was under way.                                       *)
AccountKept ==
    /\ [](/\ TypeOK /\ PasswordsSurvive /\ ReferralsMatch
          /\ ResetRevokes /\ ClosedIsFinal /\ LockoutCounts /\ EnrolledSecretWasShown)
    /\ SecondFactorAsked

(* Phone and browser are notified for who uses them.                       *)
PushFollowsUser == DeviceFollowsUser /\ RowFollowsSubscription

(* Browser and app know who is signed in.                                  *)
ClientsKnowUser == BrowserFits /\ IdentityFits
================================================================================
