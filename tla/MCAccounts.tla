------------------------------- MODULE MCAccounts -------------------------------
(***************************************************************************)
(* A small instance of Accounts for TLC.                                   *)
(***************************************************************************)
EXTENDS Accounts, TLC

CONSTANTS s1, s2, s3, issue1, issue2, use1, use2, set1, set2, enable1, disable1,
          logOut1, close1, verify1, reset1, reset2, link1, code1,
          review1, review2, publish1, edit1, edit2, stream1, bank1, bank2,
          client1, client2, grant1, redeem1, redeem2, own1, drop1, call1, call2,
          key1, dropKey1, keyCall1, keyCall2, keyCall3, readScope, writeScope

MCCalls ==
    TeamCalls \cup LeaveCalls \cup AccountCalls \cup Reviews \cup ConsoleCalls
        \cup SignIns \cup SignOuts \cup Scans \cup Acts
        \cup SignUpCalls \cup SocialCalls \cup Toggles
        \cup PartnerCalls \cup BrowserCalls \cup IdentityPart

(* An event created with its end before its start.                         *)
MCDates == <<2, 1>>

MCKind == verify1 :> "verify" @@ reset1 :> "reset" @@ reset2 :> "reset"
            @@ link1 :> "link" @@ code1 :> "code"

MCScopeSets == {{readScope}, {readScope, writeScope}}

TeamGroup == TeamCalls \cup LeaveCalls

(* Sign-ins by password and by token around a reset, a closing and a       *)
(* log-out; tokens raced by several requests; the second factor; lockout;  *)
(* the console; the phone; the doors; sign-ups; the toggle of the browser; *)
(* the buttons; a code redeemed by two clients; a client revoked           *)
(* meanwhile; keys; the browser; who the app takes its user for.           *)
MCGroups ==
    { TeamGroup,
      {s1, s2, issue1, use1, logOut1, close1},
      {issue1, issue2, use1, use2, close1},
      {s1, set1, set2, enable1, disable1, close1},
      {s1, s2, s3},
      {review1, review2, publish1},
      {review1, publish1, edit1, edit2},
      {edit1, stream1, bank1},
      {review1, review2, bank1, bank2},
      SignIns \cup SignOuts,
      Scans,
      SignUpCalls \cup SocialCalls,
      Toggles,
      Acts,
      {client1, client2, grant1, redeem1},
      {client1, grant1, redeem1, redeem2},
      {client1, grant1, redeem1, drop1, call1},
      {client1, own1, drop1, call1},
      {key1, dropKey1, keyCall1, keyCall2, keyCall3},
      {Window} \cup PageCalls,
      {Window} \cup GateCalls,
      LogIns \cup LogOffs }

CallSymmetry == Permutations(People \ {Founder}) \cup Permutations(Scans)
================================================================================
