-------------------------------- MODULE Partners --------------------------------
(***************************************************************************)
(* Third parties: the API keys and OAuth clients of an organizer, the      *)
(* codes that users grant to a client, the access tokens that a client     *)
(* gets for a code or in its own name, and the calls made with them        *)
(* (ApiKeysService, OAuthService).  Keys and clients are revoked while     *)
(* requests that have read them are still under way.                       *)
(***************************************************************************)
EXTENDS Requests

CONSTANTS
    Registrations,  \* requests that register a client; each names its client
    Grants,         \* requests of a user for a code; each names its code
    Exchanges,      \* requests for a token by a code
    Issuings,       \* requests for a token in the client's own name
    Revocations,    \* requests that revoke a client
    TokenCalls,     \* calls made with an access token
    KeyCreations,   \* requests that create a key; each names its key
    KeyRevocations, \* requests that revoke a key
    KeyCalls,       \* calls made with a key
    ScopeSets,      \* sets of scopes that a request may name
    Uris,           \* redirect URIs
    GrantUsers,     \* users that grant
    NoParty         \* null; as a URI, one that no client has registered

Askers == Exchanges \cup Issuings
PartnerCalls == Registrations \cup Grants \cup Askers \cup Revocations \cup TokenCalls
                    \cup KeyCreations \cup KeyRevocations \cup KeyCalls

(* A request is of one kind.                                               *)
PartnerKinds ==
    <<Registrations, Grants, Exchanges, Issuings, Revocations, TokenCalls, KeyCreations,
      KeyRevocations, KeyCalls>>

ASSUME PartnersAssumption ==
    /\ PartnerCalls \subseteq Calls
    /\ NoParty \notin PartnerCalls \cup GrantUsers \cup Uris
    /\ \A i, j \in 1..9 : i # j => PartnerKinds[i] \cap PartnerKinds[j] = {}

VARIABLES
    client,         \* client[k]: the OAuthClient row that registration k made
    ask,            \* ask[c]: what request c was sent
    grantCode,      \* grantCode[g]: the row of the code that grant g made
    access,         \* access[c]: the row of the token that request c was issued
    apiKey,         \* apiKey[k]: not made, live or revoked
    lastUsed,       \* lastUsed[k]: lastUsedAt of the key: never, lately, earlier
    served,         \* served[c]: the client or key that call c was let in for
    revokedBefore   \* history: what had been revoked when call c was made

partnerVars ==
    <<client, ask, grantCode, access, apiKey, lastUsed, served, revokedBefore>>

Scopes == UNION ScopeSets

NoClient == [active |-> FALSE, scopes |-> {}, uris |-> {}]
NoAsk == [client |-> NoParty, user |-> NoParty, uri |-> NoParty, scopes |-> {},
          of |-> NoParty]
NoAccess == [state |-> "none", client |-> NoParty, user |-> NoParty, scopes |-> {}]

Asked(k) == [NoAsk EXCEPT !.client = k]

PartnersTypeOK ==
    /\ client \in [Registrations -> [active : BOOLEAN, scopes : SUBSET Scopes, uris : SUBSET Uris]]
    /\ ask \in [PartnerCalls -> [client : Registrations \cup {NoParty},
                                 user : GrantUsers \cup {NoParty}, uri : Uris \cup {NoParty},
                                 scopes : SUBSET Scopes, of : PartnerCalls \cup {NoParty}]]
    /\ grantCode \in [Grants -> {"none", "fresh", "expired", "used"}]
    /\ access \in [Askers -> [state : {"none", "live", "expired"},
                              client : Registrations \cup {NoParty},
                              user : GrantUsers \cup {NoParty}, scopes : SUBSET Scopes]]
    /\ apiKey \in [KeyCreations -> {"none", "live", "revoked"}]
    /\ lastUsed \in [KeyCreations -> {"never", "lately", "earlier"}]
    /\ served \in [TokenCalls \cup KeyCalls -> Registrations \cup KeyCreations \cup {NoParty}]
    /\ revokedBefore \in [TokenCalls \cup KeyCalls -> SUBSET (Registrations \cup KeyCreations)]
    /\ \A c \in PartnerCalls :
        pc[c] \in {"idle", "create", "revoke", "client", "issue", "code", "burn", "token",
                   "verify", "touch"} \cup Ended

PartnersInit ==
    /\ client = [k \in Registrations |-> NoClient]
    /\ ask = [c \in PartnerCalls |-> NoAsk]
    /\ grantCode = [g \in Grants |-> "none"]
    /\ access = [c \in Askers |-> NoAccess]
    /\ apiKey = [k \in KeyCreations |-> "none"]
    /\ lastUsed = [k \in KeyCreations |-> "never"]
    /\ served = [c \in TokenCalls \cup KeyCalls |-> NoParty]
    /\ revokedBefore = [c \in TokenCalls \cup KeyCalls |-> {}]

-------------------------------------------------------------------------------
Revoked == {ask[r].client : r \in {r \in Revocations : pc[r] = "done"}}
               \cup {ask[r].of : r \in {r \in KeyRevocations : pc[r] = "done"}}

AsksFor(c, input) == ask' = [ask EXCEPT ![c] = input]

(* The clients of the organizer.                                           *)
Register(c) ==
    /\ \E S \in ScopeSets \ {{}}, u \in Uris \cup {NoParty} :
        AsksFor(c, [NoAsk EXCEPT !.scopes = S, !.uri = u])
    /\ Begin(c, "create")
    /\ UNCHANGED <<client, grantCode, access, apiKey, lastUsed, served, revokedBefore>>

CreateClient(c) ==
    /\ pc[c] = "create"
    /\ client' = [client EXCEPT ![c] =
                     [active |-> TRUE, scopes |-> ask[c].scopes, uris |-> {ask[c].uri} \ {NoParty}]]
    /\ Goto(c, "done")
    /\ UNCHANGED <<ask, grantCode, access, apiKey, lastUsed, served, revokedBefore>>

MadeClients == {k \in Registrations : client[k].scopes # {}}

AskToRevoke(c, k) ==
    /\ k \in MadeClients
    /\ Begin(c, "revoke")
    /\ AsksFor(c, Asked(k))
    /\ UNCHANGED <<client, grantCode, access, apiKey, lastUsed, served, revokedBefore>>

RevokeClient(c) ==
    /\ pc[c] = "revoke"
    /\ client' = [client EXCEPT ![ask[c].client].active = FALSE]
    /\ Goto(c, "done")
    /\ UNCHANGED <<ask, grantCode, access, apiKey, lastUsed, served, revokedBefore>>

-------------------------------------------------------------------------------
(* A user grants a code.                                                   *)
Grant(c, k, u, uri, S) ==
    /\ k \in MadeClients
    /\ Begin(c, "client")
    /\ AsksFor(c, [Asked(k) EXCEPT !.user = u, !.uri = uri, !.scopes = S])
    /\ UNCHANGED <<client, grantCode, access, apiKey, lastUsed, served, revokedBefore>>

Grantable(c) ==
    LET k == ask[c].client
    IN  client[k].active /\ ask[c].uri \in client[k].uris /\ ask[c].scopes \subseteq client[k].scopes

ReadClientToGrant(c) ==
    /\ pc[c] = "client"
    /\ Goto(c, IF Grantable(c) THEN "issue" ELSE "refused")
    /\ UNCHANGED partnerVars

IssueCode(c) ==
    /\ pc[c] = "issue"
    /\ grantCode' = [grantCode EXCEPT ![c] = "fresh"]
    /\ Goto(c, "done")
    /\ UNCHANGED <<client, ask, access, apiKey, lastUsed, served, revokedBefore>>

-------------------------------------------------------------------------------
(* A client, or who holds a code meant for another, asks for a token, with *)
(* the client's secret or a wrong one.                                     *)
Exchange(c, k, g, uri) ==
    /\ k \in MadeClients /\ grantCode[g] # "none"
    /\ Begin(c, "client")
    /\ AsksFor(c, [Asked(k) EXCEPT !.of = g, !.uri = uri])
    /\ UNCHANGED <<client, grantCode, access, apiKey, lastUsed, served, revokedBefore>>

AskToken(c, k, S) ==
    /\ k \in MadeClients
    /\ Begin(c, "client")
    /\ AsksFor(c, [Asked(k) EXCEPT !.scopes = S])
    /\ UNCHANGED <<client, grantCode, access, apiKey, lastUsed, served, revokedBefore>>

ReadClientToExchange(c) ==
    /\ pc[c] = "client"
    /\ \E secret \in BOOLEAN :
        Goto(c, IF client[ask[c].client].active /\ secret THEN "code" ELSE "refused")
    /\ UNCHANGED partnerVars

(* Faulty variant: whose code it is is not compared.                       *)
RedeemableByAnyone(c) ==
    LET g == ask[c].of
    IN  grantCode[g] = "fresh" /\ ask[g].uri = ask[c].uri

Redeemable(c) ==
    LET g == ask[c].of
    IN  ask[g].client = ask[c].client /\ grantCode[g] = "fresh" /\ ask[g].uri = ask[c].uri

ReadCode(c) ==
    /\ pc[c] = "code"
    /\ Goto(c, IF Redeemable(c) THEN "burn" ELSE "refused")
    /\ UNCHANGED partnerVars

(* The update asks whether the code was used, and not for its time.        *)
BurnCode(c) ==
    LET g == ask[c].of
    IN  /\ pc[c] = "burn"
        /\ IF grantCode[g] # "used"
           THEN grantCode' = [grantCode EXCEPT ![g] = "used"] /\ Goto(c, "token")
           ELSE UNCHANGED grantCode /\ Goto(c, "refused")
        /\ UNCHANGED <<client, ask, access, apiKey, lastUsed, served, revokedBefore>>

IssueUserToken(c) ==
    /\ pc[c] = "token"
    /\ access' = [access EXCEPT ![c] =
                     [state |-> "live", client |-> ask[c].client, user |-> ask[ask[c].of].user,
                      scopes |-> ask[ask[c].of].scopes]]
    /\ Goto(c, "done")
    /\ UNCHANGED <<client, ask, grantCode, apiKey, lastUsed, served, revokedBefore>>

ReadClientToIssue(c) ==
    LET k == ask[c].client
    IN  /\ pc[c] = "client"
        /\ \E secret \in BOOLEAN :
            Goto(c, IF client[k].active /\ secret /\ ask[c].scopes \subseteq client[k].scopes
                    THEN "token" ELSE "refused")
        /\ UNCHANGED partnerVars

IssueClientToken(c) ==
    /\ pc[c] = "token"
    /\ access' = [access EXCEPT ![c] =
                     [NoAccess EXCEPT !.state = "live", !.client = ask[c].client,
                                      !.scopes = ask[c].scopes]]
    /\ Goto(c, "done")
    /\ UNCHANGED <<client, ask, grantCode, apiKey, lastUsed, served, revokedBefore>>

(* expiresAt of a code or of a token passes.                               *)
Expire ==
    /\ \/ \E g \in Grants :
            grantCode[g] = "fresh" /\ grantCode' = [grantCode EXCEPT ![g] = "expired"]
            /\ UNCHANGED access
       \/ \E c \in Askers :
            access[c].state = "live" /\ access' = [access EXCEPT ![c].state = "expired"]
            /\ UNCHANGED grantCode
    /\ UNCHANGED <<requestVars, client, ask, apiKey, lastUsed, served, revokedBefore>>

-------------------------------------------------------------------------------
(* Calls with a token.                                                     *)
CallWithToken(c, t) ==
    /\ access[t].state # "none"
    /\ Begin(c, "verify")
    /\ AsksFor(c, [NoAsk EXCEPT !.of = t])
    /\ revokedBefore' = [revokedBefore EXCEPT ![c] = Revoked]
    /\ UNCHANGED <<client, grantCode, access, apiKey, lastUsed, served>>

(* Faulty variant: a token is good until it expires.                       *)
VerifiedUntilExpiry(t) == access[t].state = "live"

Verified(t) == access[t].state = "live" /\ client[access[t].client].active

VerifyToken(c) ==
    LET t == ask[c].of
    IN  /\ pc[c] = "verify"
        /\ IF Verified(t)
           THEN served' = [served EXCEPT ![c] = access[t].client] /\ Goto(c, "done")
           ELSE UNCHANGED served /\ Goto(c, "refused")
        /\ UNCHANGED <<client, ask, grantCode, access, apiKey, lastUsed, revokedBefore>>

-------------------------------------------------------------------------------
(* API keys.                                                               *)
AskForKey(c) ==
    /\ Begin(c, "create")
    /\ UNCHANGED partnerVars

CreateKey(c) ==
    /\ pc[c] = "create"
    /\ apiKey' = [apiKey EXCEPT ![c] = "live"]
    /\ Goto(c, "done")
    /\ UNCHANGED <<client, ask, grantCode, access, lastUsed, served, revokedBefore>>

AskToRevokeKey(c, k) ==
    /\ apiKey[k] # "none"
    /\ Begin(c, "revoke")
    /\ AsksFor(c, [NoAsk EXCEPT !.of = k])
    /\ UNCHANGED <<client, grantCode, access, apiKey, lastUsed, served, revokedBefore>>

RevokeKey(c) ==
    LET k == ask[c].of
    IN  /\ pc[c] = "revoke"
        /\ IF apiKey[k] = "live"
           THEN apiKey' = [apiKey EXCEPT ![k] = "revoked"] /\ Goto(c, "done")
           ELSE UNCHANGED apiKey /\ Goto(c, "refused")
        /\ UNCHANGED <<client, ask, grantCode, access, lastUsed, served, revokedBefore>>

CallWithKey(c, k) ==
    /\ apiKey[k] # "none"
    /\ Begin(c, "verify")
    /\ AsksFor(c, [NoAsk EXCEPT !.of = k])
    /\ revokedBefore' = [revokedBefore EXCEPT ![c] = Revoked]
    /\ UNCHANGED <<client, grantCode, access, apiKey, lastUsed, served>>

(* Faulty variant: a key never used counts as one used lately.             *)
DueIfUsed(k) == lastUsed[k] = "earlier"

TouchDue(k) == lastUsed[k] # "lately"

(* The call is answered; lastUsedAt is written, unawaited, once a minute.  *)
ResolveKey(c) ==
    LET k == ask[c].of
    IN  /\ pc[c] = "verify"
        /\ IF apiKey[k] = "live"
           THEN /\ served' = [served EXCEPT ![c] = k]
                /\ Goto(c, IF TouchDue(k) THEN "touch" ELSE "done")
           ELSE UNCHANGED served /\ Goto(c, "refused")
        /\ UNCHANGED <<client, ask, grantCode, access, apiKey, lastUsed, revokedBefore>>

TouchKey(c) ==
    /\ pc[c] = "touch"
    /\ lastUsed' = [lastUsed EXCEPT ![ask[c].of] = "lately"]
    /\ Goto(c, "done")
    /\ UNCHANGED <<client, ask, grantCode, access, apiKey, served, revokedBefore>>

MinutePasses ==
    /\ \E k \in KeyCreations :
        lastUsed[k] = "lately" /\ lastUsed' = [lastUsed EXCEPT ![k] = "earlier"]
    /\ UNCHANGED <<requestVars, client, ask, grantCode, access, apiKey, served, revokedBefore>>

PartnerCutShort(c) == CutShort(c) /\ UNCHANGED partnerVars

PartnersNext ==
    \/ \E c \in Registrations : Register(c) \/ CreateClient(c)
    \/ \E c \in Revocations :
        RevokeClient(c) \/ \E k \in Registrations : AskToRevoke(c, k)
    \/ \E c \in Grants :
        \/ \E k \in Registrations, u \in GrantUsers, uri \in Uris \cup {NoParty}, S \in ScopeSets :
            Grant(c, k, u, uri, S)
        \/ ReadClientToGrant(c) \/ IssueCode(c)
    \/ \E c \in Exchanges :
        \/ \E k \in Registrations, g \in Grants, uri \in Uris \cup {NoParty} :
            Exchange(c, k, g, uri)
        \/ ReadClientToExchange(c) \/ ReadCode(c) \/ BurnCode(c) \/ IssueUserToken(c)
    \/ \E c \in Issuings :
        \/ \E k \in Registrations, S \in ScopeSets :
            AskToken(c, k, S)
        \/ ReadClientToIssue(c) \/ IssueClientToken(c)
    \/ \E c \in TokenCalls :
        VerifyToken(c) \/ \E t \in Askers : CallWithToken(c, t)
    \/ \E c \in KeyCreations : AskForKey(c) \/ CreateKey(c)
    \/ \E c \in KeyRevocations :
        RevokeKey(c) \/ \E k \in KeyCreations : AskToRevokeKey(c, k)
    \/ \E c \in KeyCalls :
        ResolveKey(c) \/ TouchKey(c) \/ \E k \in KeyCreations : CallWithKey(c, k)
    \/ \E c \in PartnerCalls : PartnerCutShort(c)
    \/ Expire \/ MinutePasses

-------------------------------------------------------------------------------
(* Who calls after a client or a key was revoked is not let in for it: nor *)
(* by a code or a token that was issued after the revocation, to a request *)
(* that had read the client before.                                        *)
RevokedServesNobody ==
    \A c \in TokenCalls \cup KeyCalls : served[c] \notin revokedBefore[c]

(* A token that was got for a code is the client's to whom the code was    *)
(* granted, with the user and the scopes of that grant, and the only one.  *)
TokensFitGrants ==
    /\ \A c \in Exchanges : access[c].state # "none" =>
        LET g == ask[c].of
        IN  /\ access[c].client = ask[g].client /\ access[c].user = ask[g].user
            /\ access[c].scopes = ask[g].scopes
            /\ grantCode[g] = "used"
            /\ \A d \in Exchanges : access[d].state # "none" /\ ask[d].of = g => d = c
    /\ \A c \in Askers : access[c].state # "none" =>
        access[c].scopes \subseteq client[access[c].client].scopes

(* The organizer is not told "never used" of a key that let a call in,     *)
(* once the update that the call sent has arrived.                         *)
UsedKeysShow ==
    failures = 0 /\ Busy \cap KeyCalls = {} =>
        \A c \in KeyCalls : served[c] # NoParty => lastUsed[served[c]] # "never"

(* Both: the organizer and the user see right who acts for them.           *)
GrantsShow == TokensFitGrants /\ UsedKeysShow
================================================================================
