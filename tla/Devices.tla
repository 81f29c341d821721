--------------------------------- MODULE Devices ---------------------------------
(***************************************************************************)
(* Whose notifications reach a phone and a browser.  The phone: the app's  *)
(* AuthStore and PushClient sign users in and out and register the phone's *)
(* FCM token, Firebase rotates the token, and the API's PushService keeps  *)
(* one row per token.  The browser, below: the toggle of the account page, *)
(* open in several tabs, the push subscription that the tabs share, and    *)
(* the row that PushService keeps for its endpoint.                        *)
(***************************************************************************)
EXTENDS Requests

CONSTANTS
    PhoneUsers,     \* users who share the phone
    Nobody,         \* no user
    SignIns,        \* sign-ins, each with the registration it starts
    SignOuts,
    FcmTokens       \* tokens are 1 .. FcmTokens, in the order of rotation

ASSUME DevicesAssumption ==
    /\ IsFiniteSet(PhoneUsers)
    /\ Nobody \notin PhoneUsers
    /\ SignIns \cup SignOuts \subseteq Calls
    /\ SignIns \cap SignOuts = {}
    /\ FcmTokens \in Nat \ {0}

VARIABLES
    signedIn,       \* AuthStore: whose session the app holds
    fcm,            \* the token Firebase gives for the phone now
    device,         \* device[t]: DeviceToken.userId of token t
    listeners,      \* users whose onTokenRefresh listeners are subscribed
    refreshes,      \* registrations that listeners sent, not yet handled
    task,           \* task[c]: the user and the token that c works with
    missed          \* history: was the token rotated while a task ran?

deviceVars == <<signedIn, fcm, device, listeners, refreshes, task, missed>>

Holders == PhoneUsers \cup {Nobody}

DevicesTypeOK ==
    /\ signedIn \in Holders
    /\ fcm \in 1..FcmTokens
    /\ device \in [1..FcmTokens -> Holders]
    /\ listeners \subseteq PhoneUsers
    /\ refreshes \subseteq PhoneUsers \X (1..FcmTokens)
    /\ missed \in BOOLEAN
    /\ task \in [SignIns \cup SignOuts -> Holders \X (1..FcmTokens)]
    /\ \A c \in SignIns \cup SignOuts :
        pc[c] \in {"idle", "getToken", "send", "listen", "clear"} \cup Ended

DevicesInit ==
    /\ signedIn = Nobody
    /\ fcm = 1
    /\ device = [t \in 1..FcmTokens |-> Nobody]
    /\ listeners = {}
    /\ refreshes = {}
    /\ task = [c \in SignIns \cup SignOuts |-> <<Nobody, 1>>]
    /\ missed = FALSE

-------------------------------------------------------------------------------
(* _persist stores the session and starts registerForUser unawaited.       *)
SignIn(c) ==
    \E u \in PhoneUsers :
        /\ signedIn = Nobody
        /\ Begin(c, "getToken")
        /\ signedIn' = u
        /\ task' = [task EXCEPT ![c] = <<u, 1>>]
        /\ UNCHANGED <<fcm, device, listeners, refreshes, missed>>

(* getToken in registerForUser and in deregister.                          *)
GetFcmToken(c) ==
    /\ pc[c] = "getToken"
    /\ task' = [task EXCEPT ![c][2] = fcm]
    /\ Goto(c, "send")
    /\ UNCHANGED <<signedIn, fcm, device, listeners, refreshes, missed>>

(* PushService.register: an upsert on the token.                           *)
RegisterDevice(c) ==
    /\ pc[c] = "send"
    /\ device' = [device EXCEPT ![task[c][2]] = task[c][1]]
    /\ Goto(c, "listen")
    /\ UNCHANGED <<signedIn, fcm, listeners, refreshes, task, missed>>

(* onTokenRefresh.listen, which nothing ever cancels.                      *)
ListenForRefresh(c) ==
    /\ pc[c] = "listen"
    /\ listeners' = listeners \cup {task[c][1]}
    /\ Goto(c, "done")
    /\ UNCHANGED <<signedIn, fcm, device, refreshes, task, missed>>

(* signOut begins with deregister.                                         *)
SignOut(c) ==
    /\ signedIn # Nobody
    /\ Begin(c, "getToken")
    /\ task' = [task EXCEPT ![c] = <<signedIn, 1>>]
    /\ UNCHANGED <<signedIn, fcm, device, listeners, refreshes, missed>>

(* Faulty variant: the row is left when a user signs out.                  *)
RemovesRowNever(u, t) == FALSE

RemovesRow(u, t) == device[t] = u

(* PushService.unregister: deleteMany of this user's row for this token.   *)
UnregisterDevice(c) ==
    LET u == task[c][1]
        t == task[c][2]
    IN  /\ pc[c] = "send"
        /\ device' = IF RemovesRow(u, t) THEN [device EXCEPT ![t] = Nobody] ELSE device
        /\ Goto(c, "clear")
        /\ UNCHANGED <<signedIn, fcm, listeners, refreshes, task, missed>>

(* The call fails, which is swallowed.                                     *)
UnregisterFails(c) ==
    /\ pc[c] = "send"
    /\ failures < MaxFailures
    /\ failures' = failures + 1
    /\ MovesTo(c, "clear")
    /\ UNCHANGED <<overlapped, deviceVars>>

ClearSession(c) ==
    /\ pc[c] = "clear"
    /\ signedIn' = Nobody
    /\ Goto(c, "done")
    /\ UNCHANGED <<fcm, device, listeners, refreshes, task, missed>>

(* Firebase rotates the token: each listener registers the new one with    *)
(* the session it was subscribed with.                                     *)
RotateToken ==
    /\ fcm < FcmTokens
    /\ \E c \in SignIns : pc[c] # "idle"
    /\ fcm' = fcm + 1
    /\ refreshes' = refreshes \cup (listeners \X {fcm + 1})
    /\ missed' = (missed \/ Busy # {})
    /\ UNCHANGED <<requestVars, signedIn, device, listeners, task>>

RegisterRefreshed ==
    \E r \in refreshes :
        /\ device' = [device EXCEPT ![r[2]] = r[1]]
        /\ refreshes' = refreshes \ {r}
        /\ UNCHANGED <<requestVars, signedIn, fcm, listeners, task, missed>>

(* sendOne: FCM answers UNREGISTERED for a token it has replaced.          *)
DropStaleDevice ==
    \E t \in 1..FcmTokens :
        /\ t < fcm /\ device[t] # Nobody
        /\ device' = [device EXCEPT ![t] = Nobody]
        /\ UNCHANGED <<requestVars, signedIn, fcm, listeners, refreshes, task, missed>>

DeviceCutShort(c) == CutShort(c) /\ UNCHANGED deviceVars

DevicesNext ==
    \/ \E c \in SignIns \cup SignOuts : GetFcmToken(c) \/ DeviceCutShort(c)
    \/ \E c \in SignIns : SignIn(c) \/ RegisterDevice(c) \/ ListenForRefresh(c)
    \/ \E c \in SignOuts :
        SignOut(c) \/ UnregisterDevice(c) \/ UnregisterFails(c) \/ ClearSession(c)
    \/ RotateToken \/ RegisterRefreshed \/ DropStaleDevice

-------------------------------------------------------------------------------
(* Notifications for the phone go to the user who is signed in on it, and  *)
(* to nobody when no one is: once the tasks have ended, none failed, none  *)
(* ran while another did or while the token was rotated, and no user whose *)
(* listener is still subscribed has signed out before a rotation.          *)
DeviceFollowsUser ==
    (/\ Undisturbed /\ Busy = {} /\ refreshes = {} /\ ~missed
     /\ fcm = 1 \/ listeners \subseteq {signedIn})
        => device[fcm] = signedIn

-------------------------------------------------------------------------------
(* The browser.                                                            *)
CONSTANTS
    Tabs,
    Toggles,        \* presses of the button
    WebUsers,       \* users of the browser, one after the other
    NoOne           \* no user

ASSUME WebPushAssumption ==
    /\ IsFiniteSet(Toggles) /\ Toggles \subseteq Calls
    /\ NoOne \notin WebUsers

VARIABLES
    permission,     \* Notification.permission
    subscription,   \* the endpoint of the browser; 0: none
    issued,         \* endpoints are 1 .. issued
    endpoint,       \* endpoint[t]: what tab t knows of it
    toggling,       \* busy of the tabs
    webRows,        \* webRows[e]: DeviceToken.userId of endpoint e
    webUser,        \* whose session the browser holds
    toggle,         \* toggle[c]: tab, user, endpoint
    switched        \* history: has another user signed in?

webPushVars == <<permission, subscription, issued, endpoint, toggling, webRows, webUser,
                 toggle, switched>>

(* Each press makes one endpoint at most.                                  *)
Endpoints == 1..Cardinality(Toggles)

WebPushTypeOK ==
    /\ permission \in {"default", "granted", "denied"}
    /\ subscription \in 0..issued /\ issued \in {0} \cup Endpoints
    /\ endpoint \in [Tabs -> 0..issued]
    /\ toggling \subseteq Tabs
    /\ webRows \in [Endpoints -> WebUsers \cup {NoOne}]
    /\ webUser \in WebUsers \cup {NoOne}
    /\ switched \in BOOLEAN
    /\ \A c \in Toggles :
        pc[c] \in {"idle", "permission", "subscribe", "register", "find", "unregister"} \cup Ended

WebPushInit ==
    /\ permission = "default"
    /\ subscription = 0 /\ issued = 0
    /\ endpoint = [t \in Tabs |-> 0]
    /\ toggling = {}
    /\ webRows = [e \in Endpoints |-> NoOne]
    /\ webUser = NoOne
    /\ toggle = [c \in Toggles |-> <<>>]
    /\ switched = FALSE

-------------------------------------------------------------------------------
ShownOn(t) == permission = "granted" /\ endpoint[t] # 0

FreshToggle == CHOOSE c \in Toggles : pc[c] = "idle"

(* The button calls enable or disable; the page is for who is signed in.   *)
PressToggle(t) ==
    LET c == FreshToggle
    IN  /\ \E d \in Toggles : pc[d] = "idle"
        /\ t \notin toggling /\ permission # "denied"
        /\ IF webUser # NoOne
           THEN UNCHANGED <<webUser, switched>>
           ELSE \E u \in WebUsers : webUser' = u /\ UNCHANGED switched
        /\ Begin(c, IF ShownOn(t) THEN "find" ELSE "permission")
        /\ toggle' = [toggle EXCEPT ![c] = [tab |-> t, user |-> webUser', was |-> endpoint[t]]]
        /\ toggling' = toggling \cup {t}
        /\ UNCHANGED <<permission, subscription, issued, endpoint, webRows>>

AnswerPermission(c) ==
    /\ pc[c] = "permission"
    /\ permission' \in IF permission = "default" THEN {"granted", "denied"} ELSE {permission}
    /\ IF permission' = "granted"
       THEN Goto(c, "subscribe") /\ UNCHANGED toggling
       ELSE Goto(c, "done") /\ toggling' = toggling \ {toggle[c].tab}
    /\ UNCHANGED <<subscription, issued, endpoint, webRows, webUser, toggle, switched>>

(* Faulty variant: every tab that is switched on makes its own.            *)
SubscribeAnew(c) ==
    /\ pc[c] = "subscribe"
    /\ subscription' = issued + 1 /\ issued' = issued + 1
    /\ endpoint' = [endpoint EXCEPT ![toggle[c].tab] = subscription']
    /\ toggle' = [toggle EXCEPT ![c].was = subscription']
    /\ Goto(c, "register")
    /\ UNCHANGED <<permission, toggling, webRows, webUser, switched>>

(* pushManager.subscribe gives the subscription that there is, or makes    *)
(* one; the tab shows it before the API knows of it.                       *)
Subscribe(c) ==
    /\ pc[c] = "subscribe"
    /\ IF subscription # 0
       THEN UNCHANGED <<subscription, issued>>
       ELSE subscription' = issued + 1 /\ issued' = issued + 1
    /\ endpoint' = [endpoint EXCEPT ![toggle[c].tab] = subscription']
    /\ toggle' = [toggle EXCEPT ![c].was = subscription']
    /\ Goto(c, "register")
    /\ UNCHANGED <<permission, toggling, webRows, webUser, switched>>

(* PushService.register.                                                   *)
RegisterBrowser(c) ==
    /\ pc[c] = "register"
    /\ webRows' = [webRows EXCEPT ![toggle[c].was] = toggle[c].user]
    /\ toggling' = toggling \ {toggle[c].tab}
    /\ Goto(c, "done")
    /\ UNCHANGED <<permission, subscription, issued, endpoint, webUser, toggle, switched>>

(* sub?.endpoint ?? endpoint                                               *)
EndpointToRemove(c) == IF subscription # 0 THEN subscription ELSE toggle[c].was

Unsubscribe(c) ==
    /\ pc[c] = "find"
    /\ toggle' = [toggle EXCEPT ![c].was = EndpointToRemove(c)]
    /\ subscription' = 0
    /\ Goto(c, "unregister")
    /\ UNCHANGED <<permission, issued, endpoint, toggling, webRows, webUser, switched>>

TurnedOff(c) ==
    /\ endpoint' = [endpoint EXCEPT ![toggle[c].tab] = 0]
    /\ toggling' = toggling \ {toggle[c].tab}
    /\ UNCHANGED <<permission, subscription, issued, webUser, toggle, switched>>

(* PushService.unregister: deleteMany of this user's row of the endpoint.  *)
UnregisterBrowser(c) ==
    LET e == toggle[c].was
    IN  /\ pc[c] = "unregister"
        /\ webRows' = [f \in Endpoints |->
               IF f = e /\ webRows[f] = toggle[c].user THEN NoOne ELSE webRows[f]]
        /\ Goto(c, "done")
        /\ TurnedOff(c)

(* An await that throws; that of the removal is swallowed.                 *)
ToggleFails(c) ==
    /\ CutShort(c)
    /\ IF pc[c] = "unregister"
       THEN TurnedOff(c)
       ELSE /\ toggling' = toggling \ {toggle[c].tab}
            /\ UNCHANGED <<permission, subscription, issued, endpoint, webUser, toggle, switched>>
    /\ UNCHANGED webRows

(* The page is loaded again: refresh reads the subscription.               *)
ReloadTab(t) ==
    /\ t \notin toggling /\ endpoint[t] # subscription
    /\ endpoint' = [endpoint EXCEPT ![t] = subscription]
    /\ UNCHANGED <<requestVars, permission, subscription, issued, toggling, webRows, webUser,
                   toggle, switched>>

(* signOut drops the session and nothing else; another user signs in.      *)
(* Bound: once.                                                            *)
SwitchUser ==
    /\ webUser # NoOne /\ toggling = {} /\ ~switched
    /\ webUser' \in WebUsers \ {webUser}
    /\ switched' = TRUE
    /\ UNCHANGED <<requestVars, permission, subscription, issued, endpoint, toggling, webRows,
                   toggle>>

(* sendOne deletes the row of an endpoint that is no longer subscribed.    *)
DropBrowser(e) ==
    /\ webRows[e] # NoOne /\ e # subscription
    /\ webRows' = [webRows EXCEPT ![e] = NoOne]
    /\ UNCHANGED <<requestVars, permission, subscription, issued, endpoint, toggling, webUser,
                   toggle, switched>>

WebPushNext ==
    \/ \E t \in Tabs : PressToggle(t) \/ ReloadTab(t)
    \/ \E c \in Toggles :
        \/ AnswerPermission(c) \/ Subscribe(c) \/ RegisterBrowser(c)
        \/ Unsubscribe(c) \/ UnregisterBrowser(c) \/ ToggleFails(c)
    \/ SwitchUser
    \/ \E e \in Endpoints : DropBrowser(e)

-------------------------------------------------------------------------------
(* The API has a row, of who uses the browser, for its subscription, and   *)
(* none for an endpoint that was given up: if the tabs took turns, no      *)
(* request failed, and one user had the browser.  Signing out leaves the   *)
(* row, and the next user cannot remove it.                                *)
RowFollowsSubscription ==
    Undisturbed /\ Busy = {} /\ ~switched =>
        \A e \in Endpoints : webRows[e] = IF e = subscription THEN webUser ELSE NoOne
================================================================================
