-------------------------------- MODULE Identity --------------------------------
(***************************************************************************)
(* Who the app believes is signed in: token, e-mail and name are kept in   *)
(* memory and in the phone's preferences, which are written and removed    *)
(* one by one, and read back when the app starts (AuthStore).  The app may *)
(* be killed between two of these steps.                                   *)
(***************************************************************************)
EXTENDS Requests

CONSTANTS
    AppUsers,       \* users who sign in on the phone
    NamedUsers,     \* those whose account has a name
    LogIns, LogOffs,    \* sign-ins and sign-outs
    NoOwner         \* null

ASSUME IdentityAssumption ==
    /\ LogIns \cup LogOffs \subseteq Calls
    /\ LogIns \cap LogOffs = {}
    /\ NamedUsers \subseteq AppUsers
    /\ NoOwner \notin AppUsers

VARIABLES
    prefs,          \* the preferences: whose token, e-mail and name they hold
    known,          \* the same in memory
    entering        \* entering[c]: the user whom sign-in c is for

identityVars == <<prefs, known, entering>>

Unknown == [token |-> NoOwner, email |-> NoOwner, name |-> NoOwner]

IdentityTypeOK ==
    /\ {prefs, known} \subseteq
           [token : AppUsers \cup {NoOwner}, email : AppUsers \cup {NoOwner},
            name : NamedUsers \cup {NoOwner}]
    /\ entering \in [LogIns -> AppUsers \cup {NoOwner}]
    /\ \A c \in LogIns \cup LogOffs :
        pc[c] \in {"idle", "device", "token", "email", "name", "memory"} \cup Ended

IdentityInit ==
    /\ prefs = Unknown /\ known = Unknown
    /\ entering = [c \in LogIns |-> NoOwner]

-------------------------------------------------------------------------------
(* The API has answered with a session; the screen lets nobody sign in who *)
(* is signed in or signing in.                                             *)
LogIn(c, u) ==
    /\ known.token = NoOwner /\ Busy \cap LogIns = {}
    /\ Begin(c, "token")
    /\ entering' = [entering EXCEPT ![c] = u]
    /\ UNCHANGED <<prefs, known>>

(* Sign out: the API is told first, as long as the app has a token.        *)
LogOff(c) ==
    /\ known.token # NoOwner
    /\ Begin(c, "device")
    /\ UNCHANGED identityVars

DeviceForgotten(c) ==
    /\ pc[c] = "device"
    /\ Goto(c, "token")
    /\ UNCHANGED identityVars

Owner(c) == IF c \in LogIns THEN entering[c] ELSE NoOwner

PutToken(c) ==
    /\ pc[c] = "token"
    /\ prefs' = [prefs EXCEPT !.token = Owner(c)]
    /\ Goto(c, "email")
    /\ UNCHANGED <<known, entering>>

(* Faulty variant: a sign-out forgets the token and the e-mail only.       *)
WritesNameIfAny(c) == Owner(c) \in NamedUsers

WritesName(c) == c \in LogIns => Owner(c) \in NamedUsers

PutEmail(c) ==
    /\ pc[c] = "email"
    /\ prefs' = [prefs EXCEPT !.email = Owner(c)]
    /\ Goto(c, IF WritesName(c) THEN "name" ELSE "memory")
    /\ UNCHANGED <<known, entering>>

PutName(c) ==
    /\ pc[c] = "name"
    /\ prefs' = [prefs EXCEPT !.name = Owner(c)]
    /\ Goto(c, "memory")
    /\ UNCHANGED <<known, entering>>

Remember(c) ==
    /\ pc[c] = "memory"
    /\ known' = [token |-> Owner(c), email |-> Owner(c),
                 name |-> IF Owner(c) \in NamedUsers THEN Owner(c) ELSE NoOwner]
    /\ Goto(c, "done")
    /\ UNCHANGED <<prefs, entering>>

(* The app is closed, or killed with what it was doing, and starts again.  *)
Relaunch ==
    /\ IF Busy = {}
       THEN UNCHANGED <<pc, failures>>
       ELSE /\ failures < MaxFailures /\ failures' = failures + 1
            /\ pc' = [c \in Calls |-> IF c \in Busy THEN "dead" ELSE pc[c]]
    /\ known' = prefs
    /\ UNCHANGED <<overlapped, prefs, entering>>

IdentityNext ==
    \/ \E c \in LogIns, u \in AppUsers : LogIn(c, u)
    \/ \E c \in LogOffs : LogOff(c) \/ DeviceForgotten(c)
    \/ \E c \in LogIns \cup LogOffs : PutToken(c) \/ PutEmail(c) \/ PutName(c) \/ Remember(c)
    \/ Relaunch

-------------------------------------------------------------------------------
(* The e-mail beside a token is that of its user or none, even if the app  *)
(* was killed once between two writes, or a sign-out ended after the next  *)
(* sign-in; if both happened it may be that of the user before.  What is   *)
(* in memory outlives a restart, and the name is the user's too, if        *)
(* neither has happened: a sign-out cut short leaves a name to whoever     *)
(* signs in next and has none.                                             *)
IdentityFits ==
    /\ known.token # NoOwner /\ (failures = 0 \/ (failures = 1 /\ ~overlapped)) =>
        known.email \in {NoOwner, known.token}
    /\ Undisturbed /\ Busy = {} =>
        /\ known = prefs
        /\ known.name \in {NoOwner, known.token}
================================================================================
