---------------------------------- MODULE Site ----------------------------------
(***************************************************************************)
(* A visit to the web application or the app: pages open, turn away who    *)
(* has to sign in, ask the API and show what it says; the visitor follows  *)
(* links, fills in forms and signs out; the session may end elsewhere at   *)
(* any time.                                                               *)
(***************************************************************************)
EXTENDS Requests, Sitemap

CONSTANTS
    Tours,          \* visits
    Names           \* names that organizers choose for themselves and for events

ASSUME SiteAssumption == Tours \subseteq Calls

(* What a page makes of its address.  The quick prompts of the home page   *)
(* name a query, and its form a tier, that three pages and one ignore.     *)
Ignored(path) ==
    IF path \in {"/flights", "/hotels", "/buses"} THEN {"q"}
    ELSE IF path = "/concerts" THEN {"tier"} ELSE {}

Understood(path) == PageAt[path].reads \cup Ignored(path)

KnownSpot(spot) ==
    /\ spot = Spot(spot.page, spot.params)
    /\ spot.page \in Paths /\ spot.params \subseteq Understood(spot.page)

VARIABLES
    at,             \* where the visitor is
    session,        \* what is kept of a session: none, stale, or whose it is
    onward,         \* the place that a sign-in form was told to go on to
    headed,         \* the place that the visitor left to sign in
    detour,         \* has he left, for another, the form that was told of it?
    stage,          \* how far the page is
    calling         \* the calls under way

siteVars == <<at, session, onward, headed, detour, stage, calling>>

SiteTypeOK ==
    /\ \A spot \in {onward, headed} \ {Nowhere} : KnownSpot(spot)
    /\ detour \in BOOLEAN
    /\ session \in {"none", "stale", "user", "admin"}
    /\ stage \in {"closed", "opening", "loading", "shown", "sending"}
    /\ \A t \in Tours : pc[t] \in {"idle", "visit"}

SiteInit ==
    /\ at = Nowhere /\ onward = Nowhere /\ headed = Nowhere /\ detour = FALSE
    /\ session = "none"
    /\ stage = "closed"
    /\ calling = {}

here == PageAt[at.page]

-------------------------------------------------------------------------------
(* A page opens at a spot; whoever was headed there has arrived.           *)
Opens(spot, next, wanted, strays) ==
    /\ at' = spot
    /\ onward' = next
    /\ headed' = IF spot = wanted THEN Nowhere ELSE wanted
    /\ detour' = (strays /\ wanted \notin {Nowhere, spot})
    /\ stage' = "opening"
    /\ calling' = {}

(* A form that was told no place goes on to the account.                   *)
Target(spot) ==
    IF spot # Onward THEN spot
    ELSE IF onward = Nowhere THEN Spot("/account", {}) ELSE onward

Goes(link, wanted, strays) == Opens(Target(link.spot), link.next, wanted, strays)

(* The ways to get a session, which lead to each other.                    *)
SignInWays ==
    {"/signin", "/signup", "/signin/magic-link", "/forgot-password", "/reset-password"}

(* Who follows a link that tells a form where to go on to wants to come    *)
(* back; who goes from one way of signing in to another wants what he      *)
(* wanted; who leaves them gives it up.                                    *)
Follows(link) ==
    IF link.next # Nowhere THEN Goes(link, at, FALSE)
    ELSE IF {at.page, link.spot.page} \subseteq SignInWays THEN Goes(link, headed, TRUE)
    ELSE Goes(link, Nowhere, FALSE)

(* Who has got a session goes on to where he was headed.                   *)
GoesOn(link) == Goes(link, headed, detour)
GoesHome == Goes(Link("/", {}, Nowhere), Nowhere, FALSE)

(* The page stays, with these calls under way.                             *)
Keeps(step, calls) == stage' = step /\ calling' = calls /\ UNCHANGED <<at, onward, headed, detour>>

SignsIn(c) ==
    c.path \in {<<"auth", "signup">>, <<"auth", "signin">>, <<"auth", "signin", "2fa">>,
                <<"auth", "google">>, <<"auth", "apple">>, <<"auth", "magic-link", "confirm">>}

(* What an answer makes of the session.                                    *)
SessionAfter(calls) ==
    IF \E c \in calls : SignsIn(c) THEN {"user", "admin"}
    ELSE IF DeleteAccount \in calls THEN {"none"} ELSE {session}

(* Is a call refused for its token?                                        *)
Refused(c) == c.as = "user" /\ session = "stale"

-------------------------------------------------------------------------------
(* From outside: an address typed, a link in a mail, the app's icon.       *)
OpenSite(t) ==
    /\ stage = "closed"
    /\ Begin(t, "visit")
    /\ \E path \in Paths :
          \E params \in {{}, PageAt[path].reads \ {"next"}} :
             Opens(Spot(path, params), Nowhere, Nowhere, FALSE)
    /\ session' \in {"none", "stale", "user", "admin"}

(* The gate of the page, before anything is asked.                         *)
IsTurnedAway ==
    \/ here.gate.who \in {"user", "admin"} /\ session = "none"
    \/ here.gate.who = "visitor" /\ session # "none"

(* Faulty variant: the query is dropped.                                   *)
OnwardWithoutQuery(gate) == gate.to.next

(* What the gate tells the form, with the query where the page passes it.  *)
OnwardFrom(gate) ==
    IF gate.keeps THEN [gate.to.next EXCEPT !.params = at.params] ELSE gate.to.next

TurnAway ==
    /\ stage = "opening" /\ IsTurnedAway
    /\ IF here.gate.who = "visitor" THEN Follows(here.gate.to)
       ELSE Opens(here.gate.to.spot, OnwardFrom(here.gate), at, FALSE)
    /\ UNCHANGED session

(* Faulty variant: what belongs to a user is asked for a visitor too.      *)
LoadsUnasked ==
    IF ~(here.wants \subseteq at.params) THEN {}
    ELSE IF here.gate.who = "admin" /\ session # "admin" THEN {AuthApi.me}
    ELSE IF "q" \in at.params /\ here.queried # {} THEN here.queried ELSE here.loads

(* The calls of a page that opens.  The console first asks who is there;   *)
(* a page that lacks a parameter it wants asks nothing.                    *)
LoadsNow ==
    IF ~(here.wants \subseteq at.params) THEN {}
    ELSE IF here.gate.who = "admin" /\ session # "admin" THEN {AuthApi.me}
    ELSE { c \in IF "q" \in at.params /\ here.queried # {} THEN here.queried ELSE here.loads :
              c.as = "user" => session # "none" }

Load ==
    /\ stage = "opening" /\ ~IsTurnedAway
    /\ Keeps(IF LoadsNow = {} /\ (here.moves = {} \/ here.wants # {}) THEN "shown" ELSE "loading",
             LoadsNow)
    /\ UNCHANGED session

(* The answers are in.  Some pages move on by themselves; the console      *)
(* sends home who is no admin.                                             *)
Loaded ==
    /\ stage = "loading" /\ \A c \in calling : ~Refused(c)
    /\ calling # {} \/ here.moves # {}
    /\ session' \in SessionAfter(calling)
    /\ IF here.gate.who = "admin" /\ session # "admin" THEN GoesHome
       ELSE IF here.moves = {} THEN Keeps("shown", {})
       ELSE \E link \in here.moves : GoesOn(link)

(* One fails: the page says so, waits on for good, sends the visitor to    *)
(* sign in if it is the call for who is there, or is the home page.        *)
LoadFails ==
    /\ stage = "loading" /\ calling # {}
    /\ UNCHANGED session
    /\ \/ here.onFail = "turned" /\ Opens(here.gate.to.spot, OnwardFrom(here.gate), at, FALSE)
       \/ here.onFail \in {"message", "turned"} /\ Keeps("shown", {})
       \/ here.onFail = "waits" /\ Keeps("loading", {})
       \/ here.onFail = "home" /\ GoesHome

(* Links work while the page loads, except on one that will move on.       *)
Follow ==
    /\ stage \in {"loading", "shown", "sending"}
    /\ stage = "loading" => here.moves = {}
    /\ \E link \in LinksOn(here, session) : Follows(link)
    /\ UNCHANGED session

(* The visitor has the page ask something, or must sign in first.          *)
Send ==
    /\ stage = "shown"
    /\ UNCHANGED session
    /\ \E s \in here.sends :
          IF s.call.as = "user" /\ session = "none" THEN \E link \in here.asks : Follows(link)
          ELSE Keeps("sending", {s.call})

(* The answer.  Some lead elsewhere by themselves; with others the page    *)
(* stays, until a mail is opened or a payment page sends back.  A password *)
(* that asks for a second factor leaves the form where it is.              *)
LeadsAway(c) ==
    \/ SignsIn(c) /\ c.path # <<"auth", "signin">>
    \/ c \in {DeleteAccount, ResaleApi.buy, OrganizerApi.createOrganizer}
    \/ c.path = <<"auth", "password-reset", "confirm">>

Answered ==
    /\ stage = "sending" /\ \A c \in calling : ~Refused(c)
    /\ \/ /\ \E s \in here.sends :
                /\ s.call \in calling
                /\ \E link \in s.leads :
                      IF SignsIn(s.call) THEN GoesOn(link) ELSE Follows(link)
          /\ session' \in SessionAfter(calling)
       \/ /\ \A c \in calling : ~LeadsAway(c)
          /\ Keeps("shown", {})
          /\ UNCHANGED session

SendFails == stage = "sending" /\ Keeps("shown", {}) /\ UNCHANGED session

SignOut ==
    /\ stage \in {"shown", "sending"}
    /\ \E link \in here.signOut : Follows(link)
    /\ session' = "none"

(* The session expires, or is revoked from this device or another.         *)
SessionEnds ==
    /\ session \in {"user", "admin"} /\ stage # "closed"
    /\ session' = "stale"
    /\ UNCHANGED <<at, onward, headed, detour, stage, calling>>

Visit(t) ==
    /\ pc[t] = "visit"
    /\ UNCHANGED requestVars
    /\ TurnAway \/ Load \/ Loaded \/ LoadFails \/ Follow \/ Send \/ Answered \/ SendFails
          \/ SignOut \/ SessionEnds

SiteNext == \E t \in Tours : OpenSite(t) \/ Visit(t)

-------------------------------------------------------------------------------
(* Every link and every redirect reaches a page that there is.             *)
PageExists == stage # "closed" => at.page \in Paths

(* Whatever name an organizer chose, a call meets the route that it is     *)
(* meant for, which takes what it sends and gives what it reads.  One name *)
(* is lost: an event called search.                                        *)
MeetsRoute(c, name) ==
    LET i == Dispatch(c.verb, Filled(c.path, name)) IN
    /\ i # 0
    /\ ApiRoutes[i].path = c.path
    /\ Accepts(ApiRoutes[i], c.sent, c.may)
    /\ ApiRoutes[i].gives = c.reads

PageCalls == UNION {p.loads \cup p.queried \cup {s.call : s \in p.sends} : p \in AllPages}
LostName(c, name) == c = SalesApi.getEvent /\ name = "search"

RoutesMeet == [c \in PageCalls |-> \A n \in Names : LostName(c, n) \/ MeetsRoute(c, n)]

(* The guard of the route lets through who may see the page, unless the    *)
(* session has ended meanwhile.                                            *)
GuardOf == [c \in PageCalls |-> ApiRoutes[Dispatch(c.verb, Filled(c.path, "*"))].guard]
CallsAreMet ==
    \A c \in calling :
       /\ RoutesMeet[c]
       /\ session = "stale" \/ Passes(GuardOf[c], IF c.as = "nobody" THEN "none" ELSE session)

(* A page looks at what its address says.                                  *)
ParamsAreRead == stage # "closed" => at.params \subseteq Understood(at.page)

(* Who left a page to sign in comes back to it, with its query, if he gets *)
(* his session on the form that he was sent to.  The scanner's gate, the   *)
(* tabs of the account and the app lose the place.                         *)
PlaceIsLost(spot) ==
    spot.page \in {"/scan"} \cup AppPaths \/ spot = Spot("/account", {"tab"})

Returns == headed # Nowhere => at.page \in SignInWays
ComesBack == Returns \/ detour \/ PlaceIsLost(headed)

(* The page of a ticket that was sent says so of itself, by whatever way   *)
(* its visitor signs in or signs up.                                       *)
BouncedBack == headed = Spot("/transfer/:id", {}) => Returns

(* What belongs to a user shows nothing to a visitor.                      *)
NothingWithoutSession ==
    stage \in {"loading", "shown", "sending"} /\ here.gate.who \in {"user", "admin"}
       => session # "none"

(* The pages, their links and their calls fit together and fit the API.    *)
SiteHolds ==
    PageExists /\ CallsAreMet /\ ParamsAreRead /\ ComesBack /\ NothingWithoutSession

-------------------------------------------------------------------------------
(* The tables have no parameters: what a page must be like for a visit to  *)
(* hold is settled by evaluating this for each of them.                    *)
FollowedFrom(p) ==
    (UNION {LinksOn(p, token) : token \in {"none", "stale", "user", "admin"}})
        \cup p.asks \cup p.signOut \cup (UNION {s.leads : s \in {r \in p.sends : ~SignsIn(r.call)}})
        \cup IF p.gate.who = "visitor" THEN {p.gate.to} ELSE {}

LeadsSomewhere(p) ==
    /\ \A link \in FollowedFrom(p) \cup p.moves \cup {p.gate.to} \cup UNION {s.leads : s \in p.sends} :
          /\ link.spot = Onward \/ KnownSpot(link.spot)
          /\ link.next = Nowhere \/ KnownSpot(link.next)
    /\ p.gate.who \in {"user", "admin"} \/ p.onFail = "turned" =>
          KnownSpot(p.gate.to.spot) /\ (p.gate.keeps => p.gate.to.next.page = p.path)

(* The sign-in form is told of the page that sends to it, and goes there.  *)
BringsBack(p) ==
    /\ \A link \in FollowedFrom(p) :
          link.next # Nowhere /\ p.path \notin {"/scan"} \cup AppPaths =>
             /\ link.spot.page = "/signin"
             /\ link.next = Spot(p.path, {}) /\ Understood(p.path) = {}
    /\ p.gate.who \in {"user", "admin"} \/ p.onFail = "turned" =>
          \/ p.path \in {"/scan"} \cup AppPaths
          \/ /\ p.gate.to.spot.page = "/signin" /\ p.gate.to.next.page = p.path
             /\ \/ p.gate.keeps
                \/ /\ p.gate.to.next.params = {}
                   /\ Understood(p.path) \subseteq IF p.path = "/account" THEN {"tab"} ELSE {}
    /\ p.path = "/signin" =>
          /\ p.moves = {}
          /\ \A s \in p.sends : SignsIn(s.call) => \A link \in s.leads : link.spot = Onward

(* Calls that the guards let through for who may see the page.             *)
AsksWhatItMay(p) ==
    /\ \A c \in p.loads \cup p.queried \cup {s.call : s \in p.sends} :
          /\ RoutesMeet[c]
          /\ c.as # "user" => Passes(GuardOf[c], "none")
          /\ c.as # "nobody" /\ p.gate.who # "admin" => Passes(GuardOf[c], "user")
          /\ c.as # "nobody" => Passes(GuardOf[c], "admin")
    /\ DeleteAccount \notin p.loads \cup p.queried
    /\ p.gate.who = "admin" =>
          /\ AuthApi.me \in p.loads /\ p.queried = {} /\ p.wants = {}
          /\ \A c \in p.loads : ~SignsIn(c)
          /\ p.onFail = "waits" \/ p.sends = {}

ASSUME SitemapAssumption ==
    \A p \in AllPages : LeadsSomewhere(p) /\ BringsBack(p) /\ AsksWhatItMay(p)
================================================================================
