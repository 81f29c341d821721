-------------------------------- MODULE Browser --------------------------------
(***************************************************************************)
(* What the web application knows of who is signed in.  The token is in    *)
(* the browser's storage, which other tabs change; a page reads it when it *)
(* opens and again, or not, when a button is pressed.  The header hears of *)
(* changes made in other tabs.  The layout of the dashboard asks the API   *)
(* again on every path.                                                    *)
(***************************************************************************)
EXTENDS Requests

CONSTANTS
    BrowserUsers,   \* users who sign in
    Window,         \* the loading of the site in a tab
    PageCalls,      \* requests of the page
    GateCalls,      \* requests of the layout
    Paths,          \* pages of the dashboard
    NoUser          \* null

BrowserCalls == {Window} \cup PageCalls \cup GateCalls

ASSUME BrowserAssumption ==
    /\ BrowserCalls \subseteq Calls
    /\ Window \notin PageCalls \cup GateCalls
    /\ PageCalls \cap GateCalls = {}
    /\ NoUser \notin BrowserUsers \cup Paths

VARIABLES
    stored,         \* the user whose token is in the storage
    header,         \* does the header show the links of a signed-in user?
    unheard,        \* has a storage event yet to reach the header?
    ownChange,      \* history: has this tab changed the token since?
    shownPage,      \* the page in use, NoUser before it is opened
    openedAs,       \* history: the user it was opened as
    changedSince,       \* history: has the token changed since?
    heldToken,      \* the token that the page keeps in its state
    sentAs,         \* sentAs[c]: the user whose token request c carries
    lateCalls,      \* history: requests sent since the token changed last
    shownUser,      \* the user whose data the page shows
    problem,        \* does it show an error?
    sentAway,       \* has it sent the user elsewhere?
    gate,           \* state and path of the layout, and where sign-in leads back to
    checkOf         \* checkOf[c]: the path for which request c was sent

headerVars == <<header, unheard, ownChange>>
tabVars == <<shownPage, openedAs, changedSince, heldToken, sentAs, lateCalls, shownUser, problem,
             sentAway>>
gateVars == <<gate, checkOf>>
browserVars == <<stored, headerVars, tabVars, gateVars>>

-------------------------------------------------------------------------------
(* loads: does the page ask for the user's data?  guest: what it does when *)
(* nobody is signed in.  keeps: does it keep the token?  onFailure: what   *)
(* becomes of it when the data does not arrive.  acts: what follows a      *)
(* button's success.  guestActs: what a button does when nobody is signed  *)
(* in any more: the request is refused, is made for a guest, or not made.  *)
(* adminOnly: are others than administrators sent away?                    *)
ListPage ==
    [loads |-> TRUE, guest |-> "leaves", keeps |-> FALSE, onFailure |-> "error",
     acts |-> "reload", guestActs |-> "refused", adminOnly |-> FALSE]
FormPage == [ListPage EXCEPT !.acts = "stay"]
ViewPage == [ListPage EXCEPT !.acts = "none"]

OrganizerPage    == ListPage
EventOrdersPage  == ListPage
MembersPage      == ListPage
PromosPage       == ListPage
RoutesPage       == ListPage
BankPage         == ListPage
DevelopersPage   == ListPage
PlatformPage     == [ListPage EXCEPT !.adminOnly = TRUE]
DashboardHome    == FormPage
WalletPage       == FormPage
AccountPage      == ViewPage
AuditPage        == [ViewPage EXCEPT !.adminOnly = TRUE]
FiguresPage      == [ViewPage EXCEPT !.guest = "error"]
AccountSecurity  == [ListPage EXCEPT !.keeps = TRUE, !.onFailure = "nothing"]
CollectiblePage  == [FormPage EXCEPT !.keeps = TRUE]
SupportPage      == [CollectiblePage EXCEPT !.loads = FALSE]
ConsentPage      == [FormPage EXCEPT !.loads = FALSE]
DoorPage         == [ConsentPage EXCEPT !.guestActs = "leaves"]
TransferPage     == [DoorPage EXCEPT !.guest = "stays"]
Marketplace      == TransferPage
EventPage        == [FormPage EXCEPT !.guest = "stays", !.onFailure = "nothing",
                                     !.guestActs = "guest"]
Greeting         == [ViewPage EXCEPT !.guest = "stays", !.onFailure = "nothing"]

BrowserPages ==
    { OrganizerPage, EventOrdersPage, MembersPage, PromosPage, RoutesPage, BankPage,
      DevelopersPage, PlatformPage, DashboardHome, WalletPage, AccountPage, AuditPage,
      FiguresPage, AccountSecurity, CollectiblePage, SupportPage, ConsentPage, DoorPage,
      TransferPage, Marketplace, EventPage, Greeting }

ASSUME BrowserPagesAssumption == NoUser \notin BrowserPages

BrowserTypeOK ==
    /\ stored \in BrowserUsers \cup {NoUser}
    /\ {header, unheard, ownChange, changedSince, problem, sentAway} \subseteq BOOLEAN
    /\ shownPage \in {NoUser} \cup BrowserPages
    /\ {openedAs, heldToken, shownUser} \subseteq BrowserUsers \cup {NoUser}
    /\ sentAs \in [PageCalls -> BrowserUsers \cup {NoUser}]
    /\ lateCalls \subseteq PageCalls
    /\ gate \in [state : {"absent", "loading", "ok", "unauth"},
                 path : Paths \cup {NoUser}, next : Paths \cup {NoUser}]
    /\ checkOf \in [GateCalls -> Paths \cup {NoUser}]
    /\ \A c \in BrowserCalls : pc[c] \in {"idle", "data", "act", "again", "check"} \cup Ended

BrowserInit ==
    /\ stored = NoUser
    /\ header = FALSE /\ unheard = FALSE /\ ownChange = FALSE
    /\ shownPage = NoUser /\ openedAs = NoUser /\ heldToken = NoUser /\ shownUser = NoUser
    /\ sentAs = [c \in PageCalls |-> NoUser]
    /\ changedSince = FALSE /\ lateCalls = {}
    /\ problem = FALSE /\ sentAway = FALSE
    /\ gate = [state |-> "absent", path |-> NoUser, next |-> NoUser]
    /\ checkOf = [c \in GateCalls |-> NoUser]

-------------------------------------------------------------------------------
(* The site is loaded, and its header looks into the storage.              *)
OpenWindow ==
    /\ Begin(Window, "done")
    /\ stored' \in BrowserUsers \cup {NoUser}
    /\ header' = (stored' # NoUser)
    /\ UNCHANGED <<unheard, ownChange, tabVars, gateVars>>

Loaded == pc[Window] = "done"

(* Another tab signs in or out, and the browser tells this one; or this    *)
(* one does, on the sign-in page or by a button, and is told nothing.      *)
Change(u) ==
    /\ Loaded
    /\ stored # u
    /\ stored' = u
    /\ changedSince' = (shownPage # NoUser)
    /\ lateCalls' = {}
    /\ UNCHANGED <<requestVars, header, shownPage, openedAs, heldToken, sentAs, shownUser,
                   problem, sentAway, gateVars>>

ChangeElsewhere(u) ==
    /\ Change(u)
    /\ unheard' = TRUE
    /\ UNCHANGED ownChange

ChangeHere(u) ==
    /\ shownPage = NoUser /\ gate.state = "absent"
    /\ Change(u)
    /\ ownChange' = TRUE
    /\ UNCHANGED unheard

(* Faulty variant: the header takes every event for a sign-out.            *)
SyncedOut == FALSE

Synced == stored # NoUser

HearStorage ==
    /\ unheard
    /\ unheard' = FALSE
    /\ header' = Synced
    /\ ownChange' = FALSE
    /\ UNCHANGED <<requestVars, stored, tabVars, gateVars>>

-------------------------------------------------------------------------------
(* Which request a press becomes makes no difference.                      *)
FreshCall == CHOOSE c \in PageCalls : pc[c] = "idle"

SendAs(u, step) ==
    /\ \E c \in PageCalls : pc[c] = "idle"
    /\ Begin(FreshCall, step)
    /\ sentAs' = [sentAs EXCEPT ![FreshCall] = u]
    /\ lateCalls' = lateCalls \cup {FreshCall}

ShowPage(p) ==
    /\ Loaded /\ shownPage = NoUser /\ gate.state = "absent"
    /\ shownPage' = p /\ openedAs' = stored
    /\ heldToken' = IF p.keeps THEN stored ELSE NoUser
    /\ IF p.loads /\ stored # NoUser
       THEN SendAs(stored, "data")
       ELSE UNCHANGED <<requestVars, sentAs, lateCalls>>
    /\ problem' = (stored = NoUser /\ p.guest = "error")
    /\ sentAway' = (stored = NoUser /\ p.guest = "leaves")
    /\ UNCHANGED <<stored, headerVars, changedSince, shownUser, gateVars>>

(* Faulty variant: the data that came first stays.                         *)
ShownFirst(c) == IF shownUser = NoUser THEN sentAs[c] ELSE shownUser

ShownBy(c) == sentAs[c]

ShowData(c) ==
    /\ pc[c] \in {"data", "again"}
    /\ shownUser' = ShownBy(c)
    /\ Goto(c, "done")
    /\ UNCHANGED <<stored, headerVars, shownPage, openedAs, changedSince, heldToken, sentAs,
                   lateCalls, problem, sentAway, gateVars>>

TurnAway(c) ==
    /\ pc[c] \in {"data", "again"} /\ shownPage.adminOnly
    /\ sentAway' = TRUE
    /\ Goto(c, "done")
    /\ UNCHANGED <<stored, headerVars, shownPage, openedAs, changedSince, heldToken, sentAs,
                   lateCalls, shownUser, problem, gateVars>>

(* Faulty variant: a page that keeps its token asks the storage all the    *)
(* same.                                                                   *)
ActingUserNow == stored

ActingUser == IF shownPage.keeps THEN heldToken ELSE stored

(* A page that asks for data shows its buttons with the data; whether it   *)
(* does so beside an error is left to Pages.                               *)
HasButtons ==
    /\ shownPage # NoUser /\ ~sentAway /\ ~problem
    /\ shownPage.acts # "none"
    /\ shownPage.loads /\ shownPage.guest # "stays" => shownUser # NoUser

PressOnPage ==
    /\ HasButtons
    /\ IF ActingUser = NoUser /\ shownPage.guestActs = "leaves"
       THEN sentAway' = TRUE /\ UNCHANGED <<requestVars, sentAs, lateCalls>>
       ELSE SendAs(ActingUser, "act") /\ UNCHANGED sentAway
    /\ UNCHANGED <<stored, headerVars, shownPage, openedAs, changedSince, heldToken, shownUser,
                   problem, gateVars>>

(* The API answers; the page may read its data again.                      *)
ActDone(c) ==
    /\ pc[c] = "act" /\ (sentAs[c] # NoUser \/ shownPage.guestActs = "guest")
    /\ CASE shownPage.acts # "reload" -> Goto(c, "done") /\ UNCHANGED <<sentAs, sentAway>>
         [] shownPage.acts = "reload" /\ ActingUser # NoUser ->
              /\ Goto(c, "again")
              /\ sentAs' = [sentAs EXCEPT ![c] = ActingUser]
              /\ UNCHANGED sentAway
         [] shownPage.acts = "reload" /\ ActingUser = NoUser ->
              Goto(c, "done") /\ sentAway' = TRUE /\ UNCHANGED sentAs
    /\ UNCHANGED <<stored, headerVars, shownPage, openedAs, changedSince, heldToken, lateCalls,
                   shownUser, problem, gateVars>>

ActRefused(c) ==
    /\ pc[c] = "act" /\ sentAs[c] = NoUser /\ shownPage.guestActs = "refused"
    /\ Goto(c, "refused")
    /\ problem' = TRUE
    /\ UNCHANGED <<stored, headerVars, shownPage, openedAs, changedSince, heldToken, sentAs,
                   lateCalls, shownUser, sentAway, gateVars>>

(* Faulty variant: only what a button does may fail.                       *)
NotesActs(c) == pc[c] = "act"

NotesFailure(c) == pc[c] = "act" \/ shownPage.onFailure = "error"

PageCallFails(c) ==
    /\ CutShort(c)
    /\ problem' = (problem \/ NotesFailure(c))
    /\ UNCHANGED <<stored, headerVars, shownPage, openedAs, changedSince, heldToken, sentAs,
                   lateCalls, shownUser, sentAway, gateVars>>

-------------------------------------------------------------------------------
(* The layout of the dashboard.                                            *)
FreshCheck == CHOOSE c \in GateCalls : pc[c] = "idle"

Follow(p) ==
    /\ Loaded /\ shownPage = NoUser
    /\ gate.next = NoUser /\ gate.path # p
    /\ \E c \in GateCalls : pc[c] = "idle"
    /\ IF stored = NoUser
       THEN /\ gate' = [state |-> "unauth", path |-> p, next |-> p]
            /\ UNCHANGED <<requestVars, checkOf>>
       ELSE /\ Begin(FreshCheck, "check")
            /\ checkOf' = [checkOf EXCEPT ![FreshCheck] = p]
            /\ gate' = [gate EXCEPT !.path = p,
                                    !.state = IF @ = "absent" THEN "loading" ELSE @]
    /\ UNCHANGED <<stored, headerVars, tabVars>>

(* Once the sign-in page has been opened the layout is gone.               *)
CheckOk(c) ==
    /\ pc[c] = "check"
    /\ gate' = IF gate.next = NoUser THEN [gate EXCEPT !.state = "ok"] ELSE gate
    /\ Goto(c, "done")
    /\ UNCHANGED <<stored, headerVars, tabVars, checkOf>>

(* Faulty variant: the sign-in page leads to one page of the dashboard.    *)
ReturnHome(c) == CHOOSE p \in Paths : TRUE

ReturnTo(c) == checkOf[c]

CheckFails(c) ==
    /\ CutShort(c)
    /\ gate' = IF gate.next = NoUser
               THEN [gate EXCEPT !.state = "unauth", !.next = ReturnTo(c)] ELSE gate
    /\ UNCHANGED <<stored, headerVars, tabVars, checkOf>>

BrowserNext ==
    \/ OpenWindow
    \/ \E u \in BrowserUsers \cup {NoUser} : ChangeElsewhere(u) \/ ChangeHere(u)
    \/ HearStorage
    \/ \E p \in BrowserPages : ShowPage(p)
    \/ PressOnPage
    \/ \E c \in PageCalls : ShowData(c) \/ TurnAway(c) \/ ActDone(c) \/ ActRefused(c) \/ PageCallFails(c)
    \/ \E p \in Paths : Follow(p)
    \/ \E c \in GateCalls : CheckOk(c) \/ CheckFails(c)

-------------------------------------------------------------------------------
(* Whose data a page shows and for whom its buttons act differ only after  *)
(* another tab has changed the token, and never on a page that keeps its   *)
(* own; the others show the new user's data once a button has done its     *)
(* work for him, if they read their data again at all.                     *)
ActsAsShown ==
    /\ shownPage # NoUser /\ (shownPage.keeps \/ ~changedSince) =>
        /\ \A c \in Started \cap PageCalls : sentAs[c] = openedAs
        /\ shownUser \in {NoUser, openedAs}
    /\ /\ shownPage # NoUser /\ ~overlapped /\ ~sentAway
       /\ ~shownPage.keeps /\ shownPage.acts = "reload"
       /\ \E c \in lateCalls : pc[c] = "done"
       => shownUser = stored

(* Once nothing is under way a page that was opened to show a user his     *)
(* data shows it, or an error, or has sent him elsewhere; the security     *)
(* page alone shows neither when its requests failed.                      *)
PagesSettle ==
    /\ shownPage # NoUser /\ Busy = {}
    /\ shownPage.loads /\ shownPage.guest # "stays"
    => \/ shownUser # NoUser \/ problem \/ sentAway
       \/ shownPage = AccountSecurity /\ failures > 0

(* The header is right about the storage, once it has heard of the last    *)
(* change, unless its own tab made it: it is not told of that one.         *)
HeaderIsRight ==
    ~unheard /\ ~ownChange => header = (stored # NoUser)

(* Who has to sign in comes back to the page he was on, unless the check   *)
(* that failed was an earlier page's; and the layout does not wait for     *)
(* ever.                                                                   *)
GateReturns ==
    /\ gate.next # NoUser /\ (~overlapped \/ failures = 0) => gate.next = gate.path
    /\ Busy = {} => gate.state # "loading"

(* All four: the browser's pages know who is signed in.                    *)
BrowserFits == ActsAsShown /\ PagesSettle /\ HeaderIsRight /\ GateReturns
================================================================================
