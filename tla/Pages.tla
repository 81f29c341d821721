--------------------------------- MODULE Pages ---------------------------------
(***************************************************************************)
(* The buttons of the pages of the web application and of the screens of   *)
(* the app that change something: of a list (orders to refund, members,    *)
(* codes, routes, organizers) or of a form.  A button sends a request, and *)
(* what differs from page to page is which buttons a flag disables         *)
(* meanwhile, when the flag is reset, and what happens after the answer.   *)
(***************************************************************************)
EXTENDS Requests

CONSTANTS
    Acts,           \* requests that the buttons send
    ActRows,        \* rows of the list
    FormRow,        \* the row that stands for a form
    NoRow           \* null

ASSUME PagesAssumption ==
    /\ Acts \subseteq Calls
    /\ FormRow \in ActRows /\ NoRow \notin ActRows

VARIABLES
    page,           \* the handlers of the page in use; {} before its first use
    act,            \* act[c]: row, handler, and the list that request c was told
    flag,           \* busy, refundingId, publishing, submitting, ...
    serverList,     \* acts done per row, as in the database
    shownList,      \* the same as the page shows it
    latest,         \* the request whose reload was sent last
    replaced,       \* does the page show an error only?
    finished,       \* rows whose button has given way to a result
    freedEarly,     \* history: rows whose flag was taken while their request ran
    stuck           \* history: was the flag set for an input that was not sent?

pageVars == <<page, act, flag, serverList, shownList, latest, replaced, finished,
              freedEarly, stuck>>

-------------------------------------------------------------------------------
(* Handlers.  sets: is the flag set?  disables: the buttons that it        *)
(* disables.  frees: is it reset in a finally or in the catch only?        *)
(* after: the list is read again, another page opened, or a result shown.  *)
(* shows: every list that arrives, or only that of the last reload.        *)
(* replacedBy: the steps whose failure replaces the page by the error.     *)
(* clears: does reading the list take the error away?                      *)
(* checksInside: is the input checked between the flag and the request?    *)
RowButton ==
    [sets |-> TRUE, disables |-> "row", frees |-> "always", after |-> "reload",
     shows |-> "all", replacedBy |-> {}, clears |-> FALSE, checksInside |-> FALSE]
FormButton == [RowButton EXCEPT !.disables = "page", !.after = "stay"]
LeavingForm == [FormButton EXCEPT !.after = "leave", !.frees = "onError"]
Unflagged == [RowButton EXCEPT !.sets = FALSE, !.disables = "none"]

(* Web pages with a list.                                                  *)
OrdersPage      == {RowButton}
TeamPage        == {RowButton}
PromoCodesPage  == {RowButton}
BusRoutesPage   == {RowButton}
RetryDelivery   == {RowButton}
EventsPage      == {[RowButton EXCEPT !.clears = TRUE,
                         !.replacedBy = {"server", "answer", "refusal", "read", "list"}]}
AdminButton     == [RowButton EXCEPT !.replacedBy = {"read", "list"}]
AdminPage       == {AdminButton, [AdminButton EXCEPT !.disables = "none"]}
KeysPage        == {Unflagged, [RowButton EXCEPT !.disables = "page"]}
SecurityPage    == {Unflagged, [Unflagged EXCEPT !.after = "stay"]}
PayoutsPage     == {[RowButton EXCEPT !.disables = "page"]}
ResalePage      == {[RowButton EXCEPT !.after = "leave"]}
SharePage       == {[RowButton EXCEPT !.after = "stay"]}

(* Forms.                                                                  *)
ClaimTransfer   == {FormButton}
TransferTicket  == {FormButton}
ResellTicket    == {FormButton}
ForgotPassword  == {FormButton}
ResetPassword   == {FormButton}
MagicLink       == {FormButton}
TopUpWallet     == {[LeavingForm EXCEPT !.checksInside = TRUE]}
PasswordForm    == {LeavingForm, FormButton}    \* the code is asked for in its place
CodeForm        == {LeavingForm}
SignUpForm      == {LeavingForm}
GrantConsent    == {[LeavingForm EXCEPT !.replacedBy = {"server", "answer", "refusal"}]}
CreateOrganizer == {LeavingForm}
CreateEvent     == {[FormButton EXCEPT !.after = "leave"]}
ClaimCollectible == {FormButton}
CloseAccountButton == {[Unflagged EXCEPT !.after = "leave"]}
AppleButton     == LeavingForm
GoogleButton    == [LeavingForm EXCEPT !.disables = "none"]
SocialSignIn    == {AppleButton, GoogleButton}

(* Screens of the app.                                                     *)
AppRefunds      == {[Unflagged EXCEPT !.shows = "last"]}
AppResale       == {[Unflagged EXCEPT !.after = "leave"]}
AppTopUp        == {[Unflagged EXCEPT !.after = "leave"]}
AppPassword     == {FormButton, [FormButton EXCEPT !.after = "leave"]}
AppSignUp       == {[FormButton EXCEPT !.after = "leave"]}
AppKyc          == {FormButton}
AppTransfer     == {FormButton}
AppResell       == {FormButton}

Pages ==
    { OrdersPage, TeamPage, PromoCodesPage, BusRoutesPage, RetryDelivery, EventsPage,
      AdminPage, KeysPage, SecurityPage, PayoutsPage, ResalePage, SharePage, ClaimTransfer,
      TransferTicket, ResellTicket, ForgotPassword, ResetPassword, MagicLink,
      TopUpWallet, PasswordForm, CodeForm, SignUpForm, GrantConsent, CreateOrganizer,
      CreateEvent, ClaimCollectible, CloseAccountButton, SocialSignIn, AppRefunds, AppResale,
      AppTopUp, AppPassword, AppSignUp, AppKyc, AppTransfer, AppResell }

Handlers == UNION Pages

PagesTypeOK ==
    /\ page \in Pages \cup {{}}
    /\ flag \in ActRows \cup {NoRow}
    /\ serverList \in [ActRows -> Nat] /\ shownList \in [ActRows -> Nat]
    /\ latest \in Acts \cup {NoRow}
    /\ finished \subseteq ActRows /\ freedEarly \subseteq ActRows
    /\ replaced \in BOOLEAN /\ stuck \in BOOLEAN
    /\ \A c \in Acts : pc[c] \in {"idle", "server", "answer", "read", "list", "refusal"} \cup Ended

PagesInit ==
    /\ page = {}
    /\ act = [c \in Acts |-> <<>>]
    /\ flag = NoRow
    /\ serverList = [r \in ActRows |-> 0] /\ shownList = [r \in ActRows |-> 0]
    /\ latest = NoRow
    /\ replaced = FALSE /\ stuck = FALSE
    /\ finished = {} /\ freedEarly = {}

-------------------------------------------------------------------------------
UnderWay == Busy \cap Acts

(* Faulty variant: the flag is only shown, and disables nothing.           *)
EnabledAlways(h, r) == TRUE

Enabled(h, r) ==
    CASE h.disables = "row" -> flag # r
      [] h.disables = "page" -> flag = NoRow
      [] h.disables = "none" -> TRUE

IsForm(h) == h.disables = "page" \/ h = GoogleButton

Usable(h, r) ==
    /\ \E P \in Pages : page \in {{}, P} /\ h \in P /\ page' = P
    /\ ~replaced /\ r \notin finished
    /\ IsForm(h) => r = FormRow
    /\ Enabled(h, r)

TrackFreed ==
    freedEarly' = {r \in ActRows :
        /\ r \in freedEarly \/ flag' # r
        /\ \E c \in UnderWay' : act'[c].row = r}

(* Which request a press becomes makes no difference.                      *)
Fresh == CHOOSE c \in Acts : pc[c] = "idle"

Press(h, r) ==
    LET c == Fresh
    IN  /\ \E d \in Acts : pc[d] = "idle"
        /\ Usable(h, r)
        /\ Begin(c, "server")
        /\ act' = [act EXCEPT ![c] = [row |-> r, by |-> h, saw |-> shownList]]
        /\ flag' = IF h.sets THEN r ELSE flag
        /\ TrackFreed
        /\ UNCHANGED <<serverList, shownList, latest, replaced, finished, stuck>>

(* The input is refused by the page itself, after the flag was set: what   *)
(* would have been the request ends before it is sent.                     *)
PressInvalid(h, r) ==
    /\ h.checksInside
    /\ \E c \in Acts : pc[c] = "idle"
    /\ Usable(h, r)
    /\ Begin(Fresh, "refused")
    /\ flag' = r /\ stuck' = TRUE
    /\ UNCHANGED <<act, serverList, shownList, latest, replaced, finished, freedEarly>>

PerformAct(c) ==
    LET r == act[c].row
    IN  /\ pc[c] = "server"
        /\ serverList' = [serverList EXCEPT ![r] = @ + 1]
        /\ act' = [act EXCEPT ![c].saw = serverList']
        /\ Goto(c, "answer")
        /\ UNCHANGED <<page, flag, shownList, latest, replaced, finished, freedEarly, stuck>>

RefuseAct(c) ==
    /\ pc[c] = "server"
    /\ Goto(c, "refusal")
    /\ UNCHANGED pageVars

(* await load(): the list is asked for, read by the API, and shown.        *)
AskForList(c) ==
    /\ pc[c] = "answer" /\ act[c].by.after = "reload"
    /\ latest' = c
    /\ replaced' = (replaced /\ ~act[c].by.clears)
    /\ Goto(c, "read")
    /\ UNCHANGED <<page, act, flag, serverList, shownList, finished, freedEarly, stuck>>

ReadRows(c) ==
    /\ pc[c] = "read"
    /\ act' = [act EXCEPT ![c].saw = serverList]
    /\ Goto(c, "list")
    /\ UNCHANGED <<page, flag, serverList, shownList, latest, replaced, finished, freedEarly, stuck>>

(* What a request was about is forgotten when it ends.                     *)
Forget(c) == act' = [act EXCEPT ![c].row = NoRow, ![c].saw = <<>>]

(* Faulty variant: the flag is not reset when the request fails.           *)
FreesIfDone(h, failed) == h.sets /\ ~failed /\ h.frees = "always"

Frees(h, failed) == h.sets /\ (failed \/ h.frees = "always")

ResetFlag(h, failed) == flag' = IF Frees(h, failed) THEN NoRow ELSE flag

(* Faulty variant: a list is dropped while another request is under way.   *)
IsShownIfAlone(c) == UnderWay = {c}

IsShown(c) == act[c].by.shows = "all" \/ latest = c

ShowRows(c) ==
    /\ pc[c] = "list"
    /\ shownList' = IF IsShown(c) THEN act[c].saw ELSE shownList
    /\ ResetFlag(act[c].by, FALSE)
    /\ Goto(c, "done")
    /\ Forget(c)
    /\ UNCHANGED <<page, serverList, latest, replaced, finished, stuck>>
    /\ TrackFreed

(* A result is shown in place of the button, or the page is left; it can   *)
(* be used until it is gone.                                               *)
Succeed(c) ==
    LET r == act[c].row
    IN  /\ pc[c] = "answer" /\ act[c].by.after \in {"stay", "leave"}
        /\ IF act[c].by.after = "stay"
           THEN /\ shownList' = [shownList EXCEPT ![r] = act[c].saw[r]]
                /\ finished' = finished \cup {r}
           ELSE UNCHANGED <<shownList, finished>>
        /\ ResetFlag(act[c].by, FALSE)
        /\ Goto(c, "done")
        /\ Forget(c)
        /\ UNCHANGED <<page, serverList, latest, replaced, stuck>>
        /\ TrackFreed

(* A refusal, or a request, a list or an answer that is lost.  What load   *)
(* throws it catches itself.                                               *)
FailAct(c) ==
    /\ \/ pc[c] = "refusal" /\ Goto(c, "refused")
       \/ pc[c] \in {"server", "answer", "read", "list"} /\ CutShort(c)
    /\ replaced' = (replaced \/ pc[c] \in act[c].by.replacedBy)
    /\ ResetFlag(act[c].by, TRUE)
    /\ Forget(c)
    /\ UNCHANGED <<page, serverList, shownList, latest, finished, stuck>>
    /\ TrackFreed

PagesNext ==
    \/ \E h \in Handlers, r \in ActRows :
        Press(h, r) \/ PressInvalid(h, r)
    \/ \E c \in Acts :
        \/ PerformAct(c) \/ RefuseAct(c) \/ AskForList(c) \/ ReadRows(c) \/ ShowRows(c)
        \/ Succeed(c) \/ FailAct(c)

-------------------------------------------------------------------------------
(* Two requests for one row, or two of one form, are under way at once     *)
(* only if another button of the page, with the same flag, was pressed or  *)
(* answered in between; a form with one button never sends two, and none   *)
(* that only resets its flag on an error succeeds twice.                   *)
OneActPerRow ==
    /\ \A c, d \in UnderWay :
        LET both == {act[c].by.disables, act[d].by.disables}
        IN  c # d /\ (both = {"page"} \/ (both = {"row"} /\ act[c].row = act[d].row))
                => {act[c].row, act[d].row} \cap freedEarly # {}
    /\ (\A h \in page : h.disables = "page") =>
        /\ freedEarly = {}
        /\ (\A h \in page : h.frees = "onError") =>
              Cardinality({c \in Acts : pc[c] = "done"}) <= 1

(* Once nothing is under way the page shows what the database has, if no   *)
(* request failed and none overlapped another; a screen that only shows    *)
(* its last reload does so even if they overlapped.                        *)
ListIsFresh ==
    /\ UnderWay = {} /\ failures = 0
    /\ \/ ~overlapped /\ \A h \in page : h.after # "leave"
       \/ page = AppRefunds
    => shownList = serverList

(* A button that a flag disables comes back: once nothing is under way the *)
(* flag is reset, unless the page is being left.  The form to top up a     *)
(* wallet alone keeps it, for good, after an amount that is too small.     *)
ButtonsComeBack ==
    UnderWay = {} /\ flag # NoRow =>
        \/ stuck /\ page = TopUpWallet
        \/ \E c \in Acts : pc[c] = "done" /\ act[c].by.after = "leave"

(* All three: buttons act once, come back, and show what they did.         *)
ButtonsKeepUp == OneActPerRow /\ ListIsFresh /\ ButtonsComeBack
================================================================================
