-------------------------------- MODULE Searches --------------------------------
(***************************************************************************)
(* Pages and screens whose list answers what the user asked for: a search  *)
(* field, a form, a filter, a period.  Requests are answered in any order. *)
(* The pages differ in what sends a request, whether a flag holds the next *)
(* one back, which answers are shown, and what a failure leaves.           *)
(***************************************************************************)
EXTENDS Requests

CONSTANTS
    Queries,        \* what may be asked for
    Fetches,        \* requests of the page
    NoQuery         \* the empty query; no list

ASSUME SearchesAssumption ==
    /\ Fetches \subseteq Calls
    /\ NoQuery \notin Queries

VARIABLES
    search,         \* the page in use, NoQuery before one is opened
    query,          \* what the field, form or selection says
    timer,          \* is the timer of the page running?
    asked,          \* asked[c]: the query that request c sends
    latestFetch,    \* the request sent last
    results,        \* the queries whose answer is shown: none or one
    loading,        \* the flag of the page
    broken          \* does the page show an error only?

searchVars == <<search, query, timer, asked, latestFetch, results, loading, broken>>

-------------------------------------------------------------------------------
(* sends: a timer after the last key, a button, or the change itself.      *)
(* flag: what shows the page as loading.  waits: does it disable the       *)
(* button?  clears: is the old list removed?  shows: all answers or that   *)
(* of the last request.  onError: what a failure does to the list.         *)
MarketplaceSearch ==
    [sends |-> "timer", flag |-> "always", waits |-> FALSE, clears |-> FALSE,
     shows |-> "all", onError |-> "empty"]
BusSearch ==
    [sends |-> "button", flag |-> "button", waits |-> TRUE, clears |-> FALSE,
     shows |-> "all", onError |-> "keep"]
AuditLogFilter == [BusSearch EXCEPT !.flag = "none", !.waits = FALSE]
AnalyticsPeriod == [AuditLogFilter EXCEPT !.sends = "change", !.clears = TRUE, !.onError = "page"]
AppEvents == [MarketplaceSearch EXCEPT !.flag = "none", !.shows = "last"]

Searches == {MarketplaceSearch, BusSearch, AuditLogFilter, AnalyticsPeriod, AppEvents}

ASSUME SearchPagesAssumption == NoQuery \notin Searches

SearchesTypeOK ==
    /\ search \in Searches \cup {NoQuery}
    /\ query \in Queries \cup {NoQuery}
    /\ results \in SUBSET (Queries \cup {NoQuery})
    /\ asked \in [Fetches -> Queries \cup {NoQuery}]
    /\ timer \in BOOLEAN /\ loading \in BOOLEAN /\ broken \in BOOLEAN
    /\ \A c \in Fetches : pc[c] \in {"idle", "answer"} \cup Ended

SearchesInit ==
    /\ search = NoQuery /\ query = NoQuery
    /\ timer = FALSE /\ loading = FALSE /\ broken = FALSE
    /\ asked = [c \in Fetches |-> NoQuery]
    /\ latestFetch = NoQuery
    /\ results = {}

(* Which request a search becomes makes no difference.                     *)
FreshFetch == CHOOSE c \in Fetches : pc[c] = "idle"
FetchLeft == \E c \in Fetches : pc[c] = "idle"

SendFetch ==
    /\ FetchLeft
    /\ Begin(FreshFetch, "answer")
    /\ asked' = [asked EXCEPT ![FreshFetch] = query']
    /\ latestFetch' = FreshFetch

(* The page opens and asks for the whole list.                             *)
OpenSearch(s) ==
    /\ search = NoQuery
    /\ search' = s
    /\ query' = NoQuery
    /\ SendFetch
    /\ loading' = (s.flag = "always")
    /\ UNCHANGED <<timer, results, broken>>

(* A key is pressed: the timer starts again.                               *)
TypeQuery ==
    /\ search # NoQuery /\ search.sends = "timer"
    /\ FetchLeft
    /\ \E q \in Queries \ {query} : query' = q
    /\ timer' = TRUE
    /\ loading' = (loading \/ search.flag = "always")
    /\ UNCHANGED <<requestVars, search, asked, latestFetch, results, broken>>

(* The timer fires, the button is pressed, or another period is chosen.    *)
SendQuery ==
    /\ search # NoQuery /\ ~broken
    /\ \/ search.sends = "timer" /\ timer /\ query' = query
       \/ search.sends = "button" /\ ~(search.waits /\ loading) /\ query' \in Queries
       \/ search.sends = "change" /\ query' \in Queries \ {query}
    /\ SendFetch
    /\ timer' = FALSE
    /\ loading' = (loading \/ search.flag = "button")
    /\ results' = IF search.clears THEN {} ELSE results
    /\ UNCHANGED <<search, broken>>

(* Faulty variant: the page keeps the first list it was given.             *)
ResultsOfFirst(c) == IF results = {} THEN {asked[c]} ELSE results

IsShownList(c) == search.shows = "all" \/ c = latestFetch

ResultsOf(c) == IF IsShownList(c) THEN {asked[c]} ELSE results

(* The bus page's first request knows nothing of the flag.                 *)
ResetsLoading(c) == search.flag # "button" \/ asked[c] # NoQuery

ShowResults(c) ==
    /\ pc[c] = "answer"
    /\ results' = ResultsOf(c)
    /\ loading' = (loading /\ ~ResetsLoading(c))
    /\ Goto(c, "done")
    /\ UNCHANGED <<search, query, timer, asked, latestFetch, broken>>

FetchFails(c) ==
    /\ CutShort(c)
    /\ results' = IF search.onError = "empty" /\ IsShownList(c) THEN {} ELSE results
    /\ loading' = (loading /\ ~ResetsLoading(c))
    /\ broken' = (search.onError = "page")
    /\ UNCHANGED <<search, query, timer, asked, latestFetch>>

SearchesNext ==
    \/ \E s \in Searches : OpenSearch(s)
    \/ TypeQuery \/ SendQuery
    \/ \E c \in Fetches : ShowResults(c) \/ FetchFails(c)

-------------------------------------------------------------------------------
(* Once nothing is under way the page does not show itself as loading,     *)
(* whatever failed; and if nothing did, its list answers the query that    *)
(* was sent last, unless an older request was still out when it was sent:  *)
(* the app's list does even then.  The bus page sends one search at a      *)
(* time, besides the list that it opens with.                              *)
SearchShowsQuery ==
    /\ search # NoQuery /\ Busy = {} /\ ~timer =>
        /\ ~loading
        /\ failures = 0 /\ (overlapped => search.shows = "last") =>
              results = {asked[latestFetch]}
    /\ search = BusSearch =>
        Cardinality({c \in Busy \cap Fetches : asked[c] # NoQuery}) <= 1
================================================================================
