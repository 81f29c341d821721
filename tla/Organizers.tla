------------------------------- MODULE Organizers -------------------------------
(***************************************************************************)
(* An organizer and its event, as the organizer's console and the          *)
(* platform's admins change them: AdminService.approve, suspend and        *)
(* setCommission, EventsService.update and publish,                        *)
(* StreamingService.setStream and PayoutsService.setBankDetails.  The      *)
(* console's requests read a row, check it, and write it in a later        *)
(* statement.  EventsService.create takes any two dates, so the event may  *)
(* begin with an end before its start.                                     *)
(***************************************************************************)
EXTENDS Requests

CONSTANTS
    Reviews,        \* admin requests: approve, suspend, set the commission
    Publishes, Edits, Streams, Payouts, \* requests of the console
    Times, FirstDates, \* numbers that stand for dates, and those create took
    Rates, DefaultRate, \* commissions, in basis points
    NoUrl, BlankUrl \* null, and the empty string

ConsoleCalls == Publishes \cup Edits \cup Streams \cup Payouts

ASSUME OrganizersAssumption ==
    /\ Reviews \cup ConsoleCalls \subseteq Calls
    /\ Edits \cap Streams = {} /\ Publishes \cap (Edits \cup Streams) = {}
    /\ Payouts \cap (Publishes \cup Edits \cup Streams) = {}
    /\ Reviews \cap ConsoleCalls = {}
    /\ Times \subseteq Int
    /\ FirstDates \in Times \X Times
    /\ DefaultRate \in Rates
    /\ NoUrl \notin Streams \cup Payouts \cup Rates \cup {BlankUrl}
    /\ BlankUrl \notin Streams

VARIABLES
    approval,       \* Organizer.status
    commission,     \* Organizer.commissionBps
    bank,           \* whose account and subaccount the row names: a request's
    charged,        \* charged[c]: what the subaccount Paystack made for c takes
    event,          \* Event: status, dates, stream
    draft           \* draft[c]: the row that request c is about to write

organizerVars == <<approval, commission, bank, charged, event, draft>>

(* A stream's URL, and an account, is the request that named it.           *)
Events == [published : BOOLEAN, starts : Times, ends : Times,
           url : Streams \cup {NoUrl, BlankUrl}, live : BOOLEAN]

OrganizersTypeOK ==
    /\ approval \in {"PENDING", "APPROVED", "SUSPENDED"}
    /\ commission \in Rates
    /\ bank \in Payouts \cup {NoUrl}
    /\ charged \in [Payouts -> Rates \cup {NoUrl}]
    /\ event \in Events
    /\ draft \in [Edits \cup Streams -> Events]
    /\ \A c \in Reviews \cup ConsoleCalls : pc[c] \in {"idle", "write", "call"} \cup Ended

OrganizersInit ==
    /\ approval = "PENDING"
    /\ commission = DefaultRate
    /\ bank = NoUrl
    /\ charged = [c \in Payouts |-> NoUrl]
    /\ event = [published |-> FALSE, starts |-> FirstDates[1], ends |-> FirstDates[2],
                url |-> NoUrl, live |-> FALSE]
    /\ draft = [c \in Edits \cup Streams |-> event]

-------------------------------------------------------------------------------
(* AdminService: one conditional updateMany each.                          *)
Approve(c) ==
    /\ Begin(c, "done")
    /\ approval \in {"PENDING", "SUSPENDED"}
    /\ approval' = "APPROVED"
    /\ UNCHANGED <<commission, bank, charged, event, draft>>

Suspend(c) ==
    /\ Begin(c, "done")
    /\ approval = "APPROVED"
    /\ approval' = "SUSPENDED"
    /\ UNCHANGED <<commission, bank, charged, event, draft>>

(* A new commission does not reach the subaccount in use.                  *)
SetCommission(c) ==
    /\ Begin(c, "done")
    /\ commission' \in Rates
    /\ UNCHANGED <<approval, bank, charged, event, draft>>

-------------------------------------------------------------------------------
(* Faulty variant: whoever is not suspended may publish.                   *)
MayPublishUnreviewed == approval # "SUSPENDED"

MayPublish == approval = "APPROVED"

(* EventsService.publish: the organizer's status is read ...               *)
AskToPublish(c) ==
    /\ Begin(c, IF MayPublish THEN "write" ELSE "refused")
    /\ UNCHANGED organizerVars

(* ... and the event updated.                                              *)
Publish(c) ==
    /\ pc[c] = "write"
    /\ event' = [event EXCEPT !.published = TRUE]
    /\ Goto(c, "done")
    /\ UNCHANGED <<approval, commission, bank, charged, draft>>

(* EventsService.update: dates that are not given keep the value read.     *)
ReadEventToEdit(c) ==
    \E starts \in Times \cup {event.starts}, ends \in Times \cup {event.ends} :
        /\ Begin(c, IF starts < ends THEN "write" ELSE "refused")
        /\ draft' = [draft EXCEPT ![c] = [event EXCEPT !.starts = starts, !.ends = ends]]
        /\ UNCHANGED <<approval, commission, bank, charged, event>>

(* Faulty variant: the end is taken for granted.                           *)
WriteStartOnly(c) == [event EXCEPT !.starts = draft[c].starts]

(* Both dates are written, whichever was given.                            *)
WriteDates(c) == [event EXCEPT !.starts = draft[c].starts, !.ends = draft[c].ends]

UpdateEvent(c) ==
    /\ pc[c] = "write"
    /\ event' = WriteDates(c)
    /\ Goto(c, "done")
    /\ UNCHANGED <<approval, commission, bank, charged, draft>>

(* Faulty variant: a stream goes live without a look at its URL.           *)
MayGoLiveAlways(url) == TRUE

MayGoLive(url) == url \notin {NoUrl, BlankUrl}

(* setStream: a URL or a flag that is left out keeps the value read, and   *)
(* only a request that switches the stream on looks at the URL.            *)
ReadEventToStream(c) ==
    \E url \in {c, BlankUrl, event.url}, live \in {"on", "off", "keep"} :
        /\ Begin(c, IF live = "on" /\ ~MayGoLive(url) THEN "refused" ELSE "write")
        /\ draft' = [draft EXCEPT ![c] =
                        [event EXCEPT !.url = url,
                                      !.live = (live = "on" \/ (live = "keep" /\ event.live))]]
        /\ UNCHANGED <<approval, commission, bank, charged, event>>

SetStream(c) ==
    /\ pc[c] = "write"
    /\ event' = [event EXCEPT !.url = draft[c].url, !.live = draft[c].live]
    /\ Goto(c, "done")
    /\ UNCHANGED <<approval, commission, bank, charged, draft>>

-------------------------------------------------------------------------------
(* Faulty variant: every subaccount is made with the default commission.   *)
RateOfDefault == DefaultRate

RateInForce == commission

(* setBankDetails: the organizer is read, and paystack.createSubaccount    *)
(* called with its commission, ...                                         *)
CreateSubaccount(c) ==
    /\ Begin(c, "write")
    /\ charged' = [charged EXCEPT ![c] = RateInForce]
    /\ UNCHANGED <<approval, commission, bank, event, draft>>

(* ... and the account and its subaccount are stored in one update.        *)
StoreBankDetails(c) ==
    /\ pc[c] = "write"
    /\ bank' = c
    /\ Goto(c, "done")
    /\ UNCHANGED <<approval, commission, charged, event, draft>>

ConsoleCutShort(c) == CutShort(c) /\ UNCHANGED organizerVars

OrganizersNext ==
    \/ \E c \in Reviews : Approve(c) \/ Suspend(c) \/ SetCommission(c)
    \/ \E c \in Publishes : AskToPublish(c) \/ Publish(c)
    \/ \E c \in Edits : ReadEventToEdit(c) \/ UpdateEvent(c)
    \/ \E c \in Streams : ReadEventToStream(c) \/ SetStream(c)
    \/ \E c \in Payouts : CreateSubaccount(c) \/ StoreBankDetails(c)
    \/ \E c \in ConsoleCalls : ConsoleCutShort(c)

-------------------------------------------------------------------------------
(* However the console's requests interleave, one that changes the dates   *)
(* leaves an event that ends after it starts: every update writes the two  *)
(* dates that it compared.  Only the dates that create took may not fit.   *)
DatesStayFit ==
    [][<<event'.starts, event'.ends>> # <<event.starts, event.ends>>
        => event'.starts < event'.ends]_organizerVars

(* Bank details put in use are those of a subaccount that takes the        *)
(* commission on show, unless it was changed while they were being stored. *)
TermsAsShown ==
    [][bank' # bank /\ ~overlapped => charged[bank'] = commission]_organizerVars

(* A stream is live only once it was given a URL, if only to be blanked by *)
(* a request that does not touch the flag: even a late request writes back *)
(* the URL and the flag that it read together.                             *)
LiveHasUrl == event.live => event.url # NoUrl

(* An event goes on sale only while its organizer is approved, unless the  *)
(* organizer is suspended while the request is under way.                  *)
PublishedWhenApproved ==
    [][event'.published /\ ~event.published /\ ~overlapped
        => approval = "APPROVED"]_organizerVars

(* All four: what is on show at the organizer's fits together.             *)
ConsoleHolds ==
    /\ DatesStayFit
    /\ TermsAsShown
    /\ [][LiveHasUrl']_organizerVars
    /\ PublishedWhenApproved
================================================================================
