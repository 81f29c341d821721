# Computicket: a TLA+ model of the API and its clients, with proofs

Computicket sells tickets (events, buses, hotels, flights) through a NestJS API
over one PostgreSQL database, with Paystack as the payment gateway. This
directory holds TLA+ modules for the parts of the API in which requests,
webhooks and cron runs meet over the same rows, and for the parts of the web
application and the mobile app in which answers, tabs and restarts meet; TLC
configurations that check them on small instances; and TLAPS proofs of their main
invariants for instances of any size. `PROJECT.json` is the index: components, runs, which definition
stands for which lines of the source, hazards, findings and theorems.

Paths such as `orders/orders.service.ts:267` are below `apps/api/src/` unless they
start with another directory of the repository.

## 1. The system

### 1.1 Parts, state and operations

| Part | State (tables) | Operations | Meets |
|---|---|---|---|
| Checkout (`orders`, `tickets`, `seating`) | `Order.status`, `OrderItem`, `TicketType.held/sold`, `Seat`, `Ticket` | `create` by Paystack, wallet or corporate account; `issueForOrder`; `issueAndReleaseHolds`; expiry cron | Paystack webhook, refunds, wallet |
| Refunds (`refunds`) | `Refund`, `Order.refundedKobo`, `Order.status` | `refund`, `refund.processed` | wallet, Paystack, stock and seats |
| Ticket ownership (`tickets`, `resale`, `nft`) | `Ticket.ownerUserId/status/nftClaimedWallet`, `TicketTransfer`, `TicketListing` | share, claim, withdraw; list, cancel, buy; bind collectible; scan | wallet, final refund |
| Money (`wallet`, `vouchers`) | `User.walletBalanceKobo`, `WalletTransaction`, `WalletTopUp`, `Voucher`, `VoucherBatch` | credit, debit, initiate and finalise top-up, redeem | Paystack webhook, checkout |
| Rewards (`webhooks`, `loyalty`, `agents`) | `Referral`, `User.loyaltyPoints`, `Order.loyaltyPointsEarned` | what `charge.success` awaits after issuance | wallet |
| Outbound webhooks (`developers`) | `WebhookEndpoint`, `WebhookDelivery` | dispatch, attempt, retry cron, manual retry, remove endpoint | organizers' servers |
| Extras of an order (`promo-codes`, `add-ons`, `loyalty`, `corporate`, `pricing`) | `PromoCode.usesCount`, `AddOn.sold`, loyalty balance, corporate credit | claimed inside `create`; deactivate a code, settle an account | checkout |
| Lodging (`lodging`) | `HotelBooking`, `FlightBooking`, `Flight.sold` | book, finalise by reference | Paystack |
| Seat maps (`seating`) | `Seat`, `TicketType.seatMap` | `setSeatMap` | checkout |
| Broadcasts and reports (`marketing`, `dashboard`) | `Broadcast.sentCount`; reads of `Order` and `Ticket` | send; the figures of organizer, event, affiliate and platform | checkout, refunds, mail |
| Team (`team`, `privacy`) | `OrganizerMember` | invite, change a role, remove, delete an account | |
| Accounts (`auth`, `security`, `privacy`) | `User`, `Session`, `SocialAccount`, one-time tokens, sign-in counter | sign up, sign in, social sign-in, 2FA, verify, reset, magic link, close | mail, rewards |
| Third parties (`oauth`, `developers`) | `OAuthClient`, codes, access tokens, `ApiKey` | register, grant, exchange, verify, revoke | accounts |
| Console (`admin`, `events`, `streaming`, `payouts`) | `Organizer.status`, `Event`, bank details | approve, suspend, publish, edit, stream, set bank details | Paystack |
| Notifications (`push`) | `DeviceToken` | register, rotate, remove | phone, browser |
| Web application (`apps/web`) | the browser's storage; per page its lists, flags and forms | order form, seat picker, searches, scanner, buttons of every page, the dashboard's layout | all of the API |
| Mobile app (`apps/mobile`) | preferences of the phone, FCM token; per screen the same | the same, and sign-in kept over restarts | all of the API |
| Site (`apps/api/src/**/*.controller.ts`, `apps/web/src/app`, `apps/mobile/lib/screens`) | where a visitor is, his session, the place he left to sign in, the calls under way | open a page, load it, follow a link, send a form, sign out | every controller |
| Everything else | support chat, audit log, health, white label, mail and SMS of single notices, infrastructure | reads, single-row settings, notifications | |

The parts interact by awaited service calls in one Node.js process, by rows of
the shared database (several replicas may run), by Paystack's HTTP API and its
webhooks, and by crons that fire every minute in every replica.

### 1.2 What makes it hard

* Between two awaits of one request any other request, webhook or cron run may
  run. The code's defence is the conditional UPDATE (`WHERE status = 'PENDING'`,
  `WHERE balance >= ...`), which claims a row once; wherever a decision is taken
  from an earlier read instead, a race is possible.
- A process may die between two awaits, and a statement may throw. Nothing
  resumes a request; only the two crons pick work up again.
- Paystack repeats `charge.success`, sends it late or never, answers a refund
  `pending`, and may take a refund on although the answer is lost.
- Every hold has a deadline (fifteen minutes), and handlers that write without
  looking rely on being faster than it.
- A page sends requests whose answers come late, in another order or never, while
  it is used on; it reads the token again when a button is pressed, and another tab
  may have changed it. The app writes what it knows in several steps and may be
  killed between them.

### 1.3 What makes each part correct

* Checkout: the counters are exactly what the orders add up to; nothing is sold
  twice; an order settles once; a seat has one ticket; every hold ends.
* Refunds: the books never exceed what was paid; status, stock and tickets change
  together; money and books agree.
* Ownership: a ticket moves only by a claimed transfer or a sold listing, each used
  once; a purchase is all or nothing; links, listings and the collectible follow
  the holder.
* Money and rewards: the ledger explains every balance; nothing is credited twice
  or without a claim; a race's loser leaves nothing undone.
* Outbound webhooks: the log tells the truth; every row is settled.
* Extras: limits of codes, points and credit are kept, and what was taken belongs to
  an order; prices add up. Lodging: a flight is not oversold, a paid booking keeps its PNR.
* Reports: figures differ by no more than the orders that moved between them. Broadcasts: one mail for each buyer.
* Accounts: a token works once, no session outlives a reset or a deletion, the second
  factor is asked for; an organizer always has an owner; one identity leads to one user;
  whoever was revoked is served no more.
* Clients: a ticket gets one person in; what the page says is what is charged; one press
  is one request; lists and results are the latest; buttons come back; a page acts for the
  user it shows; notifications go to whoever is signed in.
* Site: every link reaches a page; every call meets the route it was written for, which
  takes what it sends and lets its caller through; whoever is sent to sign in, and signs in there,
  comes back.

## 2. The modules

| Module | Models | Extends / instantiates |
|---|---|---|
| `Carts` | ticket types, capacities, carts, the demand of a set of orders | |
| `Inventory` | abstract: an order reserves, sells or releases a cart within capacity | `Carts` |
| `Checkout` | orders, counters, seats, webhook, expiry cron, final refund | `Carts`; `INSTANCE Inventory WITH claim <- Claim` |
| `Refunds` | refund requests for one order, wallet and gateway | |
| `TicketOwnership` | one ticket: transfers, resale, collectible, gate | |
| `Ledger` | wallets and their rows | |
| `Funding` | top-ups, vouchers, purchases | `Ledger` |
| `Rewards` | referral, points, commission of paid orders | `Ledger` |
| `Money` | Funding and Rewards over one ledger | `Funding`, `Rewards` |
| `WebhookDelivery` | outbound deliveries and the retry cron | |
| `Requests` | calls, awaits, failures; what calls may overlap; base of the parts of `Commerce` and `Accounts` | |
| `OrderExtras` | add-ons, promo code, points and corporate credit of an order | `Requests` |
| `Pricing` | the price of an order as an expression of its inputs | `Requests` |
| `SeatMaps` | edits of a seat map against buyers of its seats | `Requests` |
| `Bookings` | hotel and flight bookings with repeated webhooks | `Requests` |
| `Mailings` | a broadcast while orders are paid and refunded | `Requests` |
| `Reports` | the queries of five reports over a table of orders that goes on changing | `Requests` |
| `BuyForms` | the order form of the web and the order screen of the app | `Pricing` |
| `Searches` | five pages that search, filter or choose a period | `Requests` |
| `Routes` | the API's routes in the order of registration, their guards and bodies; dispatch | |
| `Sitemap` | each page and screen: its gate, its links, the parameters it reads, its calls | `Routes` |
| `Site` | a visit to the pages | `Requests`, `Sitemap` |
| `Commerce` | these parts under one next-state relation | the nine parts from `OrderExtras` to `Site` |
| `Team` | members and owners of an organizer | `Requests` |
| `Sessions` | one account: sign-in, lockout, 2FA, one-time tokens, closing | `Requests` |
| `SignUps` | how an account comes to be: password, referral, Google, Apple | `Requests` |
| `Organizers` | approval, commission, publication, dates, stream, bank details | `Requests` |
| `Devices` | whose notifications reach a shared phone, and the push toggle of a shared browser in two tabs | `Requests` |
| `Screens` | scanners at the door, web and app, and `TicketsService.scan` | `Requests` |
| `Pages` | the buttons of 36 pages and screens | `Requests` |
| `Partners` | OAuth clients, grants, access tokens, API keys | `Requests` |
| `Browser` | token in the storage, 22 pages that show a user's data, header, layout | `Requests` |
| `Identity` | token, e-mail and name in the app's preferences | `Requests` |
| `Accounts` | these parts under one next-state relation | the ten parts from `Team` to `Identity` |
| `CommerceProofs`, `AccountsProofs`, `CheckoutProofs`, `RefundsProofs`, `OwnershipProofs`, `MoneyProofs`, `DeliveryProofs` | theorems | their module, `TLAPS` |
| `MC*` | instances for TLC: constants and symmetry; `Refunds`, `TicketOwnership` and `WebhookDelivery` need none and are run as they are | their module |

### 2.1 Conventions

* One action per await: a database transaction, an HTTP call or a statement
  outside a transaction is one step, and `pc` (in `Rewards`, `stage`) says which
  one a call is at. A transaction is a single action where it claims its row with
  a conditional UPDATE or only increments and inserts; where it reads first and
  writes later (sharing a ticket), it is two.
* A request that its first checks refuse changes nothing and is left out. So is a
  transaction that rolls back.
* `CutShort`, `AbandonSweep`, `NoticeCutShort`, `AnswerLost`, `...Throws`: a process
  dies or a statement throws. Their number is bounded by `MaxCrashes` or
  `MaxFailures` and counted in `crashes` or `failures`.
* `overlapped` is a history variable: it turns true when two calls were under way
  at once, or holds the rows two callers held at once. Properties that hold only
  for calls that take turns say so with it. `failures` is used likewise.
* `Commerce` and `Accounts` compose parts that touch no row in common and meet only in
  the API that serves them. `Groups` are the sets of calls that work on the same rows;
  the calls of one execution come from one group, since a step of one part commutes
  with every step of another and no property speaks of two parts. Each disjunct of
  `Next` is the step of one part (`Only` keeps the calls apart).
* `Undisturbed` says that no call overlapped another and none failed. A property that
  needs it says so by name: the exception is part of what it claims.
* Where calls differ in nothing but their name, the next one to begin is chosen by
  `CHOOSE` (`Fresh`, `FreshCall`, `NextOf`), which leaves out renamed copies only.
* Amounts are small numbers, names and tokens are model values, and times are "the
  deadline has passed" (`overdue`, `due`).
* Definitions marked "Faulty variant" are not part of any specification. Each is a
  plausible bug of the definition below it, and shows which property would catch it.

### 2.2 Correspondence with the code

**Checkout.** `CreateOrder` is the transaction of `OrdersService.create` (event and
ticket types, atomic hold, order row, seats). Then, by channel: `InitializePayment`;
`ChargeAccount`/`RejectCharge`/`RefuseDebit`, `ReleaseRefused`; `MarkPaid`,
`IssueAndReleaseHolds`. `ChargeSuccess` is one delivery of Paystack's webhook up to
`issueForOrder`; `StartSweep` and `ExpireCandidate` are `OrderExpiryService`;
`FinaliseRefund` is the last transaction of a full refund. `Lapse` is time. Promo
codes, add-ons and points, taken by the same transaction, are in `OrderExtras`.

**Refunds.** `Begin` reads the order and inserts the row; the wallet branch is
`CreditWallet`, `RecordCredit`; the gateway branch `GatewayAccepts`,
`GatewayDeclines` or `AnswerLost`, then `RecordAccepted`, `RecordDeclined`; the catch
is `RecordFailure`; `Commit` claims the amount and settles the order. `GatewaySettles`
and `RefundProcessed` are Paystack's asynchronous half.

**TicketOwnership.** `Share`, `ShareSweep`, `ShareCommit`; `Claim`, `ClaimCommit`;
`Withdraw`, `WithdrawCommit`; `Offer`, `OfferLook`, `OfferCreate`; `CancelListing`;
`Buy`, `Debit`, `Take`, `PaySeller`, `Undo`; `Collect`, `CollectBind`; `Scan`;
`VoidTicket`. The ticket is one of a signed-in buyer, since a guest's ticket can
only be scanned or voided.

**Money.** `Credit` and `Debit` are the two transactions of `WalletService`.
`InitiateTopUp`, `ReadTopUp`, `ClaimTopUp`, `CreditTopUp`; `ReadVoucher`,
`ClaimVoucher`, `CountVoucher`, `CreditVoucher`; `Purchase`. A voucher that expired
or a charge for another amount ends a call without effect. `Rewards` follows
`handleChargeSuccess` after issuance for a buyer who signed up with a referral code;
orders paid from a wallet or a corporate account are never rewarded by the code and
do not appear.

**WebhookDelivery.** `Enqueue`, `PostNow` are `dispatch`; `Sweep`, `PostFromBatch`,
`SweepEnds` the cron; `Retry` the organizer's button; `Answer`, `RecordOk`,
`RecordFailed`, `GiveUp`, `Reschedule` the awaits of `attempt`; `Remove` deletes the
endpoint and `UpdateThrows` is what that does to an attempt in flight.

**OrderExtras.** `ReadEvent`, `TakeAddOns`/`AddOnsSoldOut`, `FindPromo`, `ClaimPromo`,
`Commit`/`Rollback` are the awaits of the transaction in `OrdersService.create`; the
promo code is claimed by another connection and stays claimed when the transaction
rolls back, for points that are missing or asked for without a sign-in, or for a seat. A
basket names its add-on on one line or on several; the code compares line by line with what it
read before, so the model keeps the largest line (`line`) apart from all units (`addOns`). `AssertCanCharge`, `ChargeAccount` pay by the corporate account, `PayOrder`
and `ExpireOrder` stand for Checkout, `RetirePromo` and `SettleAccount` for the organizer.

**Pricing.** `Quote` evaluates every formula of `create` (dynamic price, discount, points,
fee, commission, rounding as `Math.round` does it) for one row of a grid of inputs.

**SeatMaps.** `DeleteSeats`, `CreateSeats` are the two statements of `setSeatMap`,
preceded by its look at the seats; at READ COMMITTED a buyer's update waits for a row
that is being deleted (`Locked`). `ChooseSeat`, `HoldSeat`, `SellSeats`, `ReleaseSeats`,
`VoidSeats` are a buyer's order.

**Bookings.** `ReadFlight`, `ClaimFlightSeat`, `InsertFlightBooking`,
`InitializePayment`, and `CreateHotelBooking`; `PayBooking` is the gateway,
`FinaliseBooking` a delivery of its webhook.

**Mailings.** `ReadRecipients`, `CreateBroadcast`, `MailOne` for each recipient,
`StoreCount`; `SaleMoves` pays and refunds orders meanwhile.

**Reports.** `forOrganizer` is five queries: `AskReport` sends two at once
(`AnswerTotals`), and the chart, the hours and the best events follow one after the other
(`AnswerQuery`). `ReadFigure` is `organizerOverview`, `AffiliateService.list`,
`AgentsService.list` or `platformStats`. Each query is answered from the table as it is at
that moment; `OrderPaid`, `TicketsIssued`, `OrderRefunded` and `HourPasses` go on meanwhile.
An order has an affiliate's code, an agent's, both or neither. (`With` and `SumOf` are the WHERE
and SUM of the queries; a sum is the number of its units.) The database session runs
in UTC, so that a day is the same in SQL and in JavaScript.

**BuyForms.** `OpenPage`, `Bump`, `ToggleWallet`, `TypePromo`, `TypeEmail` and
`PressButton`/`Swipe`/`Misswipe` are what a buyer does; `AcceptOrder`/`RefuseOrder`
the API, with `Pricing`'s formulas; `LeavePage`, `ShowError`, `Reset` what follows.
`OpenScreen`, `SelectTier`, `SeatListEnds`, `ToggleSeat`, `StepCount`, `Buy`,
`AnswerApp`, `EndBuy` are the screen of the app.

**Searches.** A page is a record of what sends a request (a timer, a button, a change),
whether a flag holds the next one back, which answers are shown and what a failure
leaves; `TypeQuery`, `SendQuery`, `ShowResults`, `FetchFails` are one for all.

**Team.** `AssertOwner`, then `FindInvitee`, `CreateMember`; `FindMember`, `UpdateRole`;
`FindMember`, `CountOwners`, `DeleteMember`. `AskToLeave`, `Leave` are `deleteAccount`'s
check and transaction.

**Sessions.** `ReadAccount`, `WrongPassword`/`RightPassword`, `SecondRequest`,
`RightCode`/`WrongCode`, `ClearLockout`, `OpenSession` are a sign-in. `IssueToken`,
`ReadToken`, `BurnToken` are common to verification, reset, magic link and
authorization code; `WriteUser`, `SpoilResets`, `RevokeSessions` go on with a reset,
`GrantAccess` with a code, `ReadAccountOfLink` with a link. `SetupTotp`,
`ProvisionSecret`; `EnableTotp`, `WriteEnabled`; `DisableTotp`, `WriteDisabled`;
`LogOut`; `AskToClose`, `CloseAccount`. A call keeps the row that it read in `seen`.

**SignUps.** `ReadExisting`, `WriteAccount`, `RecordReferral`, `AnswerSignUp`;
`FindIdentity`, `FindByEmail`, `LinkIdentity` (a user's creation and the link to the
identity are one insert, refused by the unique index).

**Organizers.** `Approve`, `Suspend`, `SetCommission`; `AskToPublish`, `Publish`; `ReadEventToEdit`,
`UpdateEvent`; `ReadEventToStream`, `SetStream`; `CreateSubaccount`, `StoreBankDetails`.
The event begins with the dates that `create` took, which it does not compare.

**Devices.** `SignIn`, `GetFcmToken`, `RegisterDevice`, `ListenForRefresh`;
`SignOut`, `UnregisterDevice`/`UnregisterFails`, `ClearSession`; `RotateToken`,
`RegisterRefreshed`; `DropStaleDevice` is the API's answer to a dead token. `PressToggle`,
`AnswerPermission`, `Subscribe`, `RegisterBrowser`; `Unsubscribe`, `UnregisterBrowser`;
`ToggleFails`, `ReloadTab`, `SwitchUser`, `DropBrowser`.

**Screens.** `DetectCode` is a scanner; `ReadTicket` and `ScanTicket` are the two halves of
the transaction in `TicketsService.scan`, the second with the membership check, the voided branch and
the conditional `updateMany` (`FirstScan`); `ShowOutcome`, `ScanLost` the screen. `VoidTicket`
(a refund) and `LosesRole` (the team) come in between. The same code is ignored for two to three
seconds, which may be over at any time. The web page's banner goes away after 3.5 seconds
and is left out: `shown` is the first line of its list Recent scans, and the panel of the app.

**Pages.** A button is a record: is a flag set, which buttons does it disable, when is it
reset, what follows a success (the list is read again, another page, a result), which
lists are shown and which failures replace the page. `Press`, `PressInvalid`; `PerformAct`,
`RefuseAct` and `ReadRows` are the API; `AskForList`, `ShowRows`, `Succeed`, `FailAct` the
page; `Forget` drops what a finished request knew.

**Partners.** `Register`, `CreateClient`; `AskToRevoke`, `RevokeClient`; `Grant`,
`ReadClientToGrant`, `IssueCode`; `Exchange`, `ReadClientToExchange`, `ReadCode`,
`BurnCode`, `IssueUserToken`; `AskToken`, `ReadClientToIssue`, `IssueClientToken`;
`CallWithToken`, `VerifyToken`; `AskForKey`, `CreateKey`, `AskToRevokeKey`, `RevokeKey`;
`CallWithKey`, `ResolveKey`, `TouchKey`; `Expire` and `MinutePasses` are time.

**Browser.** `OpenWindow` loads the site. `ChangeElsewhere` and `ChangeHere` sign in or
out in another tab and in this one; `HearStorage` is the header's `storage` listener.
A page is a record of whether it loads a user's data, keeps the token it opened with, and
what its buttons do: `ShowPage`, `ShowData`, `TurnAway`, `PressOnPage`, `ActDone`,
`ActRefused`, `PageCallFails`. `Follow`, `CheckOk`, `CheckFails` are the effect of the
dashboard's layout.

**Identity.** `LogIn`, `PutToken`, `PutEmail`, `PutName`, `Remember` are `_persist`;
`LogOff`, `DeviceForgotten` sign out; `Relaunch` is the app killed and started again,
with `hydrate`.

**Routes, Sitemap and Site.** A controller is a sequence of routes in the order in which
its methods are declared, which is the order in which Express tries them; `ApiRoutes` joins
them in the order of `AppModule`. A route has a path, a guard (none, a user's token, a
member of the organizer, an admin, or a guard that lets anybody through), the
fields its body must and may have, and what it answers with. `Dispatch` is the first route
that matches and `Accepts` the global `ValidationPipe`, which refuses fields it does not
know. A page of `Sitemap` is a record: its gate (who is turned away and whether its query
goes along), the parameters it reads and wants, its links, the calls it makes when it opens
and those its visitor may have it make, where it moves on to, what a failed load leaves.
The layout and the text of a page are left out. `OpenSite`, `TurnAway`, `Load`, `Loaded`,
`LoadFails`, `Follow`, `Send`, `Answered`, `SendFails`, `SignOut`, `SessionEnds` are a visit;
they are the same for all pages, and the record says what differs.
`headed` is the place that a visitor left to sign in. He keeps it on every page where one gets a
session (`SignInWays`), until he is there again or leaves them; `detour` says that he has
left the one form that was told of it.

## 3. The runs

Each passing run ends with no error; each of the others with a violation of its one property. `CHECK_DEADLOCK FALSE` is set everywhere since
every instance is finite and may come to rest with all calls answered.

| Run | Module, instance | Properties and what they say |
|---|---|---|
| `CheckoutRaces` | `MCCheckout`: 3 orders, 1 type with 2 tickets, 3 ways of paying, 2 sweeps, 1 crash | `IInv` (types, exact counters, what each await knows), `ValidTicketsFit`, `SettledOnce` |
| `CheckoutResolves` | 2 orders over a seated and an unseated type, 2 sweeps, 1 crash, fairness | `SeatsFollowTickets`; `ImplementsInventory`; `OrdersEnd`: every PENDING order is settled; what is set aside is sold or given back |
| `CheckoutOversell` | 2 orders, wallet | violation: section 6 |
| `RefundsRaces` | `Refunds`: 3 requests, total 3, 1 failure | `IInv` (books whole, reads are old), `BooksFollowMoney` (books were sent, no over-refund in turn, a full refund is final), `RefundsAdvance` |
| `RefundsOverPay` | 2 requests | violation: section 6 |
| `OwnershipRaces` | `TicketOwnership`: 2 users; 2 shares, 2 offers, 2 purchases, a claim, a withdrawal, a binding; 2 at once, 1 failure | `IInv`, `GrantsUsedOnce`, `RacesAreAllOrNothing`; in turn `InTurn`, `TurnsKeepOrder` (one open link, one listing by the holder, used tickets stay used) |
| `ResaleNotAtomic` | 1 listing, 1 buyer, 1 failure | violation: section 6 |
| `Money` | 2 users; a top-up and a voucher with 2 calls each, a purchase, 2 orders with 2 deliveries each; 2 at once, 1 failure | `IInv` (ledger exact, nothing credited twice or unclaimed); `MoneySettles` (funding settles, rewards are earned and settle) |
| `Webhooks` | `WebhookDelivery`: 1 row, 2 sweeps, 1 manual retry, 2 attempts at most, 1 failure, fairness | `IInv` (honest log), `SettledInTurn` (once and final for rows held by one caller), `RowsResolve` |
| `Commerce` | 3 at once, 1 failure; by part: 3 orders with 6 baskets for 1 code, 2 add-ons (one basket asks for 3 on two lines), 2 points, credit 3; a grid of 3456 prices; 2 edits of 2 seats and 2 buyers; 3 passengers for 2 seats, a guest, 3 deliveries; a broadcast for 3 orders of 2 buyers; a report of five queries and 2 other figures over a book of 1 or 2 orders, one of them paid in between; one visit of each order form with 2 orders; 3 requests of each search page; one visit that starts on any page | `SoldAsCounted` (types; codes, points, add-ons, credit), `PricesHold`, `MapKept`, `BookingsHold`, `BroadcastCounts`, `ReportsAgree`, `OrderAsAnnounced` (what a form announces is charged, once), `SearchShowsQuery`, `SiteHolds` |
| `SignInDetour` | the visit of `Commerce` alone | violation: section 6 |
| `Accounts` | 2 at once, 1 failure; by part: 3 people and 3 changes of the team; 3 sign-ins, 5 tokens, 2 uses, 2FA and closing of an account; 2 sign-ups and 2 social sign-ins; 2 reviews and 6 requests of the console, on an event created with its end before its start; 2 users of a phone, 2 of a browser in 2 tabs with 4 toggles; 2 scanners, a ticket and a code of none, 3 scans, a refund, 2 roles lost; 36 pages with 3 acts on 2 rows; 2 clients, 1 grant, 2 exchanges, 2 calls, 1 key with 3 calls; 22 pages with 2 requests, 2 paths; 2 sign-ins and 2 sign-outs of the app | `OwnersKept`, `TokensUsedOnce`, `AccountKept` (types; sessions, lockout, second factor), `OneUserPerIdentity`, `ConsoleHolds`, `PushFollowsUser`, `AdmittedOnce`, `ScreenShowsLast`, `ButtonsKeepUp`, `RevokedServesNobody`, `GrantsShow`, `ClientsKnowUser`, but for the cases each property names |

A property with several parts is a conjunction of named ones (`OrdersEnd` is
`PendingResolves` and `HoldsEnd`), which the rest of this file refers to. Type correctness is a
conjunct of each `IInv`, of `SoldAsCounted` and of `AccountKept`.

### 3.1 Why these bounds

The hazards need few actors. An oversell needs one order too many: three orders of
up to two tickets compete for two. A double release needs two parties that saw the
same order PENDING: the sweeps, the webhook and the wallet handler are all there. A
mixed cart needs one seated and one unseated type, so that holding one and failing the
other can happen. Over-refunds need two overlapping partials whose sum exceeds the
total, and a third to follow a failed one. The bound on calls under way (`MaxAtOnce`)
is two in the ownership and money runs, because races here are between two calls that
read the same row; calls that follow one another are not bounded by it. `MaxAttempts`
is 2 rather than 6, so that "one more attempt" and "the last attempt" both occur;
`MaxFailures`/`MaxCrashes` are 1: after one failure every other call still goes on. The
safety theorems of section 4 hold without any of these bounds.

In `Commerce` three calls may be under way, so that three passengers race for two seats
and a third order meets two that have read the same counters. In `Accounts` two are enough, since each race is
between the read and the write of one call and one write of another; the calls before
and after are not bounded by it, and the groups of `MCAccounts` put beside each other
the calls that work on the same rows. `LockAfter` is 2 for 5, so that one wrong password
and the last one both occur; `MaxTickets` is 2 for 10; four toggles let
one tab replace a subscription that another still knows and then use it; the user of the browser
changes once; a page has two rows and three acts, one more than the two that race; a page
of `Browser` sends two requests, the load and an act or two loads. The grid of prices
has a rule on each side of every threshold, halves of a kobo, adjustments below -100 %
and discounts above the subtotal; a book of two orders is enough because every figure is
a sum over single orders, and a second order, paid between two queries, shows what one must not
change. The books have an order with both codes and with either, of the organizer and of another,
from before and from inside the window; `LastHour` leaves one hour after the first report is asked
for, in which an order can be paid, and `TicketCounts` gives an order two tickets. All calls of a part are tried in every order.

One visit is enough for `SiteHolds`, because no page looks at another visitor. It starts on any
page, with all of the parameters it reads or none, with any session, and may follow any
link for as long as it likes, so that every page is reached by address and by link. The names
that organizers choose are each literal word of a route's path, since only these can
lead a call astray, and one that is none.

### 3.2 Fairness

* `CheckoutResolves`: weak fairness of a request's own steps (an await returns),
  of `Lapse` (time passes), and of the sweep (`@Cron(EVERY_MINUTE)`) and each of its
  candidates. Not of the buyer or of Paystack: `PendingResolves` needs neither.
* `Webhooks`: weak fairness of each attempt's steps (the post has a five-second
  timeout), of the sweep (every minute) and of `FallDue` (time passes). Not of manual
  retries, new rows or removals.

Crashes are limited in number but not prevented, and `PendingResolves` and
`RowsResolve` hold with them. `HoldsEnd` excuses executions with a crash: a crash
after `MarkPaid` leaves a PAID order without tickets for good.

## 4. What is proved

All proofs are checked by TLAPS for every value of the constants that satisfies the
named assumptions: any number of orders, users, rows, requests, sweeps and failures. Every
invariant and every action property that a run checks is stated by a theorem; what stays with TLC
is in section 5. The argument is the same each time. The property alone is seldom inductive:
it forgets what a request that is under way has read or claimed. The inductive invariant adds,
for each step a request may be at, what it knows there. For the first five components that invariant is
`IInv` of the module, which a run checks too; the parts of `Commerce` and `Accounts` have
one each, in the proof module.

Assumptions say of the constants what any deployment gives them: sets of names are disjoint
where two kinds of call or row are, a name for "nothing" is none of them, finitely many
rows, amounts and limits that are natural numbers. Three say more, and a fourth is a hypothesis:

* `OnTime`, a hypothesis of the theorems on checkout (but type correctness) and not an assumption of the module: either
  requests end before their order lapses, or orders are paid at Paystack only. Without it the code double-releases
  (section 6).
* `AsksAssumption` (prices): a percentage promo is 1 to 10000 basis points and a fixed one is positive, as
  `promo-codes.service.ts` demands; an agent's share is at most the whole (`agents.service.ts`
  allows 3000). Rules, adjustments and quantities are arbitrary.
* `BooksAssumption` (reports): the table is finite and not empty, and its amounts are natural numbers.
  Codes, events, times and states are arbitrary and independent of each other.
* `SitemapAssumption` (site): of each page, that its links lead to pages, its sign-in back to it, and its
  calls to the routes they are meant for, past their guards. It speaks of the tables of `Routes` and
  `Sitemap` only, has no variable, and TLC evaluates it on the tables in each run of `Commerce`. What is left to prove is
  that whatever a visitor does, with a session that ends at any time, stays within that.

No assumption says that an event's first dates fit together, that an order has one code at most,
or that a basket names an add-on once. In `Screens` the staff stay signed in, though they
may lose their role: a scan refused for its token is not modelled.

**Checkout** (`CheckoutProofs`, from `CartsAssumption`, `CheckoutAssumption`). Type
correctness needs nothing else. `CountersExact`, `SeatsFollowTickets`, `ValidTicketsFit`, `SettledOnce` and
`CheckoutImplementsInventory` assume `OnTime`. `CountersExact` is not inductive alone:
nothing in it says that an order about to be released is still PENDING. `IInv` adds
`PhaseOK` (what each step of a request knows of its order's status, tickets and
deadline), `ClaimsWithinCapacity`, and `SeatsFit` (a new order has no seats, sold ones are of
live tickets, and there are as many of either as the cart says). The first lemmas give what the proofs need of
demand: it changes by an order's items when the order enters or leaves the set, and
grows with it. The refinement maps each order to `none`, `reserved`, `sold` or
`released` and shows that every step is a step of `Inventory` or a stutter.

**Refunds** (`RefundsProofs`, from `RefundsAssumption`). `BooksStayWhole`,
`RefundsAdvance` and `BooksFollowMoney`. The strengthening: a request never read more than is
refunded now, so that a final request that wins its claim read the latest amount (`BooksFit`);
the step of a request tells whether its money has left (`StepsTell`); requests that take turns
read what is still true (`ReadsAreFresh`); and the refunded amount is the sum over the requests that
claimed. Sums are cardinalities of sets of units, so that they need no induction.

**Ownership** (`OwnershipProofs`, from `OwnershipAssumption`). `PurchasesSettle`,
`GrantsUsedOnce` and `RacesAreAllOrNothing` hold under every interleaving, from `CallsFit` (rows appear last, targets
exist, a purchase's step tells what it paid, took and gave back) and `TakersPay`
(as long as nothing fails, who took a listing goes on to pay for it). `TurnsKeepOrder` (one open link, one
listing by the holder, used tickets stay used) follows from `ReadsStillHold`: the one
call under way has read what is still so when it writes. `LinksAreOwners`
and `CollectibleFollowsOwner` come from `InTurn`.

**Money** (`MoneyProofs`, from `FundingAssumption`, `RewardsAssumption`). `LedgerExact`,
`OncePerCause`, `CreditsAreClaimed` and `MoneySettles`. Ledger rows are only appended, so the proof
turns on the phases: whoever is entitled to a credit is the only one for its row,
the row is claimed, and the ledger has no entry for it yet. Conversely, what was claimed and
not credited has a call that is about to credit it, or one that failed (`TopUpsUnderWay`,
`VouchersUnderWay`, `PointsUnderWay`, `CommissionsUnderWay`, `ReferralUnderWay`): `MoneySettles`.

**Outbound webhooks** (`DeliveryProofs`, from `DeliveryAssumption`). `LogIsHonest` and
`SettledInTurn`. The count of answers not yet recorded is a cardinality; `OneApart` bounds what one
caller's step can do to it. `CallersAreInStep` and `NewRowsAreClean` complete the
first; `RowsInTurn` says of a row held by one caller at a time how far its holder is.

**Commerce** (`CommerceProofs`, from the assumptions of its parts and
`CommerceAssumption`). A step is the step of one part (`StepsOfParts`) and leaves the rows and
the calls of the others alone; what remains is the part's own Next.

* Extras: `SoldAsCounted` from `ExtrasInv`: the code's uses are the orders that claimed it, points,
  add-ons and credit the sums over those that took them; an order that has the API to itself
  has read what is still so.
* Prices: `PricesHold` from `BillInv`: what was answered is the bill of something that may be
  asked for. The lemmas are arithmetic: rounding, shares, discounts that never exceed what they
  are taken from; and leaving out rules that are not the best changes nothing (`RuleLeftOut`),
  so that their order matters only among equal ones.
* Seat maps: `MapKept` from `SeatInv` (edits take turns; only a pending order holds seats).
  Bookings: `BookingsHold` from `BookingInv`, which counts `flightSold` as the requests
  that were seated, and says that a booking is PAID only if it was charged.
* Broadcasts: `BroadcastCounts` from `MailInv`: who was written to and who is still
  owed a mail are apart and together all that were eligible.
* Reports: `ReportsAgree` from `ReportInv` (each query was answered from a table of the same
  orders), with lemmas on sums: a sum over a table is the sum over the classes of any
  partition of it (`ClassesAddUp`), by a bijection between units, and two tables differ by
  no more than the orders that moved (`SumMoved`, `CountMoved`).
* Order forms: `OrderAsAnnounced` from `WebInv`, `AppInv`: one order in flight at most
  and none after one was accepted, which holds what the form showed.
* Searches: `SearchShowsQuery` from `SearchInv`: the list is the answer to the request sent
  last, or that one is waited for. Site: `SiteHolds` from `SiteInv`: a visitor is at a page
  that exists, by an address it can read, the calls under way are its own and pass, and who is
  headed somewhere and has made no detour is on the form that was told of it (`KnowsItsWay`).

**Accounts** (`AccountsProofs`, from the assumptions of its parts and
`AccountsAssumption`), by the same argument (`OthersAreIdle`):

* Sessions and sign-ups: `AccountKept` from `SessionInv` (a session is of the present password but while a reset
  is about to revoke it; the counter is that of the wrong passwords in a row; the secret that is enrolled was
  shown) and `SignUpInv`; `TokensUsedOnce` from `TokenInv` (a token that is fresh has no winner);
  `OneUserPerIdentity` from `IdentityInv` (a link is written once, to a user that exists).
* Team and console: `OwnersKept` from `TeamInv` (whoever is demoted or removed
  in turn is not the owner who acts); `ConsoleHolds` from `ConsoleInv` (what a request is about
  to write it has compared).
* Third parties: `RevokedServesNobody` from `PartnerInv` (what is revoked stays so, and an access
  token that a slower request gets afterwards is refused, since `verifyToken` looks at the client again);
  `GrantsShow` from `GrantInv` (one exchange at most gets past a code, and asks within its grant) and `KeyInv`.
* Door: `AdmittedOnce` from `AdmissionInv`: one request holds or has shown the answer that
  admits, and whoever is admitted or denied has a ticket that is ISSUED no more, so that a ticket voided
  after the read stays void (`TicketsKept`). `ScreenShowsLast` from `ScreenInv`: a screen waits for the code it
  read last or shows it.
* Pages: `ButtonsKeepUp` from `ButtonInv`: who holds the flag, why it is set, and which reload
  will bring the list up to date. The records of the pages are constants there: the theorem
  holds for any page that a record describes.
* Browser and app: `ClientsKnowUser` from `PageInv`, `GateInv` and `SignInInv`: as whom
  each request was sent, for which path the layout asked, and how much of `_persist`
  is written at each step.
* Notifications: `PushFollowsUser` from `DeviceInv` and `WebInv`: whose row the phone's
  token and the browser's endpoint have at each step of signing in, out and toggling.

Two proofs failed because the model was wrong, and the model was corrected: `IdentityFits`
claimed too much of an app that was killed between two writes and had a sign-out that ended after
the next sign-in (the e-mail may then be that of the user before); and
a page whose load failed could still be `Loaded` without anything it had loaded. One property turned
out stronger than its wording: `LiveHasUrl` holds for overlapping requests too.

## 5. What is only model-checked

* Liveness: `OrdersEnd` (`PendingResolves`, `HoldsEnd`) and `RowsResolve`. The proof system does not
  handle fairness with ENABLED.
* The tables of routes and pages: that each link, call and sign-in of the site is well-formed is
  evaluated by TLC (`SitemapAssumption`); the proof starts from there.
* The four properties of section 6 that the code does not have: TLC shows the counterexamples.

## 6. Where the code and its documentation differ

Four differences have a run whose counterexample shows them:

1. `CheckoutOversell`. The wallet and corporate paths mark an order PAID and issue its
   tickets in a later transaction that does not look at the status. A refund that is
   final in between gives the stock back before it was issued; the tickets issued
   afterwards are live and their places are sold again. The top-level README promises
   "no over-sells".
2. `RefundsOverPay`. The conditional update of `refunds.service.ts:131`, "so concurrent
   partials never over-refund", runs after the money has left.
3. `ResaleNotAtomic`. `resale.service.ts:78` says "All-or-nothing atomic"; if the
   seller's credit throws, the buyer keeps the ticket and gets the money back.
4. `SignInDetour`. `apps/web/src/app/transfer/[token]/page.tsx:178` says "Need an account? You'll be sent to
   sign in or sign up and bounced straight back here". The form is told where to go on to, but its
   link to `/signup` passes no `next` (`apps/web/src/app/signin/page.tsx:158`), nor does the mail
   with the magic link (`auth/magic-link.service.ts:70`): both end on `/account`.

Others were met while modelling. The properties state them as exceptions:

* A charge after the order expired is acknowledged and changes nothing: the buyer has
  paid and has neither tickets nor a refund (`tickets.service.ts:96`).
* A refused debit releases the counters but not the seats: they stay HELD by an
  EXPIRED order (`orders.service.ts:279`; the reason `SeatsFollowTickets` speaks of
  orders in `Holding` only).
* A crash after the order is PAID leaves it without tickets; neither cron looks at PAID
  orders (`HoldsEnd`).
* A wallet or corporate request slower than fifteen minutes meets the sweep and
  releases the hold twice (the reason for `OnTime`).
* Overlapping partial refunds that add up to the total leave the order PAID; a refund
  whose answer was lost is never matched to its row (`FullRefundIsFinal`, `BooksWereSent`).
* Overlapping shares, or a share that commits after a claim, leave a second or a former
  holder's link that works; a sale on the marketplace neither cancels links and other
  listings nor clears the collectible, and does not look at the ticket's status
  (`overlapped` and `Unsold` in the ownership properties).
* A top-up or a voucher whose call dies between the claim and the credit is spent and
  not credited; a reward after a crash or a failing loyalty transaction is lost, since
  a replay finds the order PAID (`failures` in `FundingSettles`, `RewardsSettle`).
* A delivery row is due when it is created, so the cron may post it beside the first
  attempt, and overlapping cron runs post the same rows: an endpoint may get an event
  twice, more than six times, and a DELIVERED row may become FAILED (`overlapped` in
  `OnceInTurn`, `FinalInTurn`). `docs/DEPLOYMENT_INFO.md:367` calls all jobs race-safe.

### 6.1 Behaviour worth knowing

Met while modelling Commerce and Accounts. None contradicts a sentence of the
documentation; each is what the code does, and the properties state it as an exception
or the modules show it.

Orders and bookings:

* An order that rolls back after `promos.claim`, or expires, keeps the use of its code; an
  expired one keeps its add-ons and points (`orders/orders.service.ts:155`, `:141`, `:189`).
* Two orders at once may exceed an add-on's capacity or a corporate limit. One order alone may exceed
  the add-on's by naming it on two lines, each of which is compared with the same count
  (`orders/orders.service.ts:137`); `SoldAsCounted` bounds the excess by what was repeated.
  `settle` also marks orders that were paid after the invoice was read.
* An unpaid flight booking keeps its seat for good; a hotel's capacity is never compared.
* Two edits of a seat map at once leave two maps; an edit may delete the seat that a
  checkout has just held.
* `BuyForm` knows no pricing rules, so a charge may differ from the total shown; it posts
  `payFromWallet` while its button speaks of Paystack if tickets were added to a ticked
  box; its swipe bar stays latched after a malformed address. An order whose answer
  was lost can be placed again, and the return page's Refresh drops its reference
  (`apps/web/src/app/checkout/return/page.tsx:63`).
* The app caches a failed list of seats; a picked seat that was taken meanwhile
  cannot be un-picked (`apps/mobile/lib/widgets/seat_picker.dart`).
* The resale page says "10% platform fee paid by buyer" (`apps/web/src/app/resale/page.tsx:132`);
  `resale/resale.service.ts:99` deducts it from the seller.

Reports and mails:

* The chart of days counts an order once for each of its tickets, and on its first day
  and its last day orders from outside the window (`ChartCoversWindow`). The net deducts orders refunded in full, which
  the gross no longer contains, and ignores partial refunds. It is a formula of two figures that
  are modelled, and not modelled itself.
* An order with an affiliate's code and an agent's counts for both, so that the two lists
  together may show more than was sold. A report is not a snapshot: an order paid or refunded
  between two of its queries is in one figure and not in the other.
* `sentCount` counts mails that Postmark refused, and stays 0 after a crash.

Accounts:

* Two owners who remove each other at once leave none. An account may be closed while it
  is made an owner.
* Two sign-ups for a guest's account without password both succeed; the second's password
  stays. Whoever gives his own referral code is referred by himself, without a row.
* Parallel wrong passwords count as one. A sign-in under way survives a reset or a closing.
  Access tokens of third parties survive a reset. A code that expires between the
  read and the burn is still exchanged.
* `setStream` accepts a blank URL, and may leave a live stream blank. An event may be created,
  and put on sale, with its end before its start (`events/events.service.ts:47`); only a later edit of
  the dates is refused, and an edit of anything else, too, until they fit.
* A commission that an admin changes never reaches the subaccount in use, which keeps the
  percentage it was made with; `apps/web/src/app/dashboard/o/[slug]/payouts/page.tsx:94` shows the new one.
* The answer of a scan may be lost: the ticket counts as used though nobody was let in. A ticket
  that a refund voids between the read and the claim is refused as "already scanned".

Notifications:

* The listener of refreshed tokens is never cancelled (`apps/mobile/lib/state/push_client.dart:62`):
  a token rotated after sign-out is registered for whoever left.
* Sign-out in the browser leaves the push row, and the next user cannot remove it. The
  toggle registers the endpoint of the `PushManager` as if it were an FCM token.
* A sign-out killed halfway leaves a name to the next user without one; a second sign-out
  that ends late forgets the next user's token.

Pages:

* One flag for all rows is reset by another row's request and frees a button early; lists
  that are read again after each act show whichever answer came last; the marketplace,
  the bus page and the audit log may show an older search.
* The form to top up a wallet stays busy after an amount below 100 naira
  (`apps/web/src/app/account/wallet/page.tsx:41`); an error replaces the events page for good;
  the security page shows "Loading" for ever when its requests fail, and says "Session
  revoked." without a look at the answer (`apps/web/src/app/account/security/page.tsx:69`).
* The header does not hear of a change in its own tab (`apps/web/src/components/SiteHeader.tsx:21`); a page that
  reads the token again acts for another user than the one it shows; a failed check
  of an earlier path sends a signed-in user to sign-in with the old path.
* An event whose slug is `search` cannot be opened: `GET events/search` is declared before
  `GET events/:slug` (`events/events.controller.ts:77`; `LostName`).
* Whoever is sent to sign in loses the place at the scanner, on a tab of the account and in
  the app, whose forms ignore `next` (`PlaceIsLost` in `ComesBack`); from any page, so does who leaves
  the form for sign-up, a reset or a magic link (`detour`; the fourth difference above).
* The home page's quick prompts and its form name parameters that `/flights`, `/hotels`, `/buses` (`q`)
  and `/concerts` (`tier`) do not read (`ParamsAreRead`).
* The app's Edit Event always fails: `updateEvent` uses PATCH, which `_send` does not handle
  (`apps/mobile/lib/api/api_client.dart:52`). It is not among the pages of `Pages` for that reason.

## 7. What is not modelled, and the plan

Every safety and action property has its theorem. What could be done next: weaken
`OnTime` to a bound on single steps; abstract specifications of ownership and of the ledger with
refinements like that of `Inventory`; inductive invariants of `Commerce` and `Accounts` as
invariants of their runs too.

Not modelled:

* Of the API: what the support chat and the account's views read, white label and the
  other settings of one row (single writes), KYC tiers, creation of events,
  routes, codes, add-ons, agents and rules (single inserts), the audit log, health and error
  tracking, the search of hotels and flights, mail and SMS of single notices (failures are
  swallowed), `lastUsedAt` of sessions and the export of data. The routes of all of these are in
  `Routes`: who may call them and with which fields, not what they do.
* Of the clients: mark-up, styles, text and formatting. The button that revokes a
  session is in `Browser` (`ActingUser`) and not in `Pages`, since it looks at no answer.
* Paystack, Postmark, Firebase, Hotelbeds, Duffel and the minting service are external,
  modelled as the environment where the code uses them.
* Amounts, fees and limits as numbers beyond what the properties compare; deadlocks of
  row locks between carts, which PostgreSQL resolves by rolling one transaction back; the
  connection pool.
* The design mocks under `design/`, infrastructure and generated or vendored code.

The map names three tenths of the implementation's lines. A definition is mapped to the
handler, function or widget that it stands for as a whole, a record of `Sitemap` to the part of its page that it says something of: the component
function of a page that asks the API or turns visitors away, and for a page of text the lines
that hold its links. What is not mapped is JSX, text and widget trees, samples of data, design
mocks and the declarations around them, where nothing could be stated that the compiler does
not check.

## 8. Running it

    tlc -config CheckoutRaces.cfg MCCheckout
    tlc -config OwnershipRaces.cfg TicketOwnership
    tlapm CheckoutProofs.tla

The other runs are named in `PROJECT.json` with their module and configuration.
