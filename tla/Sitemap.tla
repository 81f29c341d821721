--------------------------------- MODULE Sitemap ---------------------------------
(***************************************************************************)
(* The pages of the web application and the screens of the app: who may    *)
(* see each, where it leads, and what it asks of the API.  What a page     *)
(* looks like is left out.                                                 *)
(***************************************************************************)
EXTENDS Routes

(* A place to go: a page and the parameters of its URL.  :slug and :id     *)
(* stand for the segments that the address leaves open.                    *)
Spot(page, params) == [page |-> page, params |-> params]
Nowhere == Spot("nowhere", {})

(* The place that a sign-in form was told to go on to.                     *)
Onward == Spot("next", {})

(* next: the place that the link tells a sign-in form to go on to.         *)
Link(page, params, next) == [spot |-> Spot(page, params), next |-> next]
Links(pages) == {Link(p, {}, Nowhere) : p \in pages}
SignInFor(page) == Link("/signin", {}, Spot(page, {}))

(* Who gets past the opening of a page: all, user, admin or visitor; where *)
(* the others are sent; and whether the page's own parameters go along.    *)
Gate(who, to, keeps) == [who |-> who, to |-> to, keeps |-> keeps]
ForAll == Gate("all", Link("/", {}, Nowhere), FALSE)
UsersOnly(page) == Gate("user", SignInFor(page), FALSE)

(* reads: the parameters that the page looks at; wants: those it asks      *)
(* nothing without.  loads: what it asks when it opens; queried: what it   *)
(* asks instead if its address names a query; moves: where it then goes by *)
(* itself.  sends: what its visitor may have it ask, and where the answer  *)
(* may lead; asks: where it sends a visitor who has to sign in for that.   *)
(* onFail: what a failed load leaves.  signOut: where its sign-out button  *)
(* leads.                                                                  *)
Page(path, links) ==
    [path |-> path, links |-> links, gate |-> ForAll, reads |-> {}, wants |-> {},
     loads |-> {}, queried |-> {}, moves |-> {}, sends |-> {}, asks |-> {}, onFail |-> "message",
     signOut |-> {}]

(* as: whose token goes along, nobody's, the user's, or the one there is.  *)
(* may: fields sent on some occasions.  reads: the answer it expects.      *)
Call(verb, path, as, sent, may, reads) ==
    [verb |-> verb, path |-> path, as |-> as, sent |-> sent, may |-> may, reads |-> reads]
Ask(path, as, reads) == Call("GET", path, as, {}, {}, reads)
Tell(path, as, sent, may) == Call("POST", path, as, sent, may, "object")
Change(path, sent) == Call("PATCH", path, "user", sent, {}, "object")
Drop(path) == Call("DELETE", path, "user", {}, {}, "object")

Sends(calls, leads) == {[call |-> c, leads |-> leads] : c \in calls}
Stays(calls) == Sends(calls, {})

-------------------------------------------------------------------------------
(* The calls of the web application.                                       *)
SalesApi ==
    [listEvents |-> Ask(<<"events">>, "nobody", "rows"),
     getEvent |-> Ask(<<"events", ":slug">>, "nobody", "object"),
     createOrder |-> Tell(<<"orders">>, "either", {"eventSlug", "buyerEmail", "items", "callbackUrl"},
                          {"buyerName", "promoCode", "payFromWallet"}),
     getOrderByReference |-> Ask(<<"orders", "by-reference", ":id">>, "nobody", "object")]

AuthApi ==
    [signup |-> Tell(<<"auth", "signup">>, "nobody", {"email", "password"}, {"name"}),
     me |-> Ask(<<"auth", "me">>, "user", "object"),
     google |-> Tell(<<"auth", "google">>, "nobody", {"idToken"}, {}),
     apple |-> Tell(<<"auth", "apple">>, "nobody", {"idToken"}, {"name"}),
     magicLinkRequest |-> Tell(<<"auth", "magic-link", "request">>, "nobody", {"email"}, {}),
     magicLinkConfirm |-> Tell(<<"auth", "magic-link", "confirm">>, "nobody", {"token"}, {})]

MyApi ==
    [wallet |-> Ask(Me \o <<"wallet">>, "user", "object"),
     topUp |-> Tell(Me \o <<"wallet", "top-ups">>, "user", {"amountKobo", "callbackUrl"}, {}),
     orders |-> Ask(Me \o <<"orders">>, "user", "rows")]

OrganizerApi ==
    [createOrganizer |-> Tell(<<"organizers">>, "user", {"name", "slug"}, {}),
     overview |-> Ask(Dash, "user", "object"),
     createEvent |-> Tell(<<"events">>, "user",
                          {"organizerSlug", "slug", "title", "venue", "city", "startsAt",
                           "endsAt", "ticketTypes"}, {"description"}),
     publishEvent |-> Tell(<<"events", ":slug", "publish">>, "user", {}, {})]

(* A list of the dashboard: its rows, a new one, one taken away.           *)
ListApi(name, sent, may) ==
    [rows |-> Ask(Dash \o <<name>>, "user", "rows"),
     add |-> Tell(Dash \o <<name>>, "user", sent, may),
     drop |-> Drop(Dash \o <<name, ":id">>)]

TeamApi == ListApi("members", {"email", "role"}, {})
TeamRole == Change(Dash \o <<"members", ":id">>, {"role"})
PromoCodesApi ==
    ListApi("promo-codes", {"code", "type", "value"}, {"eventSlug", "maxUses", "expiresAt"})
BusRoutesApi == ListApi("bus-routes", {"fromCity", "toCity", "durationMinutes"}, {})

BusApi ==
    [search |-> Call("GET", <<"buses">>, "nobody", {}, {"from", "to", "date"}, "rows"),
     cities |-> Ask(<<"buses", "cities">>, "nobody", "object")]
ListEventOrders == Ask(Dash \o <<"events", ":slug", "orders">>, "user", "object")

TransferApi ==
    [create |-> Tell(<<"tickets", ":id", "transfer">>, "user", {}, {"recipientEmail"}),
     cancel |-> Drop(<<"tickets", ":id", "transfer">>),
     describe |-> Ask(<<"tickets", "transfer", ":id">>, "nobody", "object"),
     claim |-> Tell(<<"tickets", "transfer", "claim">>, "user", {"token"}, {})]

ResaleApi ==
    [market |-> Ask(<<"resale">>, "nobody", "rows"),
     mine |-> Ask(<<"resale", "mine">>, "user", "rows"),
     list |-> Tell(<<"resale">>, "user", {"ticketCode", "askKobo"}, {}),
     cancel |-> Drop(<<"resale", ":id">>),
     buy |-> Tell(<<"resale", ":id", "buy">>, "user", {}, {})]

PushApi ==
    {Tell(Me \o <<"devices">>, "user", {"token", "platform"}, {}), Drop(Me \o <<"devices", ":id">>)}
SupportChat == Tell(Me \o <<"support">>, "user", {"message", "history"}, {})
ScanTicket == Tell(<<"tickets", "scan">>, "user", {"code"}, {})

PayoutsApi ==
    [banks |-> Ask(<<"payouts", "banks">>, "nobody", "object"),
     get |-> Ask(Dash \o <<"payouts">>, "user", "object"),
     set |-> Tell(Dash \o <<"payouts">>, "user", {"bankCode", "accountNumber"}, {})]

KeysApi == ListApi("api-keys", {"name"}, {})
EndpointsApi == ListApi("webhook-endpoints", {"url", "eventTypes"}, {})
DeliveriesApi ==
    [rows |-> Ask(Dash \o <<"webhook-deliveries">>, "user", "rows"),
     retry |-> Tell(Dash \o <<"webhook-deliveries", ":id", "retry">>, "user", {}, {})]

SeatsApi ==
    [set |-> Tell(Dash \o <<"ticket-types", ":id", "seat-map">>, "user", {"rows"}, {}),
     list |-> Ask(<<"ticket-types", ":id", "seats">>, "nobody", "rows")]

AdminApi ==
    LET one == <<"admin", "organizers", ":slug">> IN
    [stats |-> Ask(<<"admin", "stats">>, "user", "object"),
     organizers |-> Ask(<<"admin", "organizers">>, "user", "rows"),
     acts |-> {Tell(one \o <<"approve">>, "user", {}, {}),
               Tell(one \o <<"suspend">>, "user", {}, {}),
               Change(one \o <<"commission">>, {"bps"}), Change(one \o <<"kyc-notes">>, {"notes"})}]

RefundOrder == Tell(<<"dashboard", "orders", ":id", "refund">>, "user", {}, {"amountKobo", "reason"})
TicketQr == Ask(<<"tickets", ":id", "qr.png">>, "nobody", "file")

-------------------------------------------------------------------------------
(* What surrounds every page: the header, by whether a token is kept, the  *)
(* footer, and the tabs of a small screen, which some pages hide.          *)
SiteHeader(token) ==
    Links({"/", "/events", "/for-organizers", "/support"}
              \cup IF token = "none" THEN {"/signin", "/signup"} ELSE {"/account"})

SiteFooter ==
    Links({"/events", "/concerts", "/theatre", "/cinema", "/festivals", "/experiences",
           "/flights", "/buses", "/hotels", "/getaways", "/vouchers", "/packages",
           "/for-organizers/sell-tickets", "/for-organizers/promoter-hub",
           "/for-organizers/api-access", "/for-organizers/payouts",
           "/for-organizers/analytics", "/for-organizers/onboarding", "/about", "/app",
           "/careers", "/press", "/trust", "/partners", "/contact", "/help", "/resale",
           "/buyer-protection", "/refunds", "/privacy", "/terms", "/cookies"})

MobileTabBar ==
    Links({"/", "/events", "/support", "/account"}) \cup {Link("/account", {"tab"}, Nowhere)}

HidesTabBar ==
    {"/checkout/return", "/scan", "/admin", "/admin/audit-log", "/signin", "/signin/magic-link",
     "/signup", "/forgot-password", "/reset-password", "/verify-email", "/oauth/authorize"}

-------------------------------------------------------------------------------
(* The shop.                                                               *)
MobileGreetingStrip == {AuthApi.me}

(* The fields of the search form on the home page become parameters.       *)
HeroFields ==
    { Link("/events", {"q", "city", "when", "guests"}, Nowhere),
      Link("/concerts", {"q", "city", "when", "tier"}, Nowhere),
      Link("/flights", {"from", "to", "depart", "passengers"}, Nowhere),
      Link("/buses", {"from", "to", "depart", "passengers"}, Nowhere),
      Link("/hotels", {"destination", "checkin", "checkout", "guests"}, Nowhere),
      Link("/cinema", {"q", "city", "date", "format"}, Nowhere),
      Link("/experiences", {"q", "where", "when", "guests"}, Nowhere) }

QuickPrompts ==
    {Link(p, {"q"}, Nowhere) : p \in {"/concerts", "/flights", "/hotels", "/experiences", "/buses"}}

CategoryTiles ==
    Links({"/events", "/concerts", "/flights", "/hotels", "/buses", "/cinema", "/experiences"})

HomePage ==
    [Page("/", HeroFields \cup QuickPrompts \cup CategoryTiles \cup {Link("/events", {"q"}, Nowhere)}
                   \cup Links({"/events", "/events/:slug", "/buses", "/flights", "/signup"}))
        EXCEPT !.loads = {SalesApi.listEvents} \cup MobileGreetingStrip]

(* A list of events for what is typed, or all of them.                     *)
SearchEvents == Call("GET", <<"events", "search">>, "nobody", {"q"}, {}, "rows")
MarketplaceSearchPage(path) ==
    [Page(path, Links({"/events/:slug", "/hotels"}))
        EXCEPT !.reads = {"q", "city", "when", "guests"}, !.queried = {SearchEvents},
               !.loads = {SalesApi.listEvents},
               !.sends = Stays({SalesApi.listEvents, SearchEvents})]

EventsPage == MarketplaceSearchPage("/events")
ConcertsPage == [MarketplaceSearchPage("/concerts") EXCEPT !.loads = {SearchEvents}]

BuyForm ==
    Stays({SeatsApi.list})
        \cup Sends({SalesApi.createOrder}, {Link("/checkout/return", {"reference"}, Nowhere)})

EventPage ==
    [Page("/events/:slug", Links({"/events", "/hotels"}) \cup {SignInFor("/events/:slug")})
        EXCEPT !.loads = {SalesApi.getEvent}, !.sends = BuyForm]

GroupShareCallout == Sends({TransferApi.create}, {Link("/transfer/:id", {}, Nowhere)})

CheckoutReturnPage ==
    [Page("/checkout/return", Links({"/", "/tickets/:id/collectible"}))
        EXCEPT !.reads = {"reference"}, !.wants = {"reference"},
               !.loads = {SalesApi.getOrderByReference}, !.sends = Stays({TicketQr}) \cup GroupShareCallout]

BusesPage ==
    [Page("/buses", Links({"/events/:slug"}))
        EXCEPT !.reads = {"from", "to", "depart", "passengers"},
               !.loads = {BusApi.cities, BusApi.search}, !.sends = Stays({BusApi.search})]

FlightsPage ==
    [Page("/flights", {}) EXCEPT !.reads = {"from", "to", "depart", "passengers"}]
HotelsPage ==
    [Page("/hotels", {}) EXCEPT !.reads = {"destination", "checkin", "checkout", "guests"}]

CinemaPage ==
    [Page("/cinema", Links({"/theatre"}) \cup {Link("/events", {"q"}, Nowhere)})
        EXCEPT !.reads = {"q", "city", "date", "format"}]
ExperiencesPage ==
    [Page("/experiences", Links({"/getaways"}) \cup {Link("/events", {"q"}, Nowhere)})
        EXCEPT !.reads = {"q", "where", "when", "guests"}]
TheatrePage == Page("/theatre", Links({"/events", "/cinema"}))
FestivalsPage == Page("/festivals", Links({"/concerts"}) \cup {Link("/events", {"q"}, Nowhere)})
GetawaysPage == Page("/getaways", Links({"/hotels", "/packages", "/signup"}))
VouchersPage == Page("/vouchers", Links({"/signup", "/contact"}))
PackagesPage == Page("/packages", Links({"/events"}))

(* The page of one organizer, and the root of a host of its own.           *)
OrganizerPage ==
    [Page("/o/:slug", Links({"/events/:slug"}))
        EXCEPT !.loads = {Ask(<<"whitelabel", "by-slug", ":slug">>, "nobody", "object")}]
CustomHost ==
    [Page("host:/", {})
        EXCEPT !.loads = {Call("GET", <<"whitelabel", "resolve">>, "nobody", {"host"}, {}, "nothing")},
               !.moves = Links({"/", "/o/:slug"}), !.onFail = "home"]

ShopPages ==
    {HomePage, EventsPage, ConcertsPage, EventPage, CheckoutReturnPage, BusesPage, FlightsPage,
     HotelsPage, CinemaPage, ExperiencesPage, TheatrePage, FestivalsPage, GetawaysPage,
     VouchersPage, PackagesPage, OrganizerPage, CustomHost}

-------------------------------------------------------------------------------
(* Pages that inform: the tabs of a group and a few links.                 *)
ContentSubNav ==
    [company |-> {"/about", "/trust", "/careers", "/press", "/partners", "/contact"},
     support |-> {"/help", "/buyer-protection", "/refunds", "/privacy", "/terms", "/cookies"},
     organizer |-> {"/for-organizers", "/for-organizers/sell-tickets",
                    "/for-organizers/promoter-hub", "/for-organizers/api-access",
                    "/for-organizers/payouts", "/for-organizers/analytics",
                    "/for-organizers/onboarding"}]

Editorial(path, group, links) == Page(path, Links(ContentSubNav[group] \cup links))

AboutPage == Editorial("/about", "company", {"/careers", "/press"})
TrustPage == Editorial("/trust", "company", {"/contact"})
CareersPage == Editorial("/careers", "company", {"/about"})
PressPage == Editorial("/press", "company", {})
PartnersPage == Editorial("/partners", "company", {"/for-organizers/api-access"})
ContactPage == Editorial("/contact", "company", {"/support"})
HelpPage == Editorial("/help", "support", {"/help", "/buyer-protection", "/support", "/contact"})
BuyerProtectionPage == Editorial("/buyer-protection", "support", {"/account", "/refunds"})
RefundsPage == Editorial("/refunds", "support", {"/buyer-protection", "/account", "/support"})
PrivacyPage == Editorial("/privacy", "support", {"/cookies"})
TermsPage == Editorial("/terms", "support", {"/buyer-protection", "/refunds"})
CookiesPage == Editorial("/cookies", "support", {"/account"})
ForOrganizersPage == Editorial("/for-organizers", "organizer", {"/dashboard/signup", "/contact"})
SellTicketsPage ==
    Editorial("/for-organizers/sell-tickets", "organizer",
              {"/dashboard/signup", "/for-organizers/promoter-hub"})
PromoterHubPage ==
    Editorial("/for-organizers/promoter-hub", "organizer", {"/for-organizers/analytics"})
ApiAccessPage == Editorial("/for-organizers/api-access", "organizer", {"/dashboard/signup"})
PayoutsInfoPage ==
    Editorial("/for-organizers/payouts", "organizer", {"/dashboard", "/for-organizers/analytics"})
AnalyticsInfoPage ==
    Editorial("/for-organizers/analytics", "organizer", {"/for-organizers/promoter-hub"})
OnboardingPage == Editorial("/for-organizers/onboarding", "organizer", {"/dashboard/signup"})
AppPage == Page("/app", Links({"/support"}))
WidgetDemoPage == Page("/widget-demo", Links({"/events/:slug"}))

InfoPages ==
    {AboutPage, TrustPage, CareersPage, PressPage, PartnersPage, ContactPage, HelpPage,
     BuyerProtectionPage, RefundsPage, PrivacyPage, TermsPage, CookiesPage, ForOrganizersPage,
     SellTicketsPage, PromoterHubPage, ApiAccessPage, PayoutsInfoPage, AnalyticsInfoPage,
     OnboardingPage, AppPage, WidgetDemoPage}

-------------------------------------------------------------------------------
(* Signing in.  Forms go on to the place they were told of.                *)
SocialAuthButtons == Sends({AuthApi.google, AuthApi.apple}, {Link("next", {}, Nowhere)})
MagicLinkForm ==
    Sends({AuthApi.magicLinkRequest}, {Link("/signin/magic-link", {"token"}, Nowhere)})

SignInForm ==
    Sends({Tell(<<"auth", "signin", "2fa">>, "nobody", {"challengeToken", "totpCode"}, {}),
           Tell(<<"auth", "signin">>, "nobody", {"email", "password"}, {})},
          {Link("next", {}, Nowhere)})

SignInPage ==
    [Page("/signin", Links({"/signup", "/forgot-password"}))
        EXCEPT !.reads = {"next"}, !.sends = SignInForm \cup SocialAuthButtons \cup MagicLinkForm]

SignUpPage ==
    [Page("/signup", Links({"/signin"}))
        EXCEPT !.reads = {"next"},
               !.sends = Sends({AuthApi.signup}, {Link("next", {}, Nowhere)})
                             \cup SocialAuthButtons \cup MagicLinkForm]

MagicLinkPage ==
    [Page("/signin/magic-link", Links({"/signin", "/help"}))
        EXCEPT !.reads = {"token", "next"}, !.wants = {"token"},
               !.loads = {AuthApi.magicLinkConfirm}, !.moves = {Link("next", {}, Nowhere)}]

DashboardSignInPage ==
    [Page("/dashboard/signin", {}) EXCEPT !.moves = {SignInFor("/dashboard")}]
DashboardSignUpPage ==
    [Page("/dashboard/signup", {}) EXCEPT !.moves = {Link("/signup", {}, Spot("/dashboard", {}))}]

ForgotPasswordPage ==
    [Page("/forgot-password", {})
        EXCEPT !.sends = Sends({Tell(<<"auth", "password-reset", "request">>, "nobody", {"email"}, {})},
                               {Link("/reset-password", {"token"}, Nowhere)})]

ResetPasswordPage ==
    [Page("/reset-password", Links({"/forgot-password"}))
        EXCEPT !.reads = {"token"},
               !.sends = Sends({Tell(<<"auth", "password-reset", "confirm">>, "nobody",
                                     {"token", "newPassword"}, {})}, Links({"/signin"}))]

VerifyEmailPage ==
    [Page("/verify-email", Links({"/account"}))
        EXCEPT !.reads = {"token"}, !.wants = {"token"},
               !.loads = {Call("GET", <<"auth", "verify-email", "confirm">>, "nobody", {"token"}, {},
                               "object")}]

SignInPages ==
    {SignInPage, SignUpPage, MagicLinkPage, DashboardSignInPage, DashboardSignUpPage,
     ForgotPasswordPage, ResetPasswordPage, VerifyEmailPage}

-------------------------------------------------------------------------------
(* What belongs to a user.                                                 *)
AccountPage ==
    [Page("/account", Links({"/account/security", "/account/wallet", "/events", "/events/:slug"}))
        EXCEPT !.gate = UsersOnly("/account"), !.reads = {"tab"},
               !.loads = {AuthApi.me, MyApi.orders, MyApi.wallet}, !.sends = Stays({TicketQr}),
               !.signOut = Links({"/"})]

WalletPage ==
    [Page("/account/wallet", Links({"/account"}))
        EXCEPT !.gate = UsersOnly("/account/wallet"), !.loads = {MyApi.wallet},
               !.sends = Sends({MyApi.topUp}, Links({"/account/wallet"}))]

DeleteAccount == Call("DELETE", Me \o <<"account">>, "user", {"password"}, {}, "object")

(* Until it knows the state of the account the page has nothing to offer.  *)
(* Deleting the account signs out.                                         *)
SecurityPage ==
    LET security == Me \o <<"security">>
        sessions == Me \o <<"sessions">> IN
    [Page("/account/security", Links({"/account"}))
        EXCEPT !.gate = UsersOnly("/account/security"), !.onFail = "waits",
               !.loads = {Ask(security, "user", "object"), Ask(sessions, "user", "rows")},
               !.sends = Stays({Drop(sessions), Drop(sessions \o <<":id">>),
                                Tell(security \o <<"2fa", "setup">>, "user", {}, {}),
                                Tell(security \o <<"2fa", "enable">>, "user", {"code"}, {}),
                                Tell(security \o <<"2fa", "disable">>, "user", {"password"}, {}),
                                Ask(Me \o <<"data-export">>, "user", "object")} \cup PushApi)
                         \cup Sends({Tell(security \o <<"email-verify", "request">>, "user", {}, {})},
                                    {Link("/verify-email", {"token"}, Nowhere)})
                         \cup Sends({DeleteAccount}, Links({"/"}))]

SupportPage ==
    [Page("/support", Links({"/help", "/refunds", "/account", "/buyer-protection", "/trust"}))
        EXCEPT !.gate = UsersOnly("/support"), !.sends = Stays({SupportChat})]

TransferButton == Sends({TransferApi.create}, Links({"/transfer/:id"}))
ResellButton == Sends({ResaleApi.list}, Links({"/resale"}))

CollectiblePage ==
    [Page("/tickets/:id/collectible", {})
        EXCEPT !.gate = UsersOnly("/tickets/:id/collectible"),
               !.loads = {Ask(<<"tickets", ":id", "collectible">>, "user", "object")},
               !.sends = Stays({Tell(<<"tickets", ":id", "claim-nft">>, "user", {"wallet"}, {})})
                         \cup TransferButton \cup ResellButton]

TransferPage ==
    [Page("/transfer/:id", Links({"/", "/tickets/:id/collectible"}))
        EXCEPT !.loads = {TransferApi.describe}, !.sends = Stays({TransferApi.claim}),
               !.asks = {SignInFor("/transfer/:id")}]

ResalePage ==
    [Page("/resale", Links({"/buyer-protection", "/events", "/events/:slug"})
                         \cup {Link("/account", {"tab"}, Nowhere)})
        EXCEPT !.loads = {ResaleApi.market},
               !.sends = Sends({ResaleApi.buy}, Links({"/tickets/:id/collectible"})),
               !.asks = {SignInFor("/resale")}]

WatchPage ==
    [Page("/watch/:id", {}) EXCEPT !.loads = {Ask(<<"tickets", ":id", "playback">>, "nobody", "object")}]

ScanPage ==
    [Page("/scan", {})
        EXCEPT !.gate = Gate("user", Link("/dashboard/signin", {}, Nowhere), FALSE),
               !.sends = Stays({ScanTicket})]

(* Another application asks for a grant: its query goes through sign-in.   *)
AuthorizePage ==
    LET query == {"client_id", "redirect_uri", "scope"} IN
    [Page("/oauth/authorize", {})
        EXCEPT !.gate = Gate("user", SignInFor("/oauth/authorize"), TRUE),
               !.reads = query, !.wants = query,
               !.loads = {Call("GET", <<"oauth", "authorize">>, "nobody", query, {}, "object")},
               !.sends = Stays({Tell(<<"oauth", "authorize", "grant">>, "user", query, {})})]

UserPages ==
    {AccountPage, WalletPage, SecurityPage, SupportPage, CollectiblePage, TransferPage, ResalePage,
     WatchPage, ScanPage, AuthorizePage}

-------------------------------------------------------------------------------
(* The dashboard of organizers.  Its layout asks who is there, and sends   *)
(* back to sign in if that fails.                                          *)
DashboardTabs ==
    Links({"/help", "/scan", "/dashboard", "/dashboard/o/:slug", "/dashboard/o/:slug/bus-routes",
           "/dashboard/o/:slug/team", "/dashboard/o/:slug/payouts", "/dashboard/o/:slug/analytics",
           "/dashboard/o/:slug/promo-codes", "/dashboard/o/:slug/developers"})

DashboardPage(path, links) ==
    [Page(path, Links(links) \cup DashboardTabs)
        EXCEPT !.gate = UsersOnly(path), !.loads = {AuthApi.me}, !.onFail = "turned",
               !.signOut = Links({"/"})]

DashboardHome ==
    [DashboardPage("/dashboard", {})
        EXCEPT !.sends = Sends({OrganizerApi.createOrganizer}, Links({"/dashboard/o/:slug"}))]

NewEventForm == Stays({OrganizerApi.createEvent})

EventRow ==
    [links |-> {"/events/:slug", "/dashboard/o/:slug/events/:slug/orders"},
     sends |-> Stays({OrganizerApi.publishEvent})]

OverviewPage ==
    [DashboardPage("/dashboard/o/:slug", {"/o/:slug"} \cup EventRow.links)
        EXCEPT !.loads = @ \cup {OrganizerApi.overview}, !.sends = EventRow.sends \cup NewEventForm]

AnalyticsPage ==
    [DashboardPage("/dashboard/o/:slug/analytics", {"/events/:slug"})
        EXCEPT !.loads = @ \cup {Call("GET", Dash \o <<"analytics">>, "user", {"days"}, {}, "object")}]

TeamPage ==
    [DashboardPage("/dashboard/o/:slug/team", {})
        EXCEPT !.loads = @ \cup {TeamApi.rows},
               !.sends = Stays({TeamApi.add, TeamApi.drop, TeamRole})]

PromoCodesPage ==
    [DashboardPage("/dashboard/o/:slug/promo-codes", {})
        EXCEPT !.loads = @ \cup {PromoCodesApi.rows, OrganizerApi.overview},
               !.sends = Stays({PromoCodesApi.add, PromoCodesApi.drop})]

BusRoutesPage ==
    [DashboardPage("/dashboard/o/:slug/bus-routes", {})
        EXCEPT !.loads = @ \cup {BusRoutesApi.rows},
               !.sends = Stays({BusRoutesApi.add, BusRoutesApi.drop})]

DevelopersPage ==
    [DashboardPage("/dashboard/o/:slug/developers", {"/widget-demo"})
        EXCEPT !.loads = @ \cup {KeysApi.rows, EndpointsApi.rows, DeliveriesApi.rows},
               !.sends = Stays({KeysApi.add, KeysApi.drop, EndpointsApi.add, EndpointsApi.drop,
                                DeliveriesApi.retry})]

PayoutsPage ==
    [DashboardPage("/dashboard/o/:slug/payouts", {})
        EXCEPT !.loads = @ \cup {PayoutsApi.get, PayoutsApi.banks}, !.sends = Stays({PayoutsApi.set})]

OrdersPage ==
    [DashboardPage("/dashboard/o/:slug/events/:slug/orders", {})
        EXCEPT !.loads = @ \cup {ListEventOrders}, !.sends = Stays({RefundOrder})]

OrganizerPages ==
    {DashboardHome, OverviewPage, AnalyticsPage, TeamPage, PromoCodesPage, BusRoutesPage,
     DevelopersPage, PayoutsPage, OrdersPage}

(* The console: a user who is no admin is sent to the home page, and what  *)
(* did not load leaves nothing to do.  The filter of the audit log loads   *)
(* the page again, as its own link does.                                   *)
AdminFrame == Links({"/admin", "/admin/audit-log", "/"})

AdminPage ==
    [Page("/admin", AdminFrame)
        EXCEPT !.gate = Gate("admin", SignInFor("/admin"), FALSE), !.onFail = "waits",
               !.loads = {AuthApi.me, AdminApi.stats, AdminApi.organizers},
               !.sends = Stays(AdminApi.acts)]

AuditLogPage ==
    LET rows == Call("GET", <<"admin", "audit-log">>, "user", {}, {"action"}, "rows") IN
    [Page("/admin/audit-log", AdminFrame)
        EXCEPT !.gate = Gate("admin", SignInFor("/admin/audit-log"), FALSE),
               !.loads = {AuthApi.me, rows}]

-------------------------------------------------------------------------------
(* The app.  Its client sends no PATCH: an event that is edited never      *)
(* leaves the device.                                                      *)
AppSignIn ==
    {Tell(<<"auth", "signin">>, "nobody", {"email", "password"}, {"totpCode"}),
     Tell(<<"auth", "signin", "2fa">>, "nobody", {"challengeToken", "totpCode"}, {})}

AppEventsApi ==
    [list |-> Call("GET", <<"events">>, "nobody", {}, {"city"}, "rows"),
     search |-> SearchEvents,
     get |-> SalesApi.getEvent,
     order |-> Tell(<<"orders">>, "user", {"eventSlug", "buyerEmail", "items"}, {"buyerName"}),
     seats |-> SeatsApi.list]

AppWalletApi ==
    [overview |-> MyApi.wallet,
     topUp |-> Tell(Me \o <<"wallet", "top-ups">>, "user", {"amountKobo"}, {"callbackUrl"}),
     kyc |-> Tell(Me \o <<"wallet", "kyc">>, "user", {"bvn", "idNumber"}, {"idDocumentUrl"})]

AppOrganizerApi ==
    [memberships |-> AuthApi.me, overview |-> OrganizerApi.overview, orders |-> ListEventOrders,
     refund |-> RefundOrder, scan |-> ScanTicket]

AppTicketsApi ==
    [orders |-> MyApi.orders, qr |-> TicketQr, transfer |-> TransferApi.create,
     market |-> ResaleApi.market, list |-> ResaleApi.list, buy |-> ResaleApi.buy]

(* The router sends to the sign-in screen whoever needs an account, names  *)
(* the screen, and keeps who is signed in away from the forms; the screens *)
(* below tickets and wallet are open to all.                               *)
AppSignInFor(path) == Link("app:/signin", {}, Spot(path, {}))
AppRouter(path) ==
    IF path \in {"app:/signin", "app:/signup"}
    THEN Gate("visitor", Link("app:/events", {}, Nowhere), FALSE)
    ELSE IF path \in {"app:/tickets", "app:/profile", "app:/wallet", "app:/scanner",
                      "app:/dashboard", "app:/dashboard/:slug",
                      "app:/dashboard/:slug/events/:slug/edit",
                      "app:/dashboard/:slug/events/:slug/orders"}
         THEN Gate("user", AppSignInFor(path), FALSE)
         ELSE ForAll

Screen(path, links) == [Page(path, Links(links)) EXCEPT !.gate = AppRouter(path)]

AppShell == {"app:/events", "app:/tickets", "app:/profile"}

EventsScreen ==
    [Screen("app:/events", AppShell \cup {"app:/events/:slug"})
        EXCEPT !.loads = {AppEventsApi.list}, !.sends = Stays({AppEventsApi.list, AppEventsApi.search})]

EventDetailScreen ==
    [Screen("app:/events/:slug", AppShell)
        EXCEPT !.loads = {AppEventsApi.get}, !.sends = Stays({AppEventsApi.seats, AppEventsApi.order}),
               !.asks = {AppSignInFor("app:/events/:slug")}]

MyTicketsScreen ==
    [Screen("app:/tickets", AppShell \cup {"app:/tickets/:id"}) EXCEPT !.loads = {AppTicketsApi.orders}]

TicketDetailScreen ==
    [Screen("app:/tickets/:id", AppShell)
        EXCEPT !.sends = Stays({AppTicketsApi.qr, AppTicketsApi.transfer, AppTicketsApi.list})]

ProfileScreen ==
    [Screen("app:/profile", AppShell \cup {"app:/wallet", "app:/dashboard", "app:/scanner"})
        EXCEPT !.signOut = Links({"app:/events"})]

WalletScreen ==
    [Screen("app:/wallet", {"app:/wallet/kyc"})
        EXCEPT !.loads = {AppWalletApi.overview}, !.sends = Stays({AppWalletApi.topUp})]
KycScreen ==
    [Screen("app:/wallet/kyc", {"app:/wallet"}) EXCEPT !.sends = Stays({AppWalletApi.kyc})]

ScannerScreen == [Screen("app:/scanner", {}) EXCEPT !.sends = Stays({AppOrganizerApi.scan})]

ResaleScreen ==
    [Screen("app:/resale", {})
        EXCEPT !.loads = {AppTicketsApi.market},
               !.sends = Sends({AppTicketsApi.buy}, Links({"app:/tickets/:id"})),
               !.asks = Links({"app:/signin"})]

DashboardScreen ==
    [Screen("app:/dashboard", {"app:/dashboard/:slug"}) EXCEPT !.loads = {AppOrganizerApi.memberships}]
OrganizerScreen ==
    [Screen("app:/dashboard/:slug",
            {"app:/dashboard", "app:/dashboard/:slug/events/:slug/orders",
             "app:/dashboard/:slug/events/:slug/edit"})
        EXCEPT !.loads = {AppOrganizerApi.overview}]
EditEventScreen ==
    [Screen("app:/dashboard/:slug/events/:slug/edit", {"app:/dashboard/:slug"})
        EXCEPT !.loads = {AppEventsApi.get}]
OrdersScreen ==
    [Screen("app:/dashboard/:slug/events/:slug/orders", {"app:/dashboard/:slug"})
        EXCEPT !.loads = {AppOrganizerApi.orders}, !.sends = Stays({AppOrganizerApi.refund})]

(* Both forms go to the events, whatever they were told.                   *)
SignInScreen ==
    [Screen("app:/signin", {"app:/signup"})
        EXCEPT !.reads = {"next"}, !.sends = Sends(AppSignIn, Links({"app:/events"}))]
SignUpScreen ==
    [Screen("app:/signup", {"app:/signin"})
        EXCEPT !.sends = Sends({AuthApi.signup}, Links({"app:/events"}))]

AppScreens ==
    {EventsScreen, EventDetailScreen, MyTicketsScreen, TicketDetailScreen, ProfileScreen,
     WalletScreen, KycScreen, ScannerScreen, ResaleScreen, DashboardScreen, OrganizerScreen,
     EditEventScreen, OrdersScreen, SignInScreen, SignUpScreen}

-------------------------------------------------------------------------------
AllPages ==
    ShopPages \cup InfoPages \cup SignInPages \cup UserPages \cup OrganizerPages
        \cup {AdminPage, AuditLogPage} \cup AppScreens

Paths == {p.path : p \in AllPages}
AppPaths == {p.path : p \in AppScreens}
PageAt == [path \in Paths |-> CHOOSE p \in AllPages : p.path = path]

(* The links in sight of who has this token.                               *)
LinksOn(page, token) ==
    page.links
        \cup IF page.path \in AppPaths THEN {}
             ELSE SiteHeader(token) \cup SiteFooter
                     \cup IF page.path \in HidesTabBar \cup {p.path : p \in OrganizerPages} THEN {}
                          ELSE MobileTabBar
================================================================================
