--------------------------------- MODULE Routes ---------------------------------
(***************************************************************************)
(* The routes of the API: what each asks of a request and what it answers  *)
(* with.  A request is sent to a path and meets the first route that       *)
(* matches it; guards run before the body is validated.                    *)
(***************************************************************************)
EXTENDS Naturals, Sequences, SequencesExt, FiniteSets

(* Segments that a route or a page leaves open: a name somebody chose, or  *)
(* an id, a code or a token that the program drew.                         *)
Holes == {":slug", ":id"}

(* guard: who may call.  needs, may: fields that the body must and may     *)
(* have, or, of a GET, parameters of the query.  gives: the shape of the   *)
(* answer.                                                                 *)
On(verb, path, guard, needs, may, gives) ==
    [verb |-> verb, path |-> path, guard |-> guard, needs |-> needs, may |-> may,
     gives |-> gives]

Get(path, guard, gives) == On("GET", path, guard, {}, {}, gives)
Search(path, params) == On("GET", path, "open", {}, params, "rows")
Post(path, guard, needs, may) == On("POST", path, guard, needs, may, "object")
Patch(path, guard, needs, may) == On("PATCH", path, guard, needs, may, "object")
Delete(path, guard) == On("DELETE", path, guard, {}, {}, "object")

Me == <<"me">>
Dash == <<"dashboard", "organizers", ":slug">>

(* A controller of rows that the members of an organizer list, add and     *)
(* take back.                                                              *)
RowsOf(name, needs, may) ==
    <<Get(Dash \o <<name>>, "member", "rows"), Post(Dash \o <<name>>, "member", needs, may)>>
RowOf(name) == <<Delete(Dash \o <<name, ":id">>, "member")>>

-------------------------------------------------------------------------------
(* The controllers.                                                        *)
HealthController == <<Get(<<"health">>, "open", "object"), Get(<<"ready">>, "open", "object")>>

AuthController ==
    <<Post(<<"auth", "signup">>, "open", {"email", "password"}, {"name", "phone", "referralCode"}),
      Post(<<"auth", "signin">>, "open", {"email", "password"}, {"totpCode"}),
      Post(<<"auth", "signin", "2fa">>, "open", {"challengeToken", "totpCode"}, {}),
      Get(<<"auth", "me">>, "user", "object")>>

SessionsController ==
    <<Get(Me \o <<"sessions">>, "user", "rows"),
      Delete(Me \o <<"sessions">>, "user"),
      Delete(Me \o <<"sessions", ":id">>, "user")>>

SocialAuthController ==
    <<Post(<<"auth", "google">>, "open", {"idToken"}, {}),
      Post(<<"auth", "apple">>, "open", {"idToken"}, {"name"}),
      Post(<<"auth", "magic-link", "request">>, "open", {"email"}, {}),
      Post(<<"auth", "magic-link", "confirm">>, "open", {"token"}, {})>>

OrganizersController ==
    <<Post(<<"organizers">>, "verified", {"name", "slug"}, {"description"}),
      Get(<<"organizers">>, "open", "rows"),
      Get(<<"organizers", ":slug">>, "open", "object")>>

EventSearch == Search(<<"events", "search">>, {"q", "city", "limit"})
EventBySlug == Get(<<"events", ":slug">>, "open", "object")

EventsController ==
    <<Post(<<"events">>, "member",
           {"organizerSlug", "slug", "title", "venue", "city", "startsAt", "endsAt", "ticketTypes"},
           {"description", "type", "busRouteId"}),
      Search(<<"events">>, {"city", "cursor", "limit"}),
      EventSearch,
      EventBySlug,
      Patch(<<"events", ":slug">>, "member", {},
            {"title", "description", "venue", "city", "startsAt", "endsAt"}),
      Post(<<"events", ":slug", "publish">>, "member", {}, {})>>

(* An order is anonymous when its token is missing or refused.             *)
OrdersController ==
    <<Post(<<"orders">>, "optional", {"eventSlug", "buyerEmail", "items"},
           {"buyerName", "buyerPhone", "callbackUrl", "promoCode", "payFromWallet",
            "affiliateCode", "agentCode", "corporateAccountId", "redeemLoyaltyPoints", "addOns"}),
      Get(<<"orders", "by-reference", ":id">>, "open", "object"),
      Get(<<"orders", ":id">>, "open", "object")>>

TicketsController ==
    <<Get(<<"tickets", ":id">>, "open", "object"),
      Get(<<"tickets", ":id", "qr.png">>, "open", "file"),
      Post(<<"tickets", "scan">>, "user", {"code"}, {}),
      Post(<<"tickets", ":id", "transfer">>, "user", {}, {"recipientEmail"}),
      Delete(<<"tickets", ":id", "transfer">>, "user"),
      Get(<<"tickets", "transfer", ":id">>, "open", "object"),
      Post(<<"tickets", "transfer", "claim">>, "user", {"token"}, {})>>

WebhooksController == <<Post(<<"webhooks", "paystack">>, "signature", {"event", "data"}, {})>>

DashboardController ==
    <<Get(Dash, "member", "object"),
      Get(Dash \o <<"events", ":slug", "orders">>, "member", "object"),
      On("GET", Dash \o <<"analytics">>, "member", {}, {"days"}, "object")>>

RefundsController ==
    <<Post(<<"dashboard", "orders", ":id", "refund">>, "member", {},
           {"amountKobo", "reason", "toWallet"})>>

PayoutsController ==
    <<Get(<<"payouts", "banks">>, "open", "object"),
      Get(Dash \o <<"payouts">>, "member", "object"),
      Post(Dash \o <<"payouts">>, "member", {"bankCode", "accountNumber"}, {})>>

ApiKeysController ==
    RowsOf("api-keys", {"name"}, {}) \o RowOf("api-keys")
        \o <<Get(<<"api", "v1", "me">>, "key", "object")>>

WebhookEndpointsController ==
    RowsOf("webhook-endpoints", {"url", "eventTypes"}, {}) \o RowOf("webhook-endpoints")

WebhookDeliveriesController ==
    <<Get(Dash \o <<"webhook-deliveries">>, "member", "rows"),
      Post(Dash \o <<"webhook-deliveries", ":id", "retry">>, "member", {}, {})>>

AccountController ==
    <<Get(Me \o <<"orders">>, "user", "rows"), Get(Me \o <<"orders", ":id">>, "user", "object")>>

AdminController ==
    <<Get(<<"admin", "stats">>, "admin", "object"),
      Get(<<"admin", "organizers">>, "admin", "rows"),
      Post(<<"admin", "organizers", ":slug", "approve">>, "admin", {}, {}),
      Post(<<"admin", "organizers", ":slug", "suspend">>, "admin", {}, {}),
      Patch(<<"admin", "organizers", ":slug", "commission">>, "admin", {"bps"}, {}),
      Patch(<<"admin", "organizers", ":slug", "kyc-notes">>, "admin", {"notes"}, {}),
      Get(<<"admin", "wallet-kyc">>, "admin", "rows"),
      Patch(<<"admin", "users", ":id", "kyc-tier">>, "admin", {"tier"}, {})>>

TeamController ==
    RowsOf("members", {"email", "role"}, {})
        \o <<Patch(Dash \o <<"members", ":id">>, "member", {"role"}, {})>> \o RowOf("members")

PromoCodesController ==
    RowsOf("promo-codes", {"code", "type", "value"}, {"eventSlug", "maxUses", "expiresAt"})
        \o RowOf("promo-codes")

BusesController ==
    RowsOf("bus-routes", {"fromCity", "toCity", "durationMinutes"}, {}) \o RowOf("bus-routes")
        \o <<Search(<<"buses">>, {"from", "to", "date"}),
             Get(<<"buses", "cities">>, "open", "object")>>

WalletController ==
    <<Get(Me \o <<"wallet">>, "user", "object"),
      Post(Me \o <<"wallet", "kyc">>, "user", {"bvn", "idNumber"}, {"idDocumentUrl"}),
      Post(Me \o <<"wallet", "top-ups">>, "verified", {"amountKobo"}, {"callbackUrl"})>>

SeatingController ==
    <<Post(Dash \o <<"ticket-types", ":id", "seat-map">>, "member", {"rows"}, {}),
      Get(<<"ticket-types", ":id", "seats">>, "open", "rows")>>

AddOnsController ==
    RowsOf("add-ons", {"eventSlug", "name", "priceKobo"}, {"description", "capacity"})
        \o RowOf("add-ons") \o <<Get(<<"events", ":slug", "add-ons">>, "open", "rows")>>

AffiliateController == RowsOf("affiliate-links", {"code", "name"}, {}) \o RowOf("affiliate-links")

BroadcastsController ==
    <<Get(Dash \o <<"events", ":slug", "broadcasts">>, "member", "rows"),
      Post(Dash \o <<"events", ":slug", "broadcasts">>, "member", {"subject", "body"}, {})>>

HotelsController ==
    RowsOf("hotels", {"slug", "name", "city", "address", "pricePerNightKobo", "capacity"},
         {"description"})
        \o <<Search(<<"hotels">>, {"city", "destinationCode", "checkIn", "checkOut"}),
             Get(<<"hotels", ":slug">>, "open", "object")>>

FlightsController ==
    RowsOf("flights", {"flightNumber", "airline", "fromAirport", "toAirport", "departsAt",
                     "arrivesAt", "priceKobo", "capacity"}, {})
        \o <<Search(<<"flights">>, {"from", "to", "date"})>>

BookingsController ==
    <<Post(<<"hotel-bookings">>, "optional", {"hotelSlug", "guestEmail", "checkIn", "checkOut"},
           {"guestName", "guests", "callbackUrl"}),
      Post(<<"flight-bookings">>, "optional", {"flightId", "passengerName", "passengerEmail"},
           {"callbackUrl"})>>

LoyaltyController == <<Get(Me \o <<"loyalty">>, "user", "object")>>

VouchersController ==
    RowsOf("voucher-batches", {"name", "denominationKobo", "count"}, {"expiresAt"})
        \o <<Get(Dash \o <<"voucher-batches", ":id", "codes">>, "member", "object"),
             Post(Me \o <<"vouchers", "redeem">>, "user", {"code"}, {})>>

ResaleController ==
    <<Get(<<"resale">>, "open", "rows"),
      Get(<<"resale", "mine">>, "user", "rows"),
      Post(<<"resale">>, "user", {"ticketCode", "askKobo"}, {}),
      Delete(<<"resale", ":id">>, "user"),
      Post(<<"resale", ":id", "buy">>, "user", {}, {})>>

AgentsController ==
    <<Get(Me \o <<"agent", "sales">>, "user", "object"),
      Get(<<"admin", "agents">>, "admin", "rows"),
      Post(<<"admin", "agents">>, "admin", {"email"}, {"commissionBps"}),
      Delete(<<"admin", "agents", ":id">>, "admin")>>

CorporateController ==
    <<Get(<<"corporate-accounts", "mine">>, "user", "rows"),
      Post(<<"corporate-accounts", ":id", "members">>, "user", {"email"},
           {"role", "perOrderLimitKobo"}),
      Get(<<"corporate-accounts", ":id", "invoice">>, "user", "object"),
      Post(<<"corporate-accounts", ":id", "settle">>, "user", {}, {}),
      Get(<<"admin", "corporate-accounts">>, "admin", "rows"),
      Post(<<"admin", "corporate-accounts">>, "admin", {"name", "billingEmail", "adminEmail"},
           {"creditLimitKobo"})>>

OAuthController ==
    RowsOf("oauth-clients", {"name", "scopes"}, {"redirectUris"}) \o RowOf("oauth-clients")
        \o <<On("GET", <<"oauth", "authorize">>, "open", {"client_id", "redirect_uri", "scope"}, {},
                "object"),
             Post(<<"oauth", "authorize", "grant">>, "user",
                  {"client_id", "redirect_uri", "scope"}, {}),
             Post(<<"oauth", "token">>, "open", {"grant_type", "client_id", "client_secret"},
                  {"scope", "code", "redirect_uri"}),
             Get(<<"oauth", "v1", "me">>, "oauth", "object")>>

(* A host that nobody has claimed is answered with nothing.                *)
WhitelabelController ==
    <<Get(<<"whitelabel", "by-slug", ":slug">>, "open", "object"),
      On("GET", <<"whitelabel", "resolve">>, "open", {"host"}, {}, "nothing"),
      Post(Dash \o <<"custom-domain">>, "member", {"customDomain"}, {"brandColor"})>>

PricingController ==
    LET rules == Dash \o <<"ticket-types", ":id", "pricing-rules">> IN
    <<Get(rules, "member", "rows"),
      Post(rules, "member", {"soldPercentThreshold", "priceAdjustmentBps"}, {}),
      Delete(rules \o <<":id">>, "member")>>

StreamingController ==
    <<Get(<<"tickets", ":id", "playback">>, "open", "object"),
      Post(Dash \o <<"events", ":slug", "stream">>, "member", {}, {"streamUrl", "isLive"})>>

SupportController == <<Post(Me \o <<"support">>, "user", {"message"}, {"history"})>>

NftController ==
    <<Get(<<"tickets", ":id", "metadata.json">>, "open", "object"),
      Get(<<"tickets", ":id", "collectible">>, "user", "object"),
      Post(<<"tickets", ":id", "claim-nft">>, "user", {"wallet"}, {})>>

DevicesController ==
    <<Post(Me \o <<"devices">>, "user", {"token", "platform"}, {}),
      Delete(Me \o <<"devices", ":id">>, "user")>>

AuditController ==
    <<On("GET", <<"admin", "audit-log">>, "admin", {}, {"action", "actorUserId", "take"}, "rows")>>

SecurityController ==
    <<Post(<<"auth", "password-reset", "request">>, "open", {"email"}, {}),
      Post(<<"auth", "password-reset", "confirm">>, "open", {"token", "newPassword"}, {}),
      On("GET", <<"auth", "verify-email", "confirm">>, "open", {"token"}, {}, "object"),
      Get(Me \o <<"security">>, "user", "object"),
      Post(Me \o <<"security", "email-verify", "request">>, "user", {}, {}),
      Post(Me \o <<"security", "2fa", "setup">>, "user", {}, {}),
      Post(Me \o <<"security", "2fa", "enable">>, "user", {"code"}, {}),
      Post(Me \o <<"security", "2fa", "disable">>, "user", {"password"}, {})>>

PrivacyController ==
    <<Get(Me \o <<"data-export">>, "user", "object"),
      On("DELETE", Me \o <<"account">>, "user", {"password"}, {}, "object")>>

-------------------------------------------------------------------------------
(* All routes, in the order of the modules of the application.             *)
ApiRoutes ==
    HealthController \o AuthController \o SessionsController \o SocialAuthController
        \o OrganizersController \o EventsController \o OrdersController \o TicketsController
        \o WebhooksController \o DashboardController \o RefundsController \o PayoutsController
        \o ApiKeysController \o WebhookEndpointsController \o WebhookDeliveriesController
        \o AccountController \o AdminController \o TeamController \o PromoCodesController
        \o BusesController \o WalletController \o SeatingController \o AddOnsController
        \o AffiliateController \o BroadcastsController \o HotelsController \o FlightsController
        \o BookingsController \o LoyaltyController \o VouchersController \o ResaleController
        \o AgentsController \o CorporateController \o OAuthController \o WhitelabelController
        \o PricingController \o StreamingController \o SupportController \o NftController
        \o DevicesController \o AuditController \o SecurityController \o PrivacyController

(* The words that paths are made of: a chosen name may be one of them.     *)
Words == (UNION {ToSet(ApiRoutes[i].path) : i \in DOMAIN ApiRoutes}) \ Holes

Matches(pattern, path) ==
    /\ Len(pattern) = Len(path)
    /\ \A i \in DOMAIN path : pattern[i] \in Holes \cup {path[i]}

(* The path with its holes filled: name for chosen names.                  *)
Filled(path, name) ==
    [i \in DOMAIN path |->
        IF path[i] = ":slug" THEN name ELSE IF path[i] = ":id" THEN "*" ELSE path[i]]

(* The first route that matches, 0 for none.                               *)
Dispatch(verb, path) ==
    SelectInSeq(ApiRoutes, LAMBDA r : r.verb = verb /\ Matches(r.path, path))

(* Who passes a guard with the token that comes along; which organizers a  *)
(* user belongs to and whether the mail is verified is left open.          *)
HasUser(token) == token # "none"
IsAdmin(token) == token = "admin"
Passes(guard, token) ==
    \/ guard \in {"open", "optional"}
    \/ guard \in {"user", "verified", "member"} /\ HasUser(token)
    \/ guard = "admin" /\ IsAdmin(token)

(* The validation of a body: every field needed, no field unknown.         *)
Accepts(route, sent, maybe) ==
    /\ route.needs \subseteq sent
    /\ sent \cup maybe \subseteq route.needs \cup route.may
================================================================================
