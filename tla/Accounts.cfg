CONSTANTS
    Calls <- MCCalls
    Groups <- MCGroups
    MaxAtOnce = 2
    MaxFailures = 1
    People = {u1, u2, u3}
    Founder = u1
    TeamCalls = {t1, t2, t3}
    LeaveCalls = {l1}
    Signins = {s1, s2, s3}
    Issues = {issue1, issue2}
    Uses = {use1, use2}
    Tokens = {verify1, reset1, reset2, link1, code1}
    Kind <- MCKind
    Setups = {set1, set2}
    Enables = {enable1}
    Disables = {disable1}
    LogOuts = {logOut1}
    Closes = {close1}
    LockAfter = 2
    Reviews = {review1, review2}
    Publishes = {publish1}
    Edits = {edit1, edit2}
    Streams = {stream1}
    Payouts = {bank1, bank2}
    Times = {1, 2, 3}
    FirstDates <- MCDates
    Rates = {500, 800}
    DefaultRate = 800
    NoUrl = NoUrl
    BlankUrl = BlankUrl
    PhoneUsers = {p1, p2}
    Nobody = Nobody
    SignIns = {in1, in2}
    SignOuts = {out1}
    FcmTokens = 2
    WebScanners = {web1}
    AppScanners = {app1}
    Codes = {k1, k2}
    Tickets = {k1}
    Scans = {scan1, scan2, scan3}
    Nothing = Nothing
    SignUpCalls = {up1, up2}
    SocialCalls = {social1, social2}
    Identities = {google, apple}
    Referrers = {ref1}
    MailUser = MailUser
    Unset = Unset
    Tabs = {tab1, tab2}
    Toggles = {toggle1, toggle2, toggle3, toggle4}
    WebUsers = {w1, w2}
    NoOne = NoOne
    Acts = {act1, act2, act3}
    ActRows = {r1, r2}
    FormRow = r1
    NoRow = NoRow
    Registrations = {client1, client2}
    Grants = {grant1}
    Exchanges = {redeem1, redeem2}
    Issuings = {own1}
    Revocations = {drop1}
    TokenCalls = {call1, call2}
    KeyCreations = {key1}
    KeyRevocations = {dropKey1}
    KeyCalls = {keyCall1, keyCall2, keyCall3}
    ScopeSets <- MCScopeSets
    Uris = {uri1}
    GrantUsers = {buyer1}
    NoParty = NoParty
    BrowserUsers = {x1, x2}
    Window = window
    PageCalls = {page1, page2}
    GateCalls = {gate1, gate2}
    Paths = {home, team}
    NoUser = NoUser
    AppUsers = {a1, a2}
    NamedUsers = {a1}
    LogIns = {login1, login2, login3}
    LogOffs = {logoff1, logoff2}
    NoOwner = NoOwner
    s1 = s1
    s2 = s2
    s3 = s3
    issue1 = issue1
    issue2 = issue2
    use1 = use1
    use2 = use2
    set1 = set1
    set2 = set2
    enable1 = enable1
    disable1 = disable1
    logOut1 = logOut1
    close1 = close1
    verify1 = verify1
    reset1 = reset1
    reset2 = reset2
    link1 = link1
    code1 = code1
    review1 = review1
    review2 = review2
    publish1 = publish1
    edit1 = edit1
    edit2 = edit2
    stream1 = stream1
    bank1 = bank1
    bank2 = bank2
    client1 = client1
    client2 = client2
    grant1 = grant1
    redeem1 = redeem1
    redeem2 = redeem2
    own1 = own1
    drop1 = drop1
    call1 = call1
    call2 = call2
    key1 = key1
    dropKey1 = dropKey1
    keyCall1 = keyCall1
    keyCall2 = keyCall2
    keyCall3 = keyCall3
    readScope = readScope
    writeScope = writeScope
SPECIFICATION Spec
SYMMETRY CallSymmetry
INVARIANTS
    TokensUsedOnce
    OneUserPerIdentity
    ScreenShowsLast
    PushFollowsUser
    ButtonsKeepUp
    RevokedServesNobody
    GrantsShow
    ClientsKnowUser
PROPERTIES
    AdmittedOnce
    OwnersKept
    AccountKept
    ConsoleHolds
\* Every call ends.
CHECK_DEADLOCK FALSE
