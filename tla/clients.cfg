\* Two requests to two workspaces; a wallet page opened twice,
\* three attempts to open a session; two refreshes and two payment checks;
\* two clicks in two send panels; four requests of a browser session; three
\* reads of a page; two pages opened in two tabs; three lookups; three networks
\* visited in a claim; three runs of the lab; two sign-ins by one cookie; the
\* wallet of open-trust connected up to three times.  All of them end, so the
\* system may stop.
SPECIFICATION Spec
CONSTANTS
    c1 = c1  c2 = c2  ua = ua  ub = ub  uc = uc  p1 = p1  p2 = p2
    j1 = j1  j2 = j2  j3 = j3  w1 = w1  w2 = w2  l1 = l1  l2 = l2
    n1 = n1  n2 = n2  a1 = a1  s1 = s1  s2 = s2  t1 = t1  t2 = t2  t3 = t3
    Callers <- TwoCallers
    Users <- ThreeUsers
    Actors <- TwoActors
    Org <- UserOrgs
    Founders <- TwoFounders
    ApiProcesses <- TwoProcesses
    MaxFailures = 1
    NoUser = NoUser
    Jobs <- ThreeJobs
    Phrases <- TwoPhrases
    Links <- TwoLinks
    MaxPages = 2
    NoJob = NoJob
    NoPhrase = NoPhrase
    NoLink = NoLink
    Networks <- TwoNetworks
    Accounts <- OneAccount
    MaxRefreshes = 2
    MaxChecks = 2
    Sends <- TwoSends
    MaxPanels = 2
    NoSend = NoSend
    Tokens <- ThreeTokens
    b1 = b1  b2 = b2  g1 = g1  g2 = g2  e1 = e1  e2 = e2
    MaxRequests = 4
    MaxReads = 3
    MaxClients = 2
    MaxMade = 2
    Tabs <- TwoTabs
    Scopes <- TwoScopes
    Entries <- TwoEntries
    MaxSaves = 3
    MaxVisits = 2
    NoToken = NoToken
    d1 = d1  d2 = d2  evm1 = evm1  evm2 = evm2  coin = coin
    Verdicts <- TwoVerdicts
    NoVerdict = NoVerdict
    MaxLookups = 3
    ChainIds <- ThreeChains
    CoinOnly <- CoinChain
    NetworkIds = {"mainnet", "testnet"}
    FirstNetwork = "mainnet"
    NoPlace = NoPlace
    MaxLists = 3
    Unread = Unread
    NoScenario = NoScenario
    MaxStarts = 3
    v1 = v1  v2 = v2  k1 = k1  k2 = k2  u1 = u1  h1 = h1  h2 = h2
    extension = extension  restoring = restoring
    Attempts <- TwoAttempts
    NoAttempt = NoAttempt
    MaxTroubles = 2
    Clicks <- TwoClicks
    Cuts <- OneCut
    Holders <- TwoHolders
    Injected = extension
    Restoring = restoring
    Nothing = Nothing
    MaxEvents = 1
SYMMETRY Alike
INVARIANTS
    ClientsTypeOK
    OwnerlessNeedsOverlap
    UnseatedChangesNothing
    PhraseIsOnScreen
    LinkedSessionSigns
    ShownTogetherBelongs
    OneSendPerReview
    SessionsHold
    ConsoleIsCurrent
    PublicPagesAgree
CHECK_DEADLOCK FALSE
