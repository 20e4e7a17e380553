----------------------------- MODULE ClientsMC -----------------------------
(***************************************************************************)
(* An instance of Clients for TLC.  Its parts share no variable, so a      *)
(* behaviour moves one of them while the others have nothing left to do.   *)
(***************************************************************************)
EXTENDS WorkspaceMC, Clients

CONSTANTS j1, j2, j3, w1, w2, l1, l2,
          n1, n2, a1, s1, s2, t1, t2, t3, b1, b2, g1, g2, e1, e2, d1, d2,
          evm1, evm2, coin, v1, v2, k1, k2, u1, h1, h2, extension, restoring

ThreeJobs    == {j1, j2, j3}
TwoPhrases   == {w1, w2}
TwoLinks     == {l1, l2}
TwoNetworks  == {n1, n2}
OneAccount   == {a1}
TwoSends     == {s1, s2}
ThreeTokens  == {t1, t2, t3}
TwoTabs      == {b1, b2}
TwoScopes    == {g1, g2}
TwoEntries   == {e1, e2}
TwoVerdicts  == {d1, d2}
ThreeChains  == {evm1, evm2, coin}
CoinChain    == {coin}
TwoAttempts  == {v1, v2}
TwoClicks    == {k1, k2}
OneCut       == {u1}
TwoHolders   == {h1, h2}

\* What is alike may change places; as one part moves at a time, so may a pair of
\* one part together with pairs of the others.
With(f, x, a, b) == IF f[x] = x THEN a :> a @@ b :> b ELSE a :> b @@ b :> a
Alike == {p @@ q @@ With(p, w1, e1, e2) @@ With(p, w1, k1, k2)
                 @@ With(q, l1, h1, h2) @@ With(q, l1, v1, v2) :
          p \in Permutations(TwoPhrases), q \in Permutations(TwoLinks)}

workspaceIdle ==
    /\ role = [u \in Users |-> "owner"]
    /\ apiKeys = {} /\ orgs = {} /\ billed = {} /\ failures = 0
    /\ publicUrl = [p \in ApiProcesses |-> "environment"]
    /\ step = [c \in Callers |-> "done"] /\ result = [c \in Callers |-> "nothing"]
    /\ actor = [c \in Callers |-> NoUser] /\ target = [c \in Callers |-> NoUser]
    /\ wanted = [c \in Callers |-> "none"]
    /\ unseated = {} /\ tooLate = {} /\ applied = {} /\ overtaken = {}

linkIdle ==
    /\ built = FALSE /\ config = "known" /\ page = 0 /\ session = NoSession
    /\ pairing = NoJob /\ listening = NoJob /\ vault = NoPhrase /\ kept = NoLink
    /\ unlocked = NoPhrase /\ provider = NoJob /\ generation = 0
    /\ account = [j \in Jobs |-> NoLink]
    /\ job = [j \in Jobs |-> Ended] /\ crossed = FALSE

balancesIdle ==
    /\ context = <<n1, a1>> /\ holdings = {}
    /\ started = MaxRefreshes /\ inFlight = {} /\ answered = 0
    /\ asked = MaxChecks /\ checking = {} /\ verdict = 0 /\ note = 0 /\ checksMet = FALSE

sendIdle ==
    /\ walletKind = "watch" /\ panel = MaxPanels
    /\ phase = "form" /\ checked = FALSE /\ hash = NoSend
    /\ send = [s \in Sends |-> [stage |-> "over", panel |-> 0]]
    /\ chain = [s \in Sends |-> "none"] /\ twice = FALSE

browserIdle ==
    /\ storedToken = NoToken /\ sessionToken = NoToken /\ signedInAs = NoToken
    /\ cookie = NoToken /\ issued = {} /\ asking = {} /\ sent = MaxRequests
    /\ lostLate = FALSE

readsIdle ==
    /\ readPage = "hub" /\ client = 1 /\ query = "all" /\ clicks = 0 /\ made = 0
    /\ creating = {} /\ reads = {} /\ numbered = MaxReads /\ refused = MaxReads
    /\ onScreen = Blank /\ told = 0 /\ mixedUp = {}

listsIdle ==
    /\ stored = [s \in Scopes |-> [k \in ListKinds |-> {}]] /\ scope = [t \in Tabs |-> g1]
    /\ opened = [t \in Tabs |-> "none"] /\ copy = [t \in Tabs |-> {}] /\ awaited = {}
    /\ saved = stored /\ clashed = FALSE /\ saves = MaxSaves /\ visits = MaxVisits

pageIdle ==
    /\ verdictShown = NoVerdict /\ sigValid = NoVerdict /\ lookups = {}
    /\ lookedUp = MaxLookups /\ loading = FALSE /\ notice = FALSE /\ unsure = {}

formIdle ==
    /\ place = <<coin, FirstNetwork>> /\ assetType = "native" /\ contractOf = NoPlace
    /\ assetsOf = NoPlace /\ chainsKnown = TRUE /\ listing = {}
    /\ listsAsked = MaxLists /\ stale = {}

labIdle ==
    /\ scenarioId = "phantom_event" /\ labRuns = {} /\ starts = MaxStarts
    /\ scenario = NoScenario /\ source = "none" /\ visible = 0
    /\ running = FALSE /\ ticking = FALSE /\ calm = FALSE /\ startedOver = FALSE

ssoIdle ==
    /\ enabled = FALSE /\ hosted = FALSE
    /\ offer = [a \in Attempts |-> "none"] /\ leg = [a \in Attempts |-> "page"]
    /\ jar = NoAttempt /\ carried = [a \in Attempts |-> NoAttempt]
    /\ late = {} /\ spent = {} /\ displaced = {} /\ denied = {} /\ troubles = 0

signerIdle ==
    /\ selected = [p \in Providers |-> Nothing] /\ listenedTo = {}
    /\ active = Nothing /\ signer = Nothing /\ wallet = Nothing
    /\ ready = FALSE /\ busy = FALSE /\ overwritten = FALSE
    /\ joinAt = [j \in Joins |-> "over"] /\ via = [j \in Joins |-> Injected]
    /\ picked = [j \in Joins |-> Nothing]
    /\ cutAt = [k \in Cuts |-> "over"] /\ cutOf = [k \in Cuts |-> Nothing]
    /\ linked = {} /\ saving = {} /\ unsaved = {} /\ missed = {} /\ events = 0

walletIdle == linkIdle /\ balancesIdle /\ sendIdle
consoleIdle == browserIdle /\ readsIdle /\ listsIdle
publicIdle == pageIdle /\ formIdle /\ labIdle
entryIdle == ssoIdle /\ signerIdle

Init ==
    \/ WorkspaceInit /\ walletIdle /\ consoleIdle /\ publicIdle /\ entryIdle
    \/ workspaceIdle /\ consoleIdle /\ publicIdle /\ entryIdle
        /\ \/ LinkInit /\ balancesIdle /\ sendIdle
           \/ linkIdle /\ BalancesInit /\ sendIdle
           \/ linkIdle /\ balancesIdle /\ SendInit
    \/ workspaceIdle /\ walletIdle /\ publicIdle /\ entryIdle
        /\ \/ BrowserInit /\ readsIdle /\ listsIdle
           \/ browserIdle /\ ReadsInit /\ listsIdle
           \/ browserIdle /\ readsIdle /\ ListsInit
    \/ workspaceIdle /\ walletIdle /\ consoleIdle /\ entryIdle
        /\ \/ PageInit /\ formIdle /\ labIdle
           \/ pageIdle /\ FormInit /\ labIdle
           \/ pageIdle /\ formIdle /\ LabInit
    \/ workspaceIdle /\ walletIdle /\ consoleIdle /\ publicIdle
        /\ \/ SsoInit /\ signerIdle
           \/ ssoIdle /\ SignerInit

walletVars == <<linkVars, balanceVars, checkVars, sendVars>>
consoleVars == <<browserVars, readVars, listVars>>
publicVars == <<pageVars, formVars, labVars>>
entryVars == <<ssoVars, signerVars>>

\* Who has nothing left to do is not asked.
Next ==
    \/ /\ ~workspaceIdle /\ WorkspaceNext
       /\ UNCHANGED <<walletVars, consoleVars, publicVars, entryVars>>
    \/ /\ ~walletIdle
       /\ UNCHANGED <<workspaceVars, consoleVars, publicVars, entryVars>>
       /\ \/ ~linkIdle /\ LinkNext /\ UNCHANGED <<balanceVars, checkVars, sendVars>>
          \/ ~balancesIdle /\ BalancesNext /\ UNCHANGED <<linkVars, sendVars>>
          \/ ~sendIdle /\ SendNext /\ UNCHANGED <<linkVars, balanceVars, checkVars>>
    \/ /\ ~consoleIdle
       /\ UNCHANGED <<workspaceVars, walletVars, publicVars, entryVars>>
       /\ \/ ~browserIdle /\ BrowserNext /\ UNCHANGED <<readVars, listVars>>
          \/ ~readsIdle /\ ReadsNext /\ UNCHANGED <<browserVars, listVars>>
          \/ ~listsIdle /\ ListsNext /\ UNCHANGED <<browserVars, readVars>>
    \/ /\ ~publicIdle
       /\ UNCHANGED <<workspaceVars, walletVars, consoleVars, entryVars>>
       /\ \/ ~pageIdle /\ PageNext /\ UNCHANGED <<formVars, labVars>>
          \/ ~formIdle /\ FormNext /\ UNCHANGED <<pageVars, labVars>>
          \/ ~labIdle /\ LabNext /\ UNCHANGED <<pageVars, formVars>>
    \/ /\ ~entryIdle
       /\ UNCHANGED <<workspaceVars, walletVars, consoleVars, publicVars>>
       /\ \/ ~ssoIdle /\ SsoNext /\ UNCHANGED signerVars
          \/ ~signerIdle /\ SignerNext /\ UNCHANGED ssoVars

Spec == Init /\ [][Next]_<<workspaceVars, walletVars, consoleVars, publicVars, entryVars>>

=============================================================================
