----------------------------- MODULE WalletLink -----------------------------
(***************************************************************************)
(* Which account the browser wallet acts for: the session of the page      *)
(* (WalletShell), the recovery phrase held in memory (wallet-vault.ts) and *)
(* the WalletConnect provider (wallet-connect.ts).                         *)
(*                                                                         *)
(* The session is state of a mounted page and is lost when the page is     *)
(* left; phrase and provider are variables of their modules and live until *)
(* a reload.  Every way of opening a session awaits something (a key       *)
(* derivation, an extension, a phone), is not cancelled by the others nor  *)
(* by leaving the page, and ends by writing all three.                     *)
(***************************************************************************)
EXTENDS Naturals

CONSTANTS
    Jobs,      \* attempts to open a session, each made at most once
    Phrases,   \* recovery phrases
    Links,     \* accounts a phone can link
    MaxPages,  \* bound: how often the wallet page is opened
    NoJob, NoPhrase, NoLink

ASSUME PageAssumption == MaxPages \in Nat
ASSUME NamesAssumption ==
    NoJob \notin Jobs /\ NoPhrase \notin Phrases /\ NoLink \notin Links

Local(p) == [kind |-> "local", of |-> p]
Linked(l) == [kind |-> "walletconnect", of |-> l]
Other(k) == [kind |-> k, of |-> NoPhrase]
NoSession == [kind |-> "none", of |-> NoPhrase]
Sessions ==
    {Local(p) : p \in Phrases} \union {Linked(l) : l \in Links}
        \union {Other(k) : k \in {"injected", "metamask", "watch"}} \union {NoSession}

VARIABLES
    built,      \* the build carries the WalletConnect project id
    config,     \* the project id: not asked for, "loading", "known", "missing"
    page,       \* the wallet page on screen: how many were opened so far
    session,    \* its session ...
    pairing,    \* ... and the pairing it shows a QR code for
    listening,  \* ... and the provider whose events it gets
    vault,      \* the phrase sealed in localStorage
    unlocked,   \* unlockedMnemonic
    provider,   \* WalletConnect: the provider, named by the job that made it
    generation, \* ... and the number that tickets are compared with
    account,    \* the account of each provider
    kept,       \* the link the library keeps in localStorage
    job,        \* each attempt: kind, stage, the page it began on, its ticket
    crossed     \* history, since the last lock: an attempt has acted over another
                \* session or page, or the page was left with the phrase

memory == <<unlocked, provider, generation, account>>
onPage == <<session, pairing, listening>>
linkVars == <<built, config, page, onPage, vault, memory, kept, job, crossed>>

Kinds == {"none", "unlock", "seal", "ask", "restore", "pair"}
Stages == {"unused", "deriving", "asking", "leaving", "creating", "connecting", "over"}

LinkTypeOK ==
    /\ built \in BOOLEAN /\ config \in {"absent", "loading", "known", "missing"}
    /\ page \in 0 .. MaxPages /\ session \in Sessions
    /\ pairing \in Jobs \union {NoJob} /\ listening \in Jobs \union {NoJob}
    /\ vault \in Phrases \union {NoPhrase} /\ unlocked \in Phrases \union {NoPhrase}
    /\ provider \in Jobs \union {NoJob} /\ generation \in Nat
    /\ account \in [Jobs -> Links \union {NoLink}] /\ kept \in Links \union {NoLink}
    /\ crossed \in BOOLEAN
    /\ \A j \in Jobs :
        /\ job[j].kind \in Kinds /\ job[j].stage \in Stages
        /\ job[j].page \in 0 .. MaxPages /\ job[j].ticket \in 0 .. generation
        /\ job[j].result \in Sessions

NewJob == [kind |-> "none", stage |-> "unused", page |-> 0, ticket |-> 0, result |-> NoSession]
Ended == [NewJob EXCEPT !.stage = "over"]   \* nothing is left of it

LinkInit ==
    /\ built \in BOOLEAN /\ config = IF built THEN "known" ELSE "absent"
    /\ page = 0 /\ session = NoSession /\ pairing = NoJob /\ listening = NoJob
    /\ vault \in Phrases \union {NoPhrase} /\ kept \in Links \union {NoLink}
    /\ unlocked = NoPhrase /\ provider = NoJob /\ generation = 0
    /\ account = [j \in Jobs |-> NoLink]
    /\ job = [j \in Jobs |-> NewJob]
    /\ crossed = FALSE

-----------------------------------------------------------------------------
Begin(j, kind, stage, ticket, result) ==
    /\ job[j].stage = "unused" /\ page > 0 /\ session = NoSession
    /\ job' = [job EXCEPT ![j] = [kind |-> kind, stage |-> stage, page |-> page,
                                  ticket |-> ticket, result |-> result]]

Advance(j, stage) ==
    job' = [job EXCEPT ![j] = IF stage = "over" THEN Ended ELSE [@ EXCEPT !.stage = stage]]

\* setSession of the page the attempt began on: nothing, once that is gone.
SetSession(j, s) ==
    /\ session' = IF job[j].page = page THEN s ELSE session
    /\ listening' = IF job[j].page # page THEN listening
                    ELSE IF s.kind = "walletconnect" THEN provider' ELSE NoJob
    /\ crossed' = (crossed \/ job[j].page # page \/ session # NoSession)

\* What restoreWalletConnect does in the first turn of a page: a provider with
\* an account is taken as it is; without a project id nothing is restored.
Restore(j, p, q, configured) ==
    IF p # NoJob /\ account[p] # NoLink /\ configured
    THEN /\ session' = Linked(account[p]) /\ listening' = p
         /\ job' = q
    ELSE /\ session' = NoSession /\ listening' = NoJob
         /\ IF configured
            THEN /\ q[j].stage = "unused"
                 /\ job' = [q EXCEPT ![j] =
                        [kind |-> "restore", stage |-> "creating", page |-> page',
                         ticket |-> generation', result |-> NoSession]]
            ELSE job' = q

\* The page is opened, or left and opened again.  The first call of
\* ensureWalletConnectProjectId asks the API; the one restoreWalletConnect
\* makes finds configLoaded set, and no id yet.
Open(j) ==
    /\ page < MaxPages /\ page' = page + 1
    /\ config' = IF config = "absent" THEN "loading" ELSE config
    /\ generation' = generation
    /\ Restore(j, provider, job, config = "known")
    /\ pairing' = NoJob
    /\ crossed' = (crossed \/ unlocked # NoPhrase)
    /\ UNCHANGED <<built, vault, unlocked, provider, account, kept>>

\* A reload: what the modules held is gone, localStorage is not.
Reload(j) ==
    /\ page \in 1 .. MaxPages - 1 /\ page' = page + 1
    /\ config' = IF built THEN "known" ELSE "loading"
    /\ generation' = 0 /\ provider' = NoJob /\ unlocked' = NoPhrase
    /\ account' = [i \in Jobs |-> NoLink]
    /\ Restore(j, NoJob,
               [i \in Jobs |-> IF job[i].stage = "unused" THEN NewJob ELSE Ended], built)
    /\ pairing' = NoJob /\ crossed' = FALSE
    /\ UNCHANGED <<built, vault, kept>>

ProjectIdArrives ==
    /\ config = "loading"
    /\ config' \in {"known", "missing"}
    /\ UNCHANGED <<built, page, onPage, vault, memory, kept, job, crossed>>

-----------------------------------------------------------------------------
\* unlock: the record is read at the click, the key derived afterwards.
StartUnlock(j) ==
    /\ vault # NoPhrase
    /\ Begin(j, "unlock", "deriving", generation, Local(vault))
    /\ UNCHANGED <<built, config, page, onPage, vault, memory, kept, crossed>>

\* finishCreate and finishImport.
StartSeal(j, p) ==
    /\ Begin(j, "seal", "deriving", generation, Local(p))
    /\ UNCHANGED <<built, config, page, onPage, vault, memory, kept, crossed>>

\* The key is there: the phrase is remembered whatever happened meanwhile.
KeyDerived(j) ==
    /\ job[j].stage = "deriving"
    /\ unlocked' = job[j].result.of
    /\ vault' = IF job[j].kind = "seal" THEN job[j].result.of ELSE vault
    /\ SetSession(j, job[j].result)
    /\ Advance(j, "over")
    /\ UNCHANGED <<built, config, page, pairing, provider, generation, account, kept>>

\* connectInjected and connectSectoolMetaMask.
StartAsking(j, kind) ==
    /\ kind = "metamask" =>
        ~ \E i \in Jobs : job[i].stage = "asking" /\ job[i].page = page
                          /\ job[i].result = Other(kind)
    /\ Begin(j, "ask", "asking", generation, Other(kind))
    /\ UNCHANGED <<built, config, page, onPage, vault, memory, kept, crossed>>

WalletAnswers(j) ==
    /\ job[j].stage = "asking"
    /\ SetSession(j, job[j].result)
    /\ Advance(j, "over")
    /\ UNCHANGED <<built, config, page, pairing, vault, memory, kept>>

\* A wrong password, a refusal: an error is shown.
AttemptFails(j) ==
    /\ job[j].stage \in {"deriving", "asking"}
    /\ Advance(j, "over")
    /\ UNCHANGED <<built, config, page, onPage, vault, memory, kept, crossed>>

AddWatch ==
    /\ page > 0 /\ session = NoSession
    /\ session' = Other("watch")
    /\ UNCHANGED <<built, config, page, pairing, listening, vault, memory, kept, job, crossed>>

SwitchAccount ==
    /\ session.kind = "local" /\ unlocked # NoPhrase
    /\ session' = Local(unlocked)
    /\ UNCHANGED <<built, config, page, pairing, listening, vault, memory, kept, job, crossed>>

-----------------------------------------------------------------------------
\* Disconnecting provider p ends its link, of which other providers hear nothing.
Kept(p) == IF p # NoJob /\ account[p] # NoLink THEN NoLink ELSE kept
Without(p) == [i \in Jobs |-> IF i = p THEN NoLink ELSE account[i]]

\* connectWalletConnect, to the first await of startWalletConnectPairing.
StartPairing(j) ==
    /\ pairing = NoJob /\ config = "known"
    /\ generation' = generation + 1
    /\ provider' = NoJob
    /\ Begin(j, "pair", IF provider = NoJob THEN "creating" ELSE "leaving",
             generation', NoSession)
    /\ kept' = Kept(provider) /\ account' = Without(provider)
    /\ pairing' = j
    /\ UNCHANGED <<built, config, page, session, listening, vault, unlocked, crossed>>

\* The pairing goes on unless a later one, a cancel or a disconnect came.
PreviousLeft(j) ==
    /\ job[j].stage = "leaving"
    /\ Advance(j, IF job[j].ticket = generation THEN "creating" ELSE "over")
    /\ UNCHANGED <<built, config, page, onPage, vault, memory, kept, crossed>>

\* A provider is created with the link the library kept, and given back when
\* its ticket is no longer the one.
ProviderCreated(j) ==
    /\ job[j].stage = "creating"
    /\ IF job[j].ticket # generation
       THEN /\ kept' = NoLink
            /\ Advance(j, "over")
            /\ pairing' = IF pairing = j THEN NoJob ELSE pairing
            /\ UNCHANGED <<provider, account, session, listening, crossed>>
       ELSE /\ provider' = j
            /\ account' = [account EXCEPT ![j] = kept]
            /\ Advance(j, IF job[j].kind = "pair" THEN "connecting" ELSE "over")
            /\ IF job[j].kind = "restore" /\ kept # NoLink
               THEN SetSession(j, Linked(kept))
               ELSE /\ crossed' = (crossed \/ job[j].page # page)
                    /\ UNCHANGED <<session, listening>>
            /\ UNCHANGED <<pairing, kept>>
    /\ UNCHANGED <<built, config, page, vault, unlocked, generation>>

\* A bug to try: the ticket is not compared again when the phone has answered.
PhoneApprovesAnyway(j, l) ==
    /\ job[j].stage = "connecting"
    /\ kept' = l /\ account' = [account EXCEPT ![j] = l]
    /\ Advance(j, "over")
    /\ provider' = provider /\ SetSession(j, Linked(l))
    /\ pairing' = IF pairing = j THEN NoJob ELSE pairing
    /\ UNCHANGED <<built, config, page, vault, unlocked, generation>>

\* The phone approves, maybe after the user has cancelled.  The provider tells
\* its listeners of the account it has got, whoever made it connect.
PhoneApproves(j, l) ==
    /\ job[j].stage = "connecting"
    /\ kept' = l /\ account' = [account EXCEPT ![j] = l]
    /\ Advance(j, "over")
    /\ provider' = provider
    /\ IF job[j].ticket = generation /\ job[j].page = page
       THEN SetSession(j, Linked(l))
       ELSE /\ session' = IF listening = j THEN Linked(l) ELSE session
            /\ UNCHANGED <<listening, crossed>>
    /\ pairing' = IF pairing = j THEN NoJob ELSE pairing
    /\ UNCHANGED <<built, config, page, vault, unlocked, generation>>

\* The library fails while it creates or connects, or the phone refuses.
PairingFails(j) ==
    /\ job[j].stage \in {"creating", "connecting"}
    /\ Advance(j, "over")
    /\ pairing' = IF pairing = j THEN NoJob ELSE pairing
    /\ UNCHANGED <<built, config, page, session, listening, vault, memory, kept, crossed>>

-----------------------------------------------------------------------------
\* A bug to try: tickets are numbered from the start again.
NumberAfresh ==
    /\ generation' = 0 /\ provider' = NoJob
    /\ kept' = Kept(provider) /\ account' = Without(provider)

\* disconnectWalletConnect, and cancelWalletConnectPairing.
DropProvider ==
    /\ generation' = generation + 1 /\ provider' = NoJob
    /\ kept' = Kept(provider) /\ account' = Without(provider)

CancelPairing ==
    /\ pairing # NoJob /\ session = NoSession
    /\ DropProvider
    /\ pairing' = NoJob
    /\ UNCHANGED <<built, config, page, session, listening, vault, unlocked, job, crossed>>

\* A bug to try: the session is closed and the phrase kept.
LockScreenOnly ==
    /\ session # NoSession
    /\ IF session.kind = "walletconnect" THEN DropProvider
       ELSE UNCHANGED <<generation, provider, kept, account>>
    /\ session' = NoSession /\ listening' = NoJob
    /\ crossed' = FALSE
    /\ UNCHANGED <<built, config, page, pairing, vault, unlocked, job>>

\* The Lock button.
Lock ==
    /\ session # NoSession
    /\ IF session.kind = "walletconnect" THEN DropProvider
       ELSE UNCHANGED <<generation, provider, kept, account>>
    /\ unlocked' = NoPhrase
    /\ session' = NoSession /\ listening' = NoJob
    /\ crossed' = FALSE
    /\ UNCHANGED <<built, config, page, pairing, vault, job>>

\* Five minutes without a click; only a local session has the timer.
AutoLock ==
    /\ session.kind = "local"
    /\ unlocked' = NoPhrase
    /\ session' = NoSession /\ crossed' = FALSE
    /\ UNCHANGED <<built, config, page, pairing, listening, vault,
                   provider, generation, account, kept, job>>

\* Disconnect in the settings, of the app the session came from.
Unlink ==
    /\ session.kind = "walletconnect"
    /\ DropProvider
    /\ session' = NoSession /\ listening' = NoJob
    /\ UNCHANGED <<built, config, page, pairing, vault, unlocked, job, crossed>>

\* The phone ends the link, or leaves it no account, which ends no pairing.
PhoneDisconnects ==
    /\ listening # NoJob /\ account[listening] # NoLink
    /\ session' = NoSession /\ listening' = NoJob /\ pairing' \in {NoJob, pairing}
    /\ kept' = NoLink
    /\ account' = [i \in Jobs |-> IF account[i] = account[listening] THEN NoLink ELSE account[i]]
    /\ UNCHANGED <<built, config, page, vault, unlocked, provider, generation, job, crossed>>

\* It changes its account to l.
AccountsChanged(l) ==
    /\ listening # NoJob /\ account[listening] # NoLink
    /\ session' = Linked(l) /\ kept' = l
    /\ account' = [i \in Jobs |-> IF account[i] = account[listening] THEN l ELSE account[i]]
    /\ UNCHANGED <<built, config, page, pairing, listening, vault, unlocked,
                   provider, generation, job, crossed>>

\* Attempts have names and nothing else: which is taken does not matter.
Fresh(j) ==
    LET unused == {i \in Jobs : job[i].stage = "unused"}
    IN  j = CHOOSE i \in Jobs : unused # {} => i \in unused

LinkNext ==
    \/ ProjectIdArrives \/ AddWatch \/ SwitchAccount
    \/ CancelPairing \/ Lock \/ AutoLock \/ Unlink \/ PhoneDisconnects
    \/ \E l \in Links : AccountsChanged(l)
    \/ \E j \in Jobs :
        \/ Fresh(j) /\ (Open(j) \/ Reload(j) \/ StartUnlock(j) \/ StartPairing(j))
        \/ Fresh(j) /\ \E p \in Phrases : StartSeal(j, p)
        \/ Fresh(j) /\ \E kind \in {"injected", "metamask"} : StartAsking(j, kind)
        \/ KeyDerived(j) \/ WalletAnswers(j) \/ AttemptFails(j)
        \/ PreviousLeft(j) \/ ProviderCreated(j) \/ PairingFails(j)
        \/ \E l \in Links : PhoneApproves(j, l)

LinkSpec == LinkInit /\ [][LinkNext]_linkVars

-----------------------------------------------------------------------------
\* The phrase in memory is that of the session on screen, unless an attempt
\* ended over another session or page, or the page was left unlocked: only
\* then can a transaction be signed for an account other than the one shown,
\* or a phrase stay in memory without the timer that forgets it.
PhraseIsOnScreen == unlocked = NoPhrase \/ session = Local(unlocked) \/ crossed

\* The provider that signs for a WalletConnect session has the account the
\* session shows: a cancelled, overtaken or disconnected pairing leaves none
\* without its provider, but one of a page that was left can.
LinkedSessionSigns ==
    session.kind = "walletconnect" =>
        \/ provider # NoJob /\ account[provider] = session.of
        \/ crossed

=============================================================================
