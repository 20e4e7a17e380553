---------------------------- MODULE LinkedSigner ----------------------------
(***************************************************************************)
(* The wallet an administrator of open-trust has linked: LinkWallet.tsx,   *)
(* the active provider of lib/walletProvider.ts that signs for this tab,   *)
(* and the addresses linked in Postgres (api/admin/wallets.ts).            *)
(*                                                                         *)
(* A connection awaits the wallet, then the server, and only then makes    *)
(* its provider the active one and listens to it; listening never ends.     *)
(* Two connections may be under way: WalletConnect reads its configuration *)
(* before it marks the panel busy, and whichever ends unmarks it.  The     *)
(* wallets (extension and phones) are external.                            *)
(***************************************************************************)
EXTENDS Naturals, FiniteSets

CONSTANTS
    Clicks,     \* clicks on the two buttons that connect
    Cuts,       \* clicks on Unlink
    Holders,    \* addresses
    Injected,   \* the provider of the browser extension
    Restoring,  \* the connection the page tries when it opens
    Nothing,
    MaxEvents   \* bound: events of wallets, and calls that fail

Providers == {Injected} \union Clicks   \* a click pairs a phone of its own
Joins == {Restoring} \union Clicks

ASSUME JoinAssumption ==
    /\ Injected \notin Clicks /\ Restoring \notin Clicks
    /\ Nothing \notin Providers \union Holders
ASSUME EventAssumption == MaxEvents \in Nat

VARIABLES
    selected,   \* the address each wallet has selected, or Nothing
    listenedTo, \* providers the page listens to
    active,     \* activeProvider ...
    signer,     \* ... and activeAddress
    wallet,     \* the address the panel shows ...
    ready,      \* ... and whether it says "signing"
    busy,       \* the buttons are disabled
    joinAt, via, picked,  \* each connection: how far, provider, address
    cutAt, cutOf,         \* each Unlink: how far, address
    linked,     \* admin_linked_wallets
    saving,     \* addresses sent to be linked after a switch, not awaited
    missed,     \* history: providers whose event came before the page listened
    unsaved,    \* history: addresses the page cannot know to be unlinked
    overwritten,\* history: the list of links was shown over a connection
    events

walletsVars == <<selected, listenedTo>>
shownVars == <<active, signer, wallet, ready, overwritten>>
joinVars == <<busy, joinAt, via, picked>>
serverVars == <<linked, saving, unsaved>>
signerVars == <<walletsVars, shownVars, joinVars, cutAt, cutOf, serverVars,
                missed, events>>

JoinSteps == {"new", "config", "asking", "posting", "posted", "listing", "listed", "over"}

SignerTypeOK ==
    /\ selected \in [Providers -> Holders \union {Nothing}]
    /\ listenedTo \subseteq Providers
    /\ active \in Providers \union {Nothing} /\ signer \in Holders \union {Nothing}
    /\ wallet \in Holders \union {Nothing}
    /\ ready \in BOOLEAN /\ busy \in BOOLEAN /\ overwritten \in BOOLEAN
    /\ joinAt \in [Joins -> JoinSteps]
    /\ via \in [Joins -> Providers] /\ picked \in [Joins -> Holders \union {Nothing}]
    /\ cutAt \in [Cuts -> {"new", "sent", "done", "over"}]
    /\ cutOf \in [Cuts -> Holders \union {Nothing}]
    /\ linked \subseteq Holders /\ saving \subseteq Holders /\ unsaved \subseteq Holders
    /\ missed \subseteq Providers
    /\ events \in 0 .. MaxEvents

\* The extension may have an address selected, and addresses be linked already.
SignerInit ==
    /\ selected \in [Providers -> Holders \union {Nothing}]
    /\ \A p \in Clicks : selected[p] = Nothing
    /\ listenedTo = {} /\ active = Nothing /\ signer = Nothing
    /\ wallet = Nothing /\ ready = FALSE /\ busy = FALSE /\ overwritten = FALSE
    /\ joinAt = [j \in Joins |-> IF j = Restoring THEN "asking" ELSE "new"]
    /\ via = [j \in Joins |-> Injected]
    /\ picked = [j \in Joins |-> Nothing]
    /\ cutAt = [k \in Cuts |-> "new"] /\ cutOf = [k \in Cuts |-> Nothing]
    /\ linked \in SUBSET Holders /\ saving = {} /\ unsaved = {}
    /\ missed = {} /\ events = 0

-----------------------------------------------------------------------------
Reaches(j, s) == joinAt' = [joinAt EXCEPT ![j] = s]
Event == events < MaxEvents /\ events' = events + 1

\* setActiveWalletProvider, setWallet and setSigningReady in one go.
Sign(p, a) ==
    /\ active' = p /\ signer' = a /\ wallet' = a /\ ready' = TRUE
    /\ overwritten' = FALSE

SignNoMore(shown) ==
    /\ active' = Nothing /\ signer' = Nothing /\ wallet' = shown /\ ready' = FALSE
    /\ overwritten' = FALSE

\* A connection with p is between the wallet's answer and its own end.
Awaiting(p) ==
    \E j \in Joins : via[j] = p /\ joinAt[j] \in {"posting", "posted"}

-----------------------------------------------------------------------------
(* Connections.                                                            *)

Offered == (wallet = Nothing \/ ~ready) /\ ~busy

ConnectInjected(j) ==
    /\ j \in Clicks /\ joinAt[j] = "new" /\ Offered
    /\ busy' = TRUE
    /\ Reaches(j, "asking")
    /\ UNCHANGED <<walletsVars, shownVars, via, picked, cutAt, cutOf, serverVars,
                   missed, events>>

ConnectWalletConnect(j) ==
    /\ j \in Clicks /\ joinAt[j] = "new" /\ Offered
    /\ via' = [via EXCEPT ![j] = j]
    /\ Reaches(j, "config")
    /\ UNCHANGED <<walletsVars, shownVars, busy, picked, cutAt, cutOf, serverVars,
                   missed, events>>

\* A project id is there to pair with, or is not.
ReadConfig(j) ==
    /\ joinAt[j] = "config"
    /\ \/ busy' = TRUE /\ Reaches(j, "asking") /\ UNCHANGED events
       \/ Event /\ Reaches(j, "over") /\ UNCHANGED busy
    /\ UNCHANGED <<walletsVars, shownVars, via, picked, cutAt, cutOf, serverVars,
                   missed>>

\* The wallet answers with the address it has selected; asked by a click, its
\* owner may select one.
Pick(j, a) ==
    /\ joinAt[j] = "asking"
    /\ IF selected[via[j]] = Nothing THEN j \in Clicks ELSE a = selected[via[j]]
    /\ selected' = [selected EXCEPT ![via[j]] = a]
    /\ picked' = [picked EXCEPT ![j] = a]
    /\ Reaches(j, "posting")
    /\ UNCHANGED <<listenedTo, shownVars, busy, via, cutAt, cutOf, serverVars,
                   missed, events>>

\* The page that opens finds the extension locked, or what it did has failed, and
\* turns to the list of links.  A click that fails frees the buttons.
Abandon(j) ==
    /\ IF j = Restoring THEN Reaches(j, "listing") /\ UNCHANGED busy
                        ELSE Reaches(j, "over") /\ busy' = FALSE
    /\ UNCHANGED <<walletsVars, shownVars, via, picked, cutAt, cutOf, serverVars, missed>>

NotConnected(j) ==
    \/ joinAt[j] = "asking" /\ j = Restoring /\ selected[Injected] = Nothing
       /\ Abandon(j) /\ UNCHANGED events
    \/ joinAt[j] \in {"asking", "posting", "posted"} /\ Event /\ Abandon(j)

\* upsertLinkedWallet.
PostArrives(j) ==
    /\ joinAt[j] = "posting"
    /\ linked' = linked \union {picked[j]}
    /\ unsaved' = unsaved \ {picked[j]}
    /\ Reaches(j, "posted")
    /\ UNCHANGED <<walletsVars, shownVars, busy, via, picked, cutAt, cutOf, saving,
                   missed, events>>

\* applyAddress goes on, and the page listens to the provider from now on.
Connected(j) ==
    /\ joinAt[j] = "posted"
    /\ Sign(via[j], picked[j])
    /\ listenedTo' = listenedTo \union {via[j]}
    /\ busy' = (j = Restoring /\ busy)
    /\ Reaches(j, "over")
    /\ UNCHANGED <<selected, via, picked, cutAt, cutOf, serverVars, missed, events>>

\* The links, the latest first; they may be of another browser.
ReadLinks(a) ==
    /\ joinAt[Restoring] = "listing"
    /\ IF linked = {} THEN a = Nothing ELSE a \in linked
    /\ picked' = [picked EXCEPT ![Restoring] = a]
    /\ Reaches(Restoring, "listed")
    /\ UNCHANGED <<walletsVars, shownVars, busy, via, cutAt, cutOf, serverVars,
                   missed, events>>

\* The address is shown as one to reconnect, and the provider left as it is.
ShowLink ==
    /\ joinAt[Restoring] = "listed"
    /\ IF picked[Restoring] = Nothing
       THEN UNCHANGED <<wallet, ready, overwritten>>
       ELSE /\ wallet' = picked[Restoring] /\ ready' = FALSE
            /\ overwritten' = (active # Nothing)
    /\ Reaches(Restoring, "over")
    /\ UNCHANGED <<walletsVars, active, signer, busy, via, picked, cutAt, cutOf,
                   serverVars, missed, events>>

-----------------------------------------------------------------------------
(* Events of the wallets.                                                  *)

Noticed(p) ==
    missed' = IF p \in listenedTo /\ ~Awaiting(p) THEN missed \ {p}
              ELSE IF Awaiting(p) THEN missed \union {p} ELSE missed

\* accountsChanged with an address: it signs at once, and is linked without
\* waiting for it.
AccountSelected(p, a) ==
    /\ Event /\ selected[p] \notin {Nothing, a}
    /\ selected' = [selected EXCEPT ![p] = a]
    /\ Noticed(p)
    /\ IF p \in listenedTo
       THEN Sign(p, a) /\ saving' = saving \union {a}
       ELSE UNCHANGED <<shownVars, saving>>
    /\ UNCHANGED <<listenedTo, joinVars, cutAt, cutOf, linked, unsaved>>

\* accountsChanged without one.
WalletLocked(p) ==
    /\ Event /\ selected[p] # Nothing
    /\ selected' = [selected EXCEPT ![p] = Nothing]
    /\ Noticed(p)
    /\ IF p \in listenedTo THEN SignNoMore(wallet) ELSE UNCHANGED shownVars
    /\ UNCHANGED <<listenedTo, joinVars, cutAt, cutOf, serverVars>>

\* The disconnect event of any provider the page listens to ends the signing,
\* also when another provider is the active one.
ProviderGone(p) ==
    /\ Event /\ p \in listenedTo
    /\ SignNoMore(wallet)
    /\ UNCHANGED <<walletsVars, joinVars, cutAt, cutOf, serverVars, missed>>

SaveArrives(a) ==
    /\ a \in saving
    /\ saving' = saving \ {a}
    /\ \/ linked' = linked \union {a} /\ unsaved' = unsaved \ {a} /\ UNCHANGED events
       \/ Event /\ unsaved' = unsaved \union {a} /\ UNCHANGED linked
    /\ UNCHANGED <<walletsVars, shownVars, joinVars, cutAt, cutOf, missed>>

-----------------------------------------------------------------------------
(* Disconnect and Unlink, offered beside an address that signs.            *)

Disconnect ==
    /\ wallet # Nothing /\ ready
    /\ SignNoMore(Nothing)
    /\ UNCHANGED <<walletsVars, joinVars, cutAt, cutOf, serverVars, missed, events>>

AskUnlink(k) ==
    /\ cutAt[k] = "new" /\ wallet # Nothing /\ ready
    /\ cutAt' = [cutAt EXCEPT ![k] = "sent"]
    /\ cutOf' = [cutOf EXCEPT ![k] = wallet]
    /\ UNCHANGED <<walletsVars, shownVars, joinVars, serverVars, missed, events>>

\* removeLinkedWallet.  A connection of the same address may have been saved and
\* not have heard of it.
UnlinkArrives(k) ==
    /\ cutAt[k] = "sent"
    /\ linked' = linked \ {cutOf[k]}
    /\ unsaved' = unsaved \union {picked[j] : j \in {i \in Joins :
                      joinAt[i] = "posted" /\ picked[i] = cutOf[k]}}
    /\ cutAt' = [cutAt EXCEPT ![k] = "done"]
    /\ UNCHANGED <<walletsVars, shownVars, joinVars, cutOf, saving, missed, events>>

\* Whatever signs by then signs no more.
Unlinked(k) ==
    /\ cutAt[k] = "done"
    /\ SignNoMore(Nothing)
    /\ cutAt' = [cutAt EXCEPT ![k] = "over"]
    /\ UNCHANGED <<walletsVars, joinVars, cutOf, serverVars, missed, events>>

\* The request or its answer is lost: the panel keeps the address.
UnlinkFails(k) ==
    /\ cutAt[k] \in {"sent", "done"} /\ Event
    /\ unsaved' = IF cutAt[k] = "done" THEN unsaved \union {cutOf[k]} ELSE unsaved
    /\ cutAt' = [cutAt EXCEPT ![k] = "over"]
    /\ UNCHANGED <<walletsVars, shownVars, joinVars, cutOf, linked, saving, missed>>

SignerNext ==
    \/ \E j \in Joins :
         \/ ConnectInjected(j) \/ ConnectWalletConnect(j) \/ ReadConfig(j)
         \/ \E a \in Holders : Pick(j, a)
         \/ NotConnected(j) \/ PostArrives(j) \/ Connected(j)
    \/ (\E a \in Holders \union {Nothing} : ReadLinks(a)) \/ ShowLink
    \/ \E p \in Providers :
         (\E a \in Holders : AccountSelected(p, a)) \/ WalletLocked(p) \/ ProviderGone(p)
    \/ \E a \in Holders : SaveArrives(a)
    \/ Disconnect
    \/ \E k \in Cuts : AskUnlink(k) \/ UnlinkArrives(k) \/ Unlinked(k) \/ UnlinkFails(k)

SignerSpec == SignerInit /\ [][SignerNext]_signerVars

-----------------------------------------------------------------------------
(* Properties.                                                             *)

\* The panel says "signing" of an address exactly while that address signs,
\* unless the list of links was shown over a connection that came first.
PanelShowsSigner ==
    \/ overwritten
    \/ /\ ready <=> active # Nothing
       /\ ready => wallet = signer

\* The address that signs is the one its wallet has selected, unless the wallet
\* was switched or locked while a connection with it waited for the server.
SignerIsSelected ==
    active # Nothing /\ active \notin missed => signer = selected[active]

\* It is linked, or about to be, or an Unlink of it is not answered yet; if not,
\* a request or an answer was lost, or an Unlink crossed the connection.
SignerIsLinked ==
    active # Nothing =>
        \/ signer \in linked \union saving \union unsaved
        \/ \E k \in Cuts : cutOf[k] = signer /\ cutAt[k] = "done"

SignerStands == PanelShowsSigner /\ SignerIsSelected /\ SignerIsLinked

=============================================================================
