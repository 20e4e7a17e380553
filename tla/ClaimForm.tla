----------------------------- MODULE ClaimForm -----------------------------
(***************************************************************************)
(* The form of a claim (components/ClaimFields.tsx): the chain, its        *)
(* network and a token, which is typed, or picked from the assets the API  *)
(* lists for the network.  Another network asks for its assets and leaves  *)
(* the old list in place; lists are taken in the order they are answered.  *)
(***************************************************************************)
EXTENDS Naturals

CONSTANTS
    ChainIds,     \* chains of the registry
    CoinOnly,     \* those without tokens (bitcoin)
    NetworkIds,   \* networks of a chain
    FirstNetwork, \* the one a chain starts with
    NoPlace,
    MaxLists      \* bound: lists asked for

Places == ChainIds \X NetworkIds

ASSUME FormAssumption ==
    /\ CoinOnly \subseteq ChainIds /\ FirstNetwork \in NetworkIds
    /\ NoPlace \notin Places /\ MaxLists \in Nat \ {0}

VARIABLES
    place,       \* chain and network of the form
    assetType,   \* "auto", "native", or a kind of token
    contractOf,  \* where the contract in the form lives
    assetsOf,    \* where the assets on offer live
    chainsKnown, \* the list of chains has been answered
    listing,     \* lists not answered
    listsAsked,
    stale        \* history: how a contract came under another place

formVars == <<place, assetType, contractOf, assetsOf, chainsKnown, listing, listsAsked, stale>>

AssetTypes == {"auto", "native", "token"}

FormTypeOK ==
    /\ place \in Places /\ assetType \in AssetTypes
    /\ contractOf \in Places \union {NoPlace} /\ assetsOf \in Places \union {NoPlace}
    /\ chainsKnown \in BOOLEAN
    /\ listing \subseteq [n : 1 .. MaxLists, of : Places]
    /\ listsAsked \in 0 .. MaxLists /\ stale \subseteq {"network", "list"}

FormInit ==
    \E chain \in ChainIds \ CoinOnly :
        /\ place = <<chain, FirstNetwork>> /\ assetType = "auto"
        /\ contractOf = NoPlace /\ assetsOf = NoPlace /\ chainsKnown = FALSE
        /\ listing = {[n |-> 1, of |-> place]} /\ listsAsked = 1 /\ stale = {}

TokenLike == place[1] \notin CoinOnly

-----------------------------------------------------------------------------
ChainsAnswered ==
    /\ ~chainsKnown /\ chainsKnown' = TRUE
    /\ UNCHANGED <<place, assetType, contractOf, assetsOf, listing, listsAsked, stale>>

\* The effect on the chain and the network.
MoveTo(p) ==
    /\ p # place /\ listsAsked < MaxLists
    /\ place' = p /\ listsAsked' = listsAsked + 1
    /\ listing' = listing \union {[n |-> listsAsked + 1, of |-> p]}
    /\ UNCHANGED <<assetsOf, chainsKnown>>

SetChain(chain) ==
    /\ chainsKnown /\ chain # place[1]
    /\ MoveTo(<<chain, FirstNetwork>>)
    /\ assetType' = IF chain \in CoinOnly THEN "native" ELSE "auto"
    /\ contractOf' = NoPlace /\ stale' = {}

\* The network alone: the contract of the former one stays in the form.
SetNetwork(network) ==
    /\ chainsKnown /\ MoveTo(<<place[1], network>>)
    /\ stale' = stale \union {h \in {"network"} : contractOf # NoPlace}
    /\ UNCHANGED <<assetType, contractOf>>

AssetsAnswered(r) ==
    /\ listing' = listing \ {r} /\ assetsOf' = r.of
    /\ UNCHANGED <<place, assetType, contractOf, chainsKnown, listsAsked, stale>>

AssetsRefused(r) ==
    /\ listing' = listing \ {r} /\ assetsOf' = NoPlace
    /\ UNCHANGED <<place, assetType, contractOf, chainsKnown, listsAsked, stale>>

\* applyKnown: whatever list is on offer.
PickToken ==
    /\ TokenLike /\ assetsOf # NoPlace
    /\ assetType' = "token" /\ contractOf' = assetsOf
    /\ stale' = {h \in {"list"} : assetsOf # place}
    /\ UNCHANGED <<place, assetsOf, chainsKnown, listing, listsAsked>>

\* "Detect from the transaction" and "Native coin".
PickNoToken(type) ==
    /\ TokenLike /\ type \in {"auto", "native"}
    /\ assetType' = type /\ contractOf' = NoPlace /\ stale' = {}
    /\ UNCHANGED <<place, assetsOf, chainsKnown, listing, listsAsked>>

\* The asset type alone leaves the contract.
SetAssetType(type) ==
    /\ TokenLike /\ assetType' = type
    /\ UNCHANGED <<place, contractOf, assetsOf, chainsKnown, listing, listsAsked, stale>>

TypeContract ==
    /\ TokenLike /\ assetType # "native"
    /\ contractOf' \in {place, NoPlace} /\ stale' = {}
    /\ UNCHANGED <<place, assetType, assetsOf, chainsKnown, listing, listsAsked>>

\* buildIncomingClaim: a native claim names no contract.
ClaimedContract == IF assetType = "native" THEN NoPlace ELSE contractOf

FormNext ==
    \/ ChainsAnswered \/ PickToken \/ TypeContract
    \/ \E chain \in ChainIds : SetChain(chain)
    \/ \E network \in NetworkIds : SetNetwork(network)
    \/ \E r \in listing : AssetsAnswered(r) \/ AssetsRefused(r)
    \/ \E type \in AssetTypes : PickNoToken(type) \/ SetAssetType(type)

FormSpec == FormInit /\ [][FormNext]_formVars

-----------------------------------------------------------------------------
\* A claim names a contract of its own network: another only when the network
\* was changed under it, and one of another chain only when it was picked from a
\* list that was not this network's.
ClaimNamesItsContract ==
    ClaimedContract \notin {NoPlace, place} =>
        /\ stale # {}
        /\ ClaimedContract[1] # place[1] => "list" \in stale

=============================================================================
