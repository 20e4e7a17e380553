----------------------------- MODULE WalletSend -----------------------------
(***************************************************************************)
(* SendPanel of the wallet page: a form, its review, and signAndSend, which *)
(* awaits the wallet, the broadcast and the receipt and reports each in    *)
(* the phase the panel shows.                                              *)
(*                                                                         *)
(* A local wallet leaves "review" in the turn of the click; a wallet of    *)
(* another program is asked to switch its network first, and the button    *)
(* stays until it has.  The inputs, and the network, stay open in every     *)
(* phase: what is signed is the form as the click found it.                *)
(***************************************************************************)
EXTENDS Naturals, FiniteSets

CONSTANTS
    Sends,     \* clicks on "Sign and broadcast"
    MaxPanels, \* bound: how often the panel is opened
    NoSend

ASSUME SendAssumption == MaxPanels \in Nat \ {0} /\ NoSend \notin Sends

Phases == {"form", "review", "signed", "pending", "included", "failed"}
SendStages == {"unused", "switching", "sending", "waiting", "over"}

\* How a broadcast transaction ends: in a block, or in another transaction of the
\* same account and nonce that took its place there, as when the user speeds it
\* up or cancels it in the wallet; either may succeed or revert.
Ends == {"success", "reverted", "replaced", "replacedReverted"}

VARIABLES
    walletKind,  \* session.kind
    panel,       \* the panel on screen: how many were opened so far
    phase, checked, hash,  \* what it shows
    send,        \* each click: stage, panel
    chain,       \* each click's transaction: none, broadcast, or how it ended
    twice        \* history: the panel was clicked while a click was under way

sendVars == <<walletKind, panel, phase, checked, hash, send, chain, twice>>

WalletKinds == {"local", "remote", "watch"}  \* remote: walletconnect, metamask, injected

SendTypeOK ==
    /\ walletKind \in WalletKinds /\ panel \in 1 .. MaxPanels
    /\ phase \in Phases /\ checked \in BOOLEAN /\ hash \in Sends \union {NoSend}
    /\ send \in [Sends -> [stage : SendStages, panel : 0 .. MaxPanels]]
    /\ chain \in [Sends -> {"none", "broadcast"} \union Ends]
    /\ twice \in BOOLEAN

SendInit ==
    /\ walletKind \in WalletKinds /\ panel = 1
    /\ phase = "form" /\ checked = FALSE /\ hash = NoSend
    /\ send = [s \in Sends |-> [stage |-> "unused", panel |-> 0]]
    /\ chain = [s \in Sends |-> "none"] /\ twice = FALSE

-----------------------------------------------------------------------------
\* review: a watched address cannot sign.
Review ==
    /\ phase = "form" /\ walletKind # "watch"
    /\ phase' = "review"
    /\ UNCHANGED <<walletKind, panel, checked, hash, send, chain, twice>>

Tick ==
    /\ phase # "form"
    /\ checked' = ~ checked
    /\ UNCHANGED <<walletKind, panel, phase, hash, send, chain, twice>>

UnderWay == {s \in Sends : send[s].panel = panel /\ send[s].stage \in {"switching", "sending"}}

\* A bug to try: a local wallet reports the signature once it has broadcast.
ClickStillInReview(s) ==
    /\ phase = "review" /\ checked /\ send[s].stage = "unused"
    /\ send' = [send EXCEPT ![s] =
            [stage |-> IF walletKind = "local" THEN "sending" ELSE "switching",
             panel |-> panel]]
    /\ twice' = (twice \/ UnderWay # {})
    /\ UNCHANGED <<walletKind, panel, phase, checked, hash, chain>>

\* signAndSend to its first await.
Click(s) ==
    /\ phase = "review" /\ checked /\ send[s].stage = "unused"
    /\ send' = [send EXCEPT ![s] =
            [stage |-> IF walletKind = "local" THEN "sending" ELSE "switching",
             panel |-> panel]]
    /\ phase' = IF walletKind = "local" THEN "signed" ELSE phase
    /\ twice' = (twice \/ UnderWay # {})
    /\ UNCHANGED <<walletKind, panel, checked, hash, chain>>

\* setPhase of the panel of the click: nothing, once that is gone.
Report(s, p) == phase' = IF send[s].panel = panel THEN p ELSE phase
Step(s, stage) == send' = [send EXCEPT ![s].stage = stage]
Untouched == UNCHANGED <<walletKind, panel, checked, twice>>

NetworkSwitched(s) ==
    /\ send[s].stage = "switching"
    /\ Step(s, "sending") /\ Report(s, "signed")
    /\ Untouched /\ UNCHANGED <<hash, chain>>

Broadcast(s) ==
    /\ send[s].stage = "sending"
    /\ Step(s, "waiting") /\ Report(s, "pending")
    /\ hash' = IF send[s].panel = panel THEN s ELSE hash
    /\ chain' = [chain EXCEPT ![s] = "broadcast"]
    /\ Untouched

\* A block spends the nonce of the transaction.
Mined(s, end) ==
    /\ chain[s] = "broadcast"
    /\ chain' = [chain EXCEPT ![s] = end]
    /\ Untouched /\ UNCHANGED <<phase, hash, send>>

\* waitForTransactionReceipt answers with the receipt of the transaction, or of
\* the one that replaced it; the hash shown stays the first one's.
Receipt(s) ==
    /\ send[s].stage = "waiting" /\ chain[s] \in Ends
    /\ Step(s, "over")
    /\ Report(s, IF chain[s] \in {"success", "replaced"} THEN "included" ELSE "failed")
    /\ Untouched /\ UNCHANGED <<hash, chain>>

\* The wallet refuses, the node's answer is lost though it took the
\* transaction, or no receipt came for a minute.
SendFails(s) ==
    /\ send[s].stage \in {"switching", "sending", "waiting"}
    /\ Step(s, "over") /\ Report(s, "failed")
    /\ chain' \in {chain, IF send[s].stage = "sending"
                          THEN [chain EXCEPT ![s] = "broadcast"] ELSE chain}
    /\ Untouched /\ UNCHANGED hash

\* The panel is left and opened again, or onDone: a new form.
LeavePanel ==
    /\ panel < MaxPanels /\ panel' = panel + 1
    /\ phase' = "form" /\ checked' = FALSE /\ hash' = NoSend /\ twice' = FALSE
    /\ UNCHANGED <<walletKind, send, chain>>

SendNext ==
    \/ Review \/ Tick \/ LeavePanel
    \/ \E s \in Sends :
        \/ Click(s) \/ NetworkSwitched(s) \/ Broadcast(s) \/ Receipt(s) \/ SendFails(s)
        \/ \E end \in Ends : Mined(s, end)

SendSpec == SendInit /\ [][SendNext]_sendVars

-----------------------------------------------------------------------------
\* One review sends one transaction, and "included" is said only once the nonce
\* of the one whose hash is shown was spent with success, by it or by the one
\* that replaced it in the wallet, which need not be the payment reviewed.  Only
\* a wallet that first has to switch its network can be asked twice, and then
\* neither need hold.
OneSendPerReview ==
    IF twice THEN walletKind = "remote"
    ELSE /\ Cardinality({s \in Sends : send[s].panel = panel /\ chain[s] # "none"}) <= 1
         /\ phase = "included" => hash # NoSend /\ chain[hash] \in {"success", "replaced"}

=============================================================================
