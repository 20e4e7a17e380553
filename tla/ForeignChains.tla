--------------------------- MODULE ForeignChains ---------------------------
(***************************************************************************)
(* normalizeEvidence of the Bitcoin, Solana and Tron adapters: the reads   *)
(* of one transaction, each a request of its own to a chain that grows and *)
(* forks between them, through nodes one of which may be a block behind.   *)
(*                                                                         *)
(* Unlike the EVM adapter, these do not ask for a balance at a block:      *)
(* Bitcoin's is the recipient's balance now, and for Solana and Tron it is *)
(* the transfer's own amount.                                              *)
(***************************************************************************)
EXTENDS Integers, Sequences

CONSTANTS
    Payments,   \* what the transaction may move: sequences of transfers
    Needed,     \* confirmations the adapter requires
    MaxHead,    \* bound: height of the chain
    MaxHolding  \* bound: balance of the recipient

Families == {"bitcoin", "solana", "tron"}
Payment == [to : {"recipient", "other"}, asset : {"native", "token"}, amount : Nat]

ASSUME PaymentAssumption == Payments \subseteq Seq(Payment) \ {<<>>}
ASSUME DepthAssumption ==
    Needed \in Nat \ {0} /\ MaxHead \in Nat \ {0} /\ MaxHolding \in Nat

VARIABLES
    head, minedAt, forked,      \* the chain: height, block of the transaction
    holding, spent,             \* the recipient's balance; spent since it was mined
    family, isLive, payment, fails, hint, \* the request and its transaction
    at,                         \* the next read
    txBlock, txReceipt, events, \* what has been read
    confirmations, settled,
    balanceBefore, balanceAfter

worldVars == <<head, minedAt, forked, holding, spent>>
requestVars == <<family, isLive, payment, fails, hint>>
readVars == <<txBlock, txReceipt, events, confirmations, settled, balanceBefore, balanceAfter>>
foreignVars == <<worldVars, requestVars, at, readVars>>

Awaiting == {"transaction", "receipt", "events", "finality", "balance"}

ForeignTypeOK ==
    /\ head \in 1 .. MaxHead /\ minedAt \in 0 .. head /\ forked \in BOOLEAN
    /\ holding \in 0 .. MaxHolding /\ spent \in BOOLEAN
    /\ family \in Families /\ isLive \in BOOLEAN /\ payment \in Payments
    /\ fails \in BOOLEAN /\ hint \in {"none", "native", "token"}
    /\ at \in Awaiting \union {"done", "failed"}
    /\ txBlock \in 0 .. MaxHead /\ txReceipt \in {"none", "success", "reverted"}
    /\ events \in Seq(Payment)
    /\ confirmations \in Nat /\ settled \in BOOLEAN
    /\ balanceBefore \in Nat /\ balanceAfter \in Nat

ForeignInit ==
    /\ head = 1 /\ minedAt = 0 /\ forked = FALSE
    /\ holding \in 0 .. MaxHolding /\ spent = FALSE
    /\ family \in Families /\ isLive \in BOOLEAN /\ payment \in Payments
    /\ fails \in BOOLEAN /\ hint \in {"none", "native", "token"}
    /\ family = "bitcoin" => hint # "token" /\ fails = FALSE
    /\ at = "transaction"
    /\ txBlock = 0 /\ txReceipt = "none" /\ events = <<>>
    /\ confirmations = 0 /\ settled = FALSE /\ balanceBefore = 0 /\ balanceAfter = 0

-----------------------------------------------------------------------------
(* The chain *)
Coins(p) == p.asset = "native"
IsToken(p) == p.asset = "token"
ToRecipientIn(p) == p.to = "recipient"

\* What the recipient gets of the coin, in outputs of the transaction.
Credit ==
    LET paid[i \in 0 .. Len(payment)] ==
            IF i = 0 THEN 0
            ELSE paid[i - 1] + (IF ToRecipientIn(payment[i]) /\ Coins(payment[i])
                                THEN payment[i].amount ELSE 0)
    IN  paid[Len(payment)]

NewBlock(includes) ==
    /\ head < MaxHead /\ head' = head + 1
    /\ IF includes
       THEN /\ minedAt = 0 /\ minedAt' = head + 1
            /\ holding' = holding + (IF fails THEN 0 ELSE Credit)
            /\ holding' <= MaxHolding
       ELSE UNCHANGED <<minedAt, holding>>
    /\ UNCHANGED <<forked, spent, requestVars, at, readVars>>

\* The last block is replaced by one without the transaction.
Fork ==
    /\ minedAt' = IF minedAt = head THEN 0 ELSE minedAt
    /\ holding' \in 0 .. MaxHolding /\ forked' = TRUE
    /\ UNCHANGED <<head, spent, requestVars, at, readVars>>

Spend ==
    /\ holding > 0
    /\ holding' \in 0 .. holding - 1
    /\ spent' = (spent \/ minedAt # 0)
    /\ UNCHANGED <<head, minedAt, forked, requestVars, at, readVars>>

-----------------------------------------------------------------------------
(* The reads of the adapter *)
Read(r, next) == isLive /\ at = r /\ at' = next /\ UNCHANGED <<worldVars, requestVars>>

\* getTransaction: the block, 0 of one that is pending or unknown.
ReadTx ==
    /\ Read("transaction", "receipt")
    /\ txBlock' = minedAt
    /\ UNCHANGED <<txReceipt, events, confirmations, settled, balanceBefore, balanceAfter>>

\* getReceipt asks again; Bitcoin knows no failure.
ReadTxReceipt ==
    /\ Read("receipt", "events")
    /\ txReceipt' = IF minedAt = 0 THEN "none" ELSE IF fails THEN "reverted" ELSE "success"
    /\ UNCHANGED <<txBlock, events, confirmations, settled, balanceBefore, balanceAfter>>

\* The transfers of one kind of asset, in their order.
Only(kind, p) ==
    LET kept[i \in 0 .. Len(p)] ==
            IF i = 0 THEN <<>>
            ELSE IF p[i].asset = kind THEN Append(kept[i - 1], p[i]) ELSE kept[i - 1]
    IN  kept[Len(p)]

\* getTransferEvents: every output with an address; what accounts have gained,
\* the coin first; the first contract, where a token call has no amount.
EventsOf(p) ==
    CASE family = "bitcoin" -> Only("native", p)
      [] family = "solana" -> IF fails THEN <<>>
                              ELSE Only("native", p) \o Only("token", p)
      [] family = "tron" -> IF Coins(p[1]) THEN <<p[1]>>
                            ELSE <<[p[1] EXCEPT !.amount = 0]>>

\* A transaction that is not mined has its outputs or contract, if the node
\* knows it, and no balances.
ReadTransfers ==
    /\ Read("events", "finality")
    /\ events' \in IF minedAt # 0 THEN {EventsOf(payment)}
                   ELSE IF family = "solana" THEN {<<>>} ELSE {<<>>, EventsOf(payment)}
    /\ UNCHANGED <<txBlock, txReceipt, confirmations, settled, balanceBefore, balanceAfter>>

\* A bug to try: a transaction without a block is taken to be in block 0.
ConfirmedSinceGenesis(tip) ==
    LET depth == IF family = "bitcoin" THEN tip - txBlock + 1 ELSE tip - txBlock
    IN  IF depth > 0 THEN depth ELSE 0

\* A bug to try: the depth below a head that is behind is a negative number.
DepthUnclamped(tip) ==
    IF txBlock > 0
    THEN IF family = "bitcoin" THEN tip - txBlock + 1 ELSE tip - txBlock
    ELSE 0

\* Bitcoin counts the block itself.
Confirmations(tip) ==
    LET depth == IF family = "bitcoin" THEN tip - txBlock + 1 ELSE tip - txBlock
    IN  IF txBlock > 0 /\ depth > 0 THEN depth ELSE 0

\* The first transfer to the recipient in the asset asked for, or else the
\* first to it; Bitcoin has one asset.
InAsset(p) == hint = "token" => IsToken(p)
Matches ==
    LET to == {i \in DOMAIN events : ToRecipientIn(events[i])}
        inAsset == {i \in to : InAsset(events[i])}
    IN  IF inAsset # {} THEN inAsset ELSE to
FirstMatch == CHOOSE i \in Matches : \A j \in Matches : i <= j
Amount == IF Matches = {} THEN 0 ELSE events[FirstMatch].amount

\* getFinalityState, from a node that may lack the last block.
ReadFinality ==
    /\ Read("finality", IF family = "bitcoin" /\ Matches # {} THEN "balance" ELSE "done")
    /\ \E tip \in {head, head - 1} :
        /\ confirmations' = Confirmations(tip)
        /\ settled' = (Confirmations(tip) >= Needed)
    /\ balanceBefore' = 0 /\ balanceAfter' = Amount
    /\ UNCHANGED <<txBlock, txReceipt, events>>

\* The balance before the payment, computed from the one now.
BeforePayment(current) == IF current >= Amount THEN current - Amount ELSE 0

\* getBalance now; when it fails, the amount is the balance.
ReadBalanceNow ==
    /\ Read("balance", "done")
    /\ \/ balanceAfter' = holding /\ balanceBefore' = BeforePayment(holding)
       \/ UNCHANGED <<balanceBefore, balanceAfter>>
    /\ UNCHANGED <<txBlock, txReceipt, events, confirmations, settled>>

\* Without a url the demo transaction is known and no other, and any is final.
ReadDemo ==
    /\ ~ isLive /\ at = "transaction" /\ at' = "done"
    /\ \/ /\ txBlock' = 1 /\ txReceipt' = "success"
          /\ events' = <<[to |-> "recipient", asset |-> "native", amount |-> 1]>>
          /\ balanceAfter' = 1
       \/ UNCHANGED <<txBlock, txReceipt, events, balanceAfter>>
    /\ confirmations' = Needed /\ settled' = TRUE
    /\ UNCHANGED <<worldVars, requestVars, balanceBefore>>

\* A request fails or takes 15 seconds.
ReadFails ==
    /\ isLive /\ at \in Awaiting \ {"balance"}
    /\ at' = "failed"
    /\ UNCHANGED <<worldVars, requestVars, readVars>>

ForeignNext ==
    \/ at \in Awaiting /\ isLive /\
        (Fork \/ Spend \/ \E includes \in BOOLEAN : NewBlock(includes))
    \/ ReadTx \/ ReadTxReceipt \/ ReadTransfers \/ ReadFinality \/ ReadBalanceNow
    \/ ReadDemo \/ ReadFails

ForeignSpec == ForeignInit /\ [][ForeignNext]_foreignVars

-----------------------------------------------------------------------------
\* Evidence that a transaction succeeded and is final is of one buried as deep
\* as the network asks, even when it was mined while it was read.
FinalIsBuried ==
    at = "done" /\ isLive /\ settled /\ txReceipt = "success" =>
        \/ minedAt # 0 /\ Confirmations(head) >= Needed /\ txBlock = minedAt
        \/ forked

\* The pipeline's balance check (after - before = amount) fails a payment that
\* succeeded only if the recipient has spent since, or a fork moved it.
ShortfallNeedsSpending ==
    at = "done" /\ txReceipt = "success"
        /\ balanceAfter - balanceBefore # Amount
    => spent \/ forked

\* Final evidence of the three adapters stands: of its depth, and of the balance
\* it claims to have moved.
ForeignEvidenceStands == FinalIsBuried /\ ShortfallNeedsSpending

=============================================================================
