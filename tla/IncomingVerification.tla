------------------------ MODULE IncomingVerification ------------------------
(***************************************************************************)
(* One POST /v1/verify/incoming, from the claim to the reply: the EVM      *)
(* adapter's separate RPC reads of a chain that grows and reorganises      *)
(* between them (packages/chain-adapters/src/evm.ts, or mock.ts when there *)
(* is no RPC url), the pipeline of packages/verification-engine, and the   *)
(* handler in services/api/src/app.ts that signs, marks, stores, announces *)
(* and returns the verdict.                                                *)
(*                                                                         *)
(* Requests share nothing these steps write but the verdict table, where   *)
(* each has a row of its own, so one request is modelled.  The chain is    *)
(* the environment: of a block we keep whether it holds the claimed        *)
(* transaction and the recipient's balance after it, of the one holding    *)
(* the adapter asks for: an asset and, where its transfer has one, a token *)
(* id.  Balances change freely from block to block, as other transactions, *)
(* spending and tokens with untrue logs make them.                         *)
(***************************************************************************)
EXTENDS Integers, Sequences, FiniteSetsExt

CONSTANTS
    Tokens,      \* token contracts
    Native,      \* the chain's own coin
    Contents,    \* what the claimed transaction may be: its logs, its value
    Claims,      \* what the caller may ask
    Balances,    \* values a balance may take
    Required,    \* confirmations the registry asks of the network
    MaxReorg,    \* how many blocks a reorganisation may replace
    MaxGrowth,   \* blocks the chain may gain while the adapter reads it
    MaxHeight,   \* bound: length of the chain
    NoAsset, NoId, NoAmount, NoVerdict, NoEvent

Assets   == Tokens \union {Native}
\* A transfer of a token with ids names the one it moves.
Transfer == [to : {"recipient", "other"}, asset : Assets, amount : Nat,
             id : Nat \union {NoId}]
Content  == [logs : Seq(Transfer), value : Nat, success : BOOLEAN]
\* "labelled": the claim names a type or a symbol beside the asset.
Claim == [asset : Assets \union {NoAsset}, id : Nat \union {NoId},
          amount : Nat \union {NoAmount}, labelled : BOOLEAN]
Block == [included : BOOLEAN, balance : Balances]

ASSUME AssetAssumption == Native \notin Tokens /\ NoAsset \notin Assets
ASSUME IdAssumption == NoId \notin Nat
ASSUME InputAssumption == Contents \subseteq Content /\ Claims \subseteq Claim
ASSUME BalanceAssumption == Balances \subseteq Nat
ASSUME BoundAssumption ==
    /\ Required \in Nat \ {0} /\ MaxReorg \in Nat /\ MaxGrowth \in Nat
    /\ MaxHeight \in Nat
\* A block that may still be reorganised when the adapter starts to read cannot
\* reach the required depth before it has finished.
ASSUME SettlementAssumption == MaxReorg + MaxGrowth <= Required

VARIABLES
    chain, growth, reorged,           \* the environment
    content, live, claim,             \* inputs of the request
    pc, block, receipt, transfers,    \* what the adapter has read
    asset, described, isFinal, before, after,
    status, evidence,                 \* the pipeline
    verdict, saved, event             \* the handler

chainVars   == <<chain, growth, reorged>>
inputVars   == <<content, live, claim>>
adapterVars == <<block, receipt, transfers, asset, described, isFinal, before, after>>
engineVars  == <<status, evidence>>
replyVars   == <<verdict, saved, event>>
vars == <<chainVars, inputVars, pc, adapterVars, engineVars, replyVars>>

Reading == {"tx", "receipt", "events", "head", "balances"}
Pc == Reading \union {"idle", "engine", "finalize", "mark", "save", "dispatch",
                      "replied", "failed", "threw"}
VerificationStatus == {"OBSERVED", "PENDING", "EXECUTED", "ASSET_CONFIRMED",
    "BALANCE_CONFIRMED", "FINAL", "SPENDABLE", "REJECTED", "SUSPICIOUS",
    "UNVERIFIED"}
EvidenceType == {"TRANSACTION_INCLUDED", "EXECUTION_SUCCESS", "ASSET_MATCH",
    "RECIPIENT_MATCH", "AMOUNT_MATCH", "BALANCE_DELTA", "FINALITY",
    "SPENDABILITY"}
Unread == -1   \* a balance not read yet
Body == [status : VerificationStatus, amount : Nat \union {NoAmount},
         id : Nat \union {NoId}, balanceDelta : Int \union {NoAmount}, risk : {"LOW", "MEDIUM", "HIGH"},
         signals : SUBSET {"BALANCE_MISMATCH", "MOCK_ADAPTER"}]
\* The signature stands for the body it was computed over.
Verdict == [body : Body, signature : Body]

TypeOK ==
    /\ chain \in Seq(Block) /\ chain # <<>>
    /\ growth \in 0 .. MaxGrowth
    /\ reorged \in BOOLEAN
    /\ content \in Contents /\ live \in BOOLEAN /\ claim \in Claims
    /\ pc \in Pc
    /\ block \in Nat
    /\ receipt \in {"none", "success", "reverted"}
    /\ transfers \in Seq(Transfer)
    /\ asset \in Assets \union {NoAsset}
    /\ described \in BOOLEAN /\ isFinal \in BOOLEAN
    /\ before \in Nat \union {Unread} /\ after \in Nat \union {Unread}
    /\ status \in VerificationStatus
    /\ evidence \in SUBSET (EvidenceType \X BOOLEAN)
    /\ verdict \in Verdict \union {NoVerdict}
    /\ saved \in Verdict \union {NoVerdict}
    /\ event \in {NoEvent, "verification.final", "verification.failed",
                  "verification.suspicious", "verification.created"}

\* Block 1 stands for everything older than the transaction.
Init ==
    /\ \E balance \in Balances :
         chain = <<[included |-> FALSE, balance |-> balance]>>
    /\ growth = 0 /\ reorged = FALSE
    /\ content \in Contents /\ live \in BOOLEAN /\ claim \in Claims
    /\ pc = "idle"
    /\ block = 0 /\ receipt = "none" /\ transfers = <<>> /\ asset = NoAsset
    /\ described = FALSE /\ isFinal = FALSE /\ before = Unread /\ after = Unread
    /\ status = "OBSERVED" /\ evidence = {}
    /\ verdict = NoVerdict /\ saved = NoVerdict /\ event = NoEvent

-----------------------------------------------------------------------------
(* The chain.  It also moves while the handler stores and announces, but   *)
(* nothing looks at it then: those blocks are the ones that follow.  A     *)
(* mock adapter never looks at it.                                         *)
Watched == Reading \union {"idle", "replied"}

\* The transaction is mined at most once.
MinedOnce(c) == \A i, j \in DOMAIN c : c[i].included /\ c[j].included => i = j

Grow ==
    /\ live /\ pc \in Watched
    /\ Len(chain) < MaxHeight
    /\ pc \in Reading => growth < MaxGrowth
    /\ \E b \in Block : chain' = Append(chain, b)
    /\ MinedOnce(chain')
    /\ growth' = IF pc \in Reading THEN growth + 1 ELSE growth
    /\ UNCHANGED <<reorged, inputVars, pc, adapterVars, engineVars, replyVars>>

\* The last k blocks are replaced by as many; a longer branch then grows.
Reorg ==
    /\ live /\ pc \in Watched
    /\ \E k \in 1 .. MaxReorg :
         LET kept == Len(chain) - k IN
         /\ kept > 0
         /\ \E new \in [kept + 1 .. Len(chain) -> Block] :
              chain' = [i \in DOMAIN chain |-> IF i <= kept THEN chain[i]
                                                           ELSE new[i]]
    /\ MinedOnce(chain')
    /\ reorged' = (reorged \/ pc # "idle")
    /\ UNCHANGED <<growth, inputVars, pc, adapterVars, engineVars, replyVars>>

-----------------------------------------------------------------------------
(* EvmAdapter.normalizeEvidence: one action per await on the RPC.          *)

Mined == {i \in DOMAIN chain : chain[i].included}

\* The handler parses the claim, picks the adapter and starts the pipeline.
Receive ==
    /\ pc = "idle"
    /\ status' = "PENDING"
    /\ pc' = "tx"
    /\ UNCHANGED <<chainVars, inputVars, adapterVars, evidence, replyVars>>

\* eth_getTransactionByHash: its block, or none while it is not mined.
ReadTransaction ==
    /\ live /\ pc = "tx"
    /\ IF Mined = {} THEN block' = 0 ELSE block' \in Mined
    /\ pc' = "receipt"
    /\ UNCHANGED <<chainVars, inputVars, receipt, transfers, asset, described,
                   isFinal, before, after, engineVars, replyVars>>

\* eth_getTransactionReceipt.
ReadReceipt ==
    /\ live /\ pc = "receipt"
    /\ receipt' = IF Mined = {} THEN "none"
                  ELSE IF content.success THEN "success" ELSE "reverted"
    /\ pc' = "events"
    /\ UNCHANGED <<chainVars, inputVars, block, transfers, asset, described,
                   isFinal, before, after, engineVars, replyVars>>

\* Array.find, as a position: the least index that qualifies, or 0.
First(indices) == IF indices = {} THEN 0 ELSE Min(indices)

ToRecipient(ts) == {i \in DOMAIN ts : ts[i].to = "recipient"}
InClaimedAsset(ts) == {i \in DOMAIN ts : claim.asset \in {NoAsset, ts[i].asset}}

\* The transfer whose asset the adapter reports and whose holding it reads: the
\* first to the recipient in the asset of the claim, or else the first to the
\* recipient.  It is not told the id of the claim.
Matched(ts) ==
    LET wanted == ToRecipient(ts) \intersect InClaimedAsset(ts)
    IN First(IF wanted # {} THEN wanted ELSE ToRecipient(ts))

CoinTransfer ==
    [to |-> "recipient", asset |-> Native, amount |-> content.value, id |-> NoId]

\* getTokenMetadata: whether the asset is described by the type and symbol the
\* claim names, if any.  A contract that does not answer gets default ones.
DescribeAsset == described' \in IF claim.labelled THEN BOOLEAN ELSE {TRUE}

\* getTransferEvents asks for the receipt again; a plain transfer of the coin
\* is put in front of the logs.
ReadEvents ==
    /\ live /\ pc = "events"
    /\ LET logs == IF Mined # {} /\ content.success THEN content.logs ELSE <<>>
           coin == IF content.value > 0 THEN <<CoinTransfer>> ELSE <<>>
       IN transfers' = coin \o logs
    /\ asset' = IF Matched(transfers') # 0 THEN transfers'[Matched(transfers')].asset
                ELSE IF claim.asset # NoAsset THEN claim.asset ELSE Native
    /\ DescribeAsset
    /\ pc' = "head"
    /\ UNCHANGED <<chainVars, inputVars, block, receipt, isFinal, before, after,
                   engineVars, replyVars>>

\* eth_blockNumber; then balances are read only for a mined transaction.
ReadHead ==
    /\ live /\ pc = "head"
    /\ isFinal' = (Len(chain) - block >= Required)
    /\ IF block = 0 THEN before' = 0 /\ after' = 0 /\ pc' = "engine"
                    ELSE UNCHANGED <<before, after>> /\ pc' = "balances"
    /\ UNCHANGED <<chainVars, inputVars, block, receipt, transfers, asset,
                   described, engineVars, replyVars>>

\* A bug to try: both balances are read at the transaction's block.
ReadBeforeSameBlock ==
    /\ pc = "balances" /\ before = Unread
    /\ before' = chain[block].balance
    /\ pc' = IF after = Unread THEN "balances" ELSE "engine"
    /\ UNCHANGED <<chainVars, inputVars, block, receipt, transfers, asset,
                   described, isFinal, after, engineVars, replyVars>>

\* Promise.all of two reads: either may be served first.
ReadBefore ==
    /\ pc = "balances" /\ before = Unread
    /\ before' = chain[block - 1].balance
    /\ pc' = IF after = Unread THEN "balances" ELSE "engine"
    /\ UNCHANGED <<chainVars, inputVars, block, receipt, transfers, asset,
                   described, isFinal, after, engineVars, replyVars>>

ReadAfter ==
    /\ pc = "balances" /\ after = Unread
    /\ after' = chain[block].balance
    /\ pc' = IF before = Unread THEN "balances" ELSE "engine"
    /\ UNCHANGED <<chainVars, inputVars, block, receipt, transfers, asset,
                   described, isFinal, before, engineVars, replyVars>>

\* What was read dies with the call that read it.
Forget ==
    /\ block' = 0 /\ receipt' = "none" /\ transfers' = <<>> /\ asset' = NoAsset
    /\ described' = FALSE /\ isFinal' = FALSE
    /\ before' = Unread /\ after' = Unread

\* An RPC call fails or times out: the handler answers with an error.
RpcFails ==
    /\ live /\ pc \in Reading
    /\ pc' = "failed"
    /\ Forget
    /\ UNCHANGED <<chainVars, inputVars, engineVars, replyVars>>

\* MockChainAdapter.normalizeEvidence reads a table in memory: a scenario with
\* one transfer, or nothing for a hash it does not know.  Whatever asset the
\* claim names is reported as an ERC-20, so that a native claim never matches.
ReadMock ==
    /\ ~live /\ pc = "tx"
    /\ \E known \in BOOLEAN :
         /\ block' = IF known THEN 1 ELSE 0
         /\ receipt' = IF ~known THEN "none"
                       ELSE IF content.success THEN "success" ELSE "reverted"
         /\ transfers' = IF known /\ content.success /\ content.logs # <<>>
                         THEN <<[content.logs[1] EXCEPT !.id = NoId]>> ELSE <<>>
    /\ asset' = IF claim.asset \in Tokens THEN claim.asset
                ELSE IF claim.asset = Native \/ content.logs = <<>> THEN NoAsset
                ELSE content.logs[1].asset
    /\ DescribeAsset
    /\ LET i == First(ToRecipient(transfers')) IN
          /\ before' = 0
          /\ after' = IF i = 0 THEN 0 ELSE transfers'[i].amount
    /\ isFinal' = TRUE
    /\ pc' = "engine"
    /\ UNCHANGED <<chainVars, inputVars, engineVars, replyVars>>

-----------------------------------------------------------------------------
(* verifyIncomingTransfer.  It runs without an await once it has the       *)
(* evidence: the steps below only show the states it passes through.       *)

\* A bug to try: the table of verdict-schema forgets one exit.
AllowedForgetsUnverified ==
    [OBSERVED          |-> {"PENDING", "REJECTED"},
     PENDING           |-> {"EXECUTED", "REJECTED"},
     EXECUTED          |-> {"ASSET_CONFIRMED", "UNVERIFIED", "SUSPICIOUS", "REJECTED"},
     ASSET_CONFIRMED   |-> {"BALANCE_CONFIRMED", "FINAL", "SUSPICIOUS", "UNVERIFIED"},
     BALANCE_CONFIRMED |-> {"FINAL", "SUSPICIOUS"},
     FINAL             |-> {"SPENDABLE", "SUSPICIOUS", "UNVERIFIED"},
     SPENDABLE |-> {}, REJECTED |-> {}, SUSPICIOUS |-> {}, UNVERIFIED |-> {}]

Allowed ==
    [OBSERVED          |-> {"PENDING", "REJECTED"},
     PENDING           |-> {"EXECUTED", "REJECTED"},
     EXECUTED          |-> {"ASSET_CONFIRMED", "UNVERIFIED", "SUSPICIOUS", "REJECTED"},
     ASSET_CONFIRMED   |-> {"BALANCE_CONFIRMED", "FINAL", "SUSPICIOUS", "UNVERIFIED"},
     BALANCE_CONFIRMED |-> {"FINAL", "SUSPICIOUS", "UNVERIFIED"},
     FINAL             |-> {"SPENDABLE", "SUSPICIOUS", "UNVERIFIED"},
     SPENDABLE |-> {}, REJECTED |-> {}, SUSPICIOUS |-> {}, UNVERIFIED |-> {}]

\* pushStatus: a transition that is not in the table throws, and the handler
\* answers with an error.
Advance(next, where) ==
    IF next \in Allowed[status]
    THEN status' = next /\ pc' = where
    ELSE UNCHANGED status /\ pc' = "threw"

Stage(from, found) ==
    /\ pc = "engine" /\ status = from
    /\ evidence' = evidence \union found
    /\ UNCHANGED <<chainVars, inputVars, adapterVars, replyVars>>

CheckExecution ==
    LET included == block # 0
        executed == receipt = "success"
    IN /\ Stage("PENDING",
            {<<"TRANSACTION_INCLUDED", included>>}
              \union IF included THEN {<<"EXECUTION_SUCCESS", executed>>} ELSE {})
       /\ IF included /\ executed THEN Advance("EXECUTED", "engine")
                                  ELSE Advance("REJECTED", "finalize")

CheckAsset ==
    LET assetOk == /\ asset # NoAsset /\ described
                   /\ claim.asset \in {NoAsset, asset}
    IN /\ Stage("EXECUTED", {<<"ASSET_MATCH", assetOk>>})
       /\ IF assetOk THEN Advance("ASSET_CONFIRMED", "engine")
                     ELSE Advance("UNVERIFIED", "finalize")

\* A transfer without an id is of any.
OfClaimedId(ts) ==
    {i \in DOMAIN ts : claim.id = NoId \/ ts[i].id \in {NoId, claim.id}}

\* The transfer the verdict is about: the first to the recipient, in the
\* asset and of the id of the claim if it names them.
TransferIndex ==
    First(ToRecipient(transfers) \intersect InClaimedAsset(transfers)
                                 \intersect OfClaimedId(transfers))

\* What the claim says of the amount may be the id of what was moved.
RecipientOk == TransferIndex # 0
AmountOk ==
    \/ claim.amount = NoAmount
    \/ RecipientOk /\ claim.amount \in {transfers[TransferIndex].amount,
                                        transfers[TransferIndex].id}
BalanceOk == after - before = transfers[TransferIndex].amount

\* Recipient and amount, then the balance delta: two checks, one status.
CheckTransfer ==
    /\ Stage("ASSET_CONFIRMED",
         {<<"RECIPIENT_MATCH", RecipientOk>>, <<"AMOUNT_MATCH", AmountOk>>}
           \union IF RecipientOk /\ AmountOk
                  THEN {<<"BALANCE_DELTA", BalanceOk>>} ELSE {})
    /\ IF ~(RecipientOk /\ AmountOk) THEN Advance("UNVERIFIED", "finalize")
       ELSE IF ~BalanceOk THEN Advance("SUSPICIOUS", "finalize")
       ELSE Advance("BALANCE_CONFIRMED", "engine")

\* A bug to try: finality is recorded but does not stop the pipeline.
CheckFinalityIgnored ==
    /\ Stage("BALANCE_CONFIRMED", {<<"FINALITY", isFinal>>})
    /\ Advance("FINAL", "engine")

CheckFinality ==
    /\ Stage("BALANCE_CONFIRMED", {<<"FINALITY", isFinal>>})
    /\ IF isFinal THEN Advance("FINAL", "engine")
                  ELSE Advance("UNVERIFIED", "finalize")

CheckSpendability ==
    /\ Stage("FINAL", {<<"SPENDABILITY", TRUE>>})
    /\ Advance("SPENDABLE", "finalize")

\* finalize: the verdict is put together and signed.  Unless the caller names
\* them, it shows the first amount and the first id of all transfers.
FirstId ==
    LET named == {i \in DOMAIN transfers : transfers[i].id # NoId}
    IN IF named = {} THEN NoId ELSE transfers[First(named)].id

BodyNow ==
    [status |-> status,
     amount |-> IF claim.amount # NoAmount THEN claim.amount
                ELSE IF transfers = <<>> THEN NoAmount ELSE transfers[1].amount,
     id |-> IF claim.id # NoId THEN claim.id ELSE FirstId,
     balanceDelta |-> IF \E ok \in BOOLEAN : <<"BALANCE_DELTA", ok>> \in evidence
                      THEN after - before ELSE NoAmount,
     risk |-> CASE status = "SUSPICIOUS" -> "HIGH"
                [] status = "REJECTED"   -> "MEDIUM"
                [] OTHER                 -> "LOW",
     signals |-> IF status = "SUSPICIOUS" THEN {"BALANCE_MISMATCH"} ELSE {}]

Finalize ==
    /\ pc = "finalize"
    /\ verdict' = [body |-> BodyNow, signature |-> BodyNow]
    /\ pc' = "mark"
    /\ UNCHANGED <<chainVars, inputVars, adapterVars, engineVars, saved, event>>

\* getActive finds no active key.
FinalizeFails ==
    /\ pc = "finalize"
    /\ pc' = "failed"
    /\ UNCHANGED <<chainVars, inputVars, adapterVars, engineVars, replyVars>>

-----------------------------------------------------------------------------
(* The rest of the handler.                                                *)

\* The verdict of a mock adapter is marked as such, after it was signed.
Marked(v) ==
    [v EXCEPT !.body.signals = @ \union {"MOCK_ADAPTER"},
              !.body.risk = IF @ = "LOW" THEN "MEDIUM" ELSE @]

\* A bug to try: every verdict is marked.
MarkMockAlways ==
    /\ pc = "mark"
    /\ verdict' = Marked(verdict)
    /\ pc' = "save"
    /\ UNCHANGED <<chainVars, inputVars, adapterVars, engineVars, saved, event>>

MarkMock ==
    /\ pc = "mark"
    /\ verdict' = IF live THEN verdict ELSE Marked(verdict)
    /\ pc' = "save"
    /\ UNCHANGED <<chainVars, inputVars, adapterVars, engineVars, saved, event>>

Save ==
    /\ pc = "save"
    /\ saved' = verdict
    /\ pc' = "dispatch"
    /\ UNCHANGED <<chainVars, inputVars, adapterVars, engineVars, verdict, event>>

MapStatusToEvent(s) ==
    CASE s \in {"SPENDABLE", "FINAL"} -> "verification.final"
      [] s = "REJECTED"               -> "verification.failed"
      [] s = "SUSPICIOUS"             -> "verification.suspicious"
      [] OTHER                        -> "verification.created"

\* dispatchWebhooks, which WebhookDelivery models, then the reply.
Dispatch ==
    /\ pc = "dispatch"
    /\ event' = MapStatusToEvent(verdict.body.status)
    /\ pc' = "replied"
    /\ UNCHANGED <<chainVars, inputVars, adapterVars, engineVars, verdict, saved>>

\* The store or Redis rejects: the caller gets an error, also when the verdict
\* is already stored or some of its webhooks are out.
HandlerFails ==
    /\ pc \in {"save", "dispatch"}
    /\ \/ UNCHANGED event
       \/ pc = "dispatch" /\ event' = MapStatusToEvent(verdict.body.status)
    /\ pc' = "failed"
    /\ UNCHANGED <<chainVars, inputVars, adapterVars, engineVars, verdict, saved>>

Adapter == \/ Receive \/ ReadTransaction \/ ReadReceipt \/ ReadEvents
           \/ ReadHead \/ ReadBefore \/ ReadAfter \/ RpcFails \/ ReadMock
Pipeline == \/ CheckExecution \/ CheckAsset \/ CheckTransfer \/ CheckFinality
            \/ CheckSpendability
Handler == \/ Finalize \/ FinalizeFails \/ MarkMock \/ Save \/ Dispatch
           \/ HandlerFails

Request == Adapter \/ Pipeline \/ Handler

Next == Grow \/ Reorg \/ Request

Spec == Init /\ [][Next]_vars

-----------------------------------------------------------------------------
(* Properties.                                                             *)

\* The id of the holding whose balances the adapter asks for.
AskedId == IF Matched(transfers) = 0 THEN NoId ELSE transfers[Matched(transfers)].id

\* The balances are those of what the transfer moved.
BalancesAreOf(t) == asset = t.asset /\ AskedId = t.id

\* The claim names an id, and the first transfer to the recipient in the asset
\* is of another: the engine passes it over, where the adapter has read its
\* balances.
Overlooked == claim.id # NoId /\ AskedId \notin {NoId, claim.id}

\* A live SPENDABLE verdict is about funds that arrived and stay: for ever
\* after, the chain holds the transaction in the block the adapter saw, as
\* deep as the network requires, and in that block the holding of which the
\* balances were asked rose by exactly the amount of the transfer the verdict is
\* about.  That holding is what the transfer moved, unless the adapter matched
\* another id than the claim's.  The transfer is of the claimed asset and id,
\* and a claimed amount is its amount, or its id.  The adapter's reads are
\* separate calls, and the chain may reorganise between any two of them.
SpendableIsSettled ==
    live /\ status = "SPENDABLE" =>
        LET gained == chain[block].balance - chain[block - 1].balance
            moved == transfers[TransferIndex]
        IN /\ block \in DOMAIN chain /\ chain[block].included
           /\ Len(chain) - block >= Required
           /\ content.success
           /\ gained = moved.amount
           /\ BalancesAreOf(moved) \/ Overlooked
           /\ claim.asset \in {NoAsset, moved.asset}
           /\ NoId \in {claim.id, moved.id} \/ claim.id = moved.id
           /\ claim.amount \in {NoAmount, gained, moved.id}

\* Nobody is warned of a balance mismatch the chain does not show: without a
\* reorganisation since the claim, SUSPICIOUS means that the balance of what the
\* transfer moved changed by something else than its amount in its block, unless
\* the adapter matched another id than the claim's and read the balance of that.
NoFalseAlarm ==
    live /\ status = "SUSPICIOUS" /\ ~reorged =>
        LET moved == transfers[TransferIndex]
        IN \/ /\ BalancesAreOf(moved)
              /\ chain[block].balance - chain[block - 1].balance # moved.amount
           \/ Overlooked

\* "No unexplained trust scores": the evidence alone determines the status.
EvidenceExplainsStatus ==
    verdict # NoVerdict =>
        LET shown(type, result) == <<type, result>> \in evidence
            refuted(types) == \E type \in types : shown(type, FALSE)
        IN /\ status = "SPENDABLE" <=> \A type \in EvidenceType : shown(type, TRUE)
           /\ status = "REJECTED" <=> refuted({"TRANSACTION_INCLUDED",
                                               "EXECUTION_SUCCESS"})
           /\ status = "SUSPICIOUS" <=> refuted({"BALANCE_DELTA"})
           /\ status = "UNVERIFIED" <=> refuted({"ASSET_MATCH", "RECIPIENT_MATCH",
                                                 "AMOUNT_MATCH", "FINALITY"})

\* The pipeline and the transition table agree: no claim and no chain makes
\* pushStatus throw.
PipelineNeverThrows == pc # "threw"

\* What GET /v1/verdicts/:id serves passes POST /v1/verdicts/verify: the
\* signature covers the body as stored.
Verifies(v) == v.signature = v.body
StoredVerdictVerifies == saved # NoVerdict => Verifies(saved)

\* The same for live adapters alone.
LiveVerdictVerifies == live => StoredVerdictVerifies

\* The state read is the source of truth for the amount that arrived: the
\* amount a SPENDABLE verdict shows is the balance delta it shows.
AmountIsWhatArrived ==
    verdict # NoVerdict /\ verdict.body.status = "SPENDABLE" =>
        verdict.body.amount = verdict.body.balanceDelta

=============================================================================
