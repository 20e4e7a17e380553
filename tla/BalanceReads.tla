---------------------------- MODULE BalanceReads ----------------------------
(***************************************************************************)
(* GET /v1/wallet/balance and reconcileBalanceReads: the balance of an     *)
(* account is asked of one node, and of a second one when the deployment   *)
(* names it, one after the other while the chain moves.  Answers that      *)
(* agree become the balance; answers that differ become none; a node that  *)
(* does not answer is left out.                                            *)
(***************************************************************************)
EXTENDS Naturals, Sequences, FiniteSets

CONSTANTS
    Amounts,   \* what an account may hold
    NoBalance,
    MaxMoves   \* bound: changes of the account's balance

ASSUME AmountsAssumption == NoBalance \notin Amounts /\ MaxMoves \in Nat

VARIABLES
    held,         \* the account's balances, oldest first
    secondary,    \* OTV_BALANCE_RPC_URL names a second node
    liar,         \* the node that answers what it likes, 0: none
    adapterLive,  \* createAdapter found an address for the node
    observations, \* what the nodes have answered so far
    since,        \* history: the balance when the request came, an index
    balanceReply

balanceReadVars == <<held, secondary, liar, adapterLive, observations, since, balanceReply>>

Refusals == {"invalid_request", "unsupported_network", "invalid_address",
             "invalid_token_contract", "unverified_token"}
Answer(a) == [ok |-> TRUE, balance |-> a]
NoAnswer == [ok |-> FALSE, balance |-> NoBalance]
Observation == {Answer(a) : a \in Amounts} \union {NoAnswer}
Reply(verification) == [verification |-> verification, balance |-> NoBalance]
Unasked == Reply("unasked")
Waiting == Reply("waiting")

BalanceReadsTypeOK ==
    /\ held \in Seq(Amounts) /\ Len(held) \in 1 .. MaxMoves + 1
    /\ secondary \in BOOLEAN /\ liar \in 0 .. 2 /\ adapterLive \in BOOLEAN
    /\ observations \in Seq(Observation) /\ Len(observations) <= 2
    /\ since \in 1 .. Len(held)
    /\ balanceReply \in [verification : {"unasked", "waiting", "verified", "unavailable",
                                         "requires_reconciliation"} \union Refusals,
                         balance : Amounts \union {NoBalance}]

BalanceReadsInit ==
    /\ held \in {<<a>> : a \in Amounts} /\ secondary \in BOOLEAN /\ liar \in 0 .. 2
    /\ adapterLive \in BOOLEAN /\ observations = <<>> /\ since = 1
    /\ balanceReply = Unasked

-----------------------------------------------------------------------------
\* A block that pays the account, or spends from it.
Move(a) ==
    /\ Len(held) <= MaxMoves /\ a # held[Len(held)]
    /\ held' = Append(held, a)
    /\ UNCHANGED <<secondary, liar, adapterLive, observations, since, balanceReply>>

AskBalance ==
    /\ balanceReply = Unasked
    /\ balanceReply' = Waiting /\ since' = Len(held)
    /\ UNCHANGED <<held, secondary, liar, adapterLive, observations>>

\* The route's own tests, in their order: one of them answers 400.
Refuse(why) ==
    /\ balanceReply = Waiting /\ observations = <<>>
    /\ balanceReply' = Reply(why)
    /\ UNCHANGED <<held, secondary, liar, adapterLive, observations, since>>

Sources == IF secondary THEN 2 ELSE 1
Asking == balanceReply = Waiting /\ Len(observations) < Sources
Node == Len(observations) + 1

\* The second node's address is given, so that its adapter is live.
LiveNode == Node = 2 \/ adapterLive

\* An honest node answers for a block the chain has had since the request came,
\* or the one before it.
Honest == {held[i] : i \in (IF since = 1 THEN 1 ELSE since - 1) .. Len(held)}

Observe(a) ==
    /\ Asking /\ LiveNode
    /\ Node = liar \/ a \in Honest
    /\ observations' = Append(observations, Answer(a))
    /\ UNCHANGED <<held, secondary, liar, adapterLive, since, balanceReply>>

\* No address, a timeout, an error: not a balance of zero.
ObserveNothing ==
    /\ Asking
    /\ observations' = Append(observations, NoAnswer)
    /\ UNCHANGED <<held, secondary, liar, adapterLive, since, balanceReply>>

\* The answers of the nodes that gave one.
Good(seen) == {i \in DOMAIN seen : seen[i].ok}

\* A bug to try: the first answer wins.
FirstOf(seen) ==
    {seen[i].balance : i \in {j \in Good(seen) : \A k \in Good(seen) : j <= k}}

BalancesOf(seen) == {seen[i].balance : i \in Good(seen)}

\* reconcileBalanceReads.
Reconciled(seen) ==
    IF Good(seen) = {} THEN Reply("unavailable")
    ELSE IF Cardinality(BalancesOf(seen)) > 1 THEN Reply("requires_reconciliation")
    ELSE [verification |-> "verified", balance |-> CHOOSE b \in BalancesOf(seen) : TRUE]

Reconcile ==
    /\ balanceReply = Waiting /\ Len(observations) = Sources
    /\ balanceReply' = Reconciled(observations)
    /\ UNCHANGED <<held, secondary, liar, adapterLive, observations, since>>

BalanceReadsNext ==
    \/ ObserveNothing \/ Reconcile \/ AskBalance
    \/ \E a \in Amounts : Move(a) \/ Observe(a)
    \/ \E why \in Refusals : Refuse(why)

BalanceReadsSpec == BalanceReadsInit /\ [][BalanceReadsNext]_balanceReadVars

-----------------------------------------------------------------------------
\* A "verified" balance is one the account held while it was asked for, even
\* when one of two nodes lies, unless the honest one did not answer; "requires
\* reconciliation" needs a move of the account or a node that lies.
VerifiedBalanceWasHeld ==
    /\ balanceReply.verification = "verified" /\ balanceReply.balance \notin Honest =>
           /\ liar \in 1 .. Len(observations) /\ observations[liar].ok
           /\ \A i \in DOMAIN observations : i # liar => ~observations[i].ok
    /\ balanceReply.verification = "requires_reconciliation" =>
           liar # 0 \/ Cardinality(Honest) > 1

=============================================================================
