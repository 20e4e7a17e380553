--------------------- MODULE IncomingVerificationProofs ---------------------
(***************************************************************************)
(* What a live SPENDABLE verdict asserts holds on the chain, for every     *)
(* chain, claim and transaction, and for every depth of confirmation that  *)
(* outweighs reorganisation and growth during the reads.                   *)
(***************************************************************************)
EXTENDS Verification, ForeignChainsProofs, TLAPS

USE DEF Reading, Pc, VerificationStatus, EvidenceType, Watched

(***************************************************************************)
(* The chain, and what its moves leave alone.                              *)
(***************************************************************************)
ChainOK ==
    /\ chain \in Seq(Block) /\ chain # <<>>
    /\ growth \in 0 .. MaxGrowth
    /\ reorged \in BOOLEAN
    /\ ~chain[1].included

\* A sequence of one element.
LEMMA Singleton ==
  ASSUME NEW S, NEW e \in S
  PROVE  <<e>> \in Seq(S) /\ <<e>> # <<>> /\ <<e>>[1] = e
<1>1. <<e>> \in Seq(S)
  OBVIOUS
<1>2. <<e>> # <<>> /\ <<e>>[1] = e
  OBVIOUS
<1> QED
  BY <1>1, <1>2

\* The initial chain is one old block without the transaction.
LEMMA InitChain == Init => ChainOK
<1> SUFFICES ASSUME Init PROVE ChainOK
  OBVIOUS
<1>0. PICK balance \in Balances :
      chain = <<[included |-> FALSE, balance |-> balance]>>
  BY DEF Init
<1> DEFINE b == [included |-> FALSE, balance |-> balance]
<1>1. b \in Block /\ ~b.included
  BY DEF Block
<1>2. chain = <<b>>
  BY <1>0
<1> HIDE DEF b
<1>3. chain \in Seq(Block) /\ chain # <<>> /\ chain[1] = b
  BY <1>1, <1>2, Singleton, Zenon
<1>4. growth \in 0 .. MaxGrowth
  BY BoundAssumption DEF Init
<1>5. reorged \in BOOLEAN
  BY Zenon DEF Init
<1>6. ~chain[1].included
  BY <1>1, <1>3, Zenon
<1> QED
  BY <1>3, <1>4, <1>5, <1>6, Zenon DEF ChainOK

\* A new block changes no older one.
LEMMA GrowKeeps ==
  ASSUME ChainOK, Grow
  PROVE  /\ ChainOK' /\ Len(chain') = Len(chain) + 1
         /\ \A i \in 1 .. Len(chain) : chain'[i] = chain[i]
         /\ growth' = IF pc \in Reading THEN growth + 1 ELSE growth
<1> PICK b \in Block : chain' = Append(chain, b)
  BY DEF Grow
<1>1. /\ chain' \in Seq(Block) /\ Len(chain') = Len(chain) + 1
      /\ \A i \in 1 .. Len(chain) : chain'[i] = chain[i]
      /\ Len(chain) > 0
  BY DEF ChainOK
<1>2. growth' \in 0 .. MaxGrowth /\ reorged' = reorged
  BY BoundAssumption DEF Grow, ChainOK
<1> QED
  BY <1>1, <1>2 DEF Grow, ChainOK

\* A reorganisation keeps the height and all but the last MaxReorg blocks.
LEMMA ReorgKeeps ==
  ASSUME ChainOK, Reorg
  PROVE  /\ ChainOK' /\ Len(chain') = Len(chain)
         /\ \A i \in 1 .. Len(chain) - MaxReorg : chain'[i] = chain[i]
         /\ growth' = growth
<1> PICK k \in 1 .. MaxReorg :
      /\ Len(chain) - k > 0
      /\ \E new \in [Len(chain) - k + 1 .. Len(chain) -> Block] :
           chain' = [i \in DOMAIN chain |-> IF i <= Len(chain) - k THEN chain[i]
                                                                    ELSE new[i]]
  BY Zenon DEF Reorg
<1> PICK new :
      /\ \A i \in Len(chain) - k + 1 .. Len(chain) : new[i] \in Block
      /\ chain' = [i \in DOMAIN chain |-> IF i <= Len(chain) - k THEN chain[i]
                                                                 ELSE new[i]]
  BY Zenon
<1>1. /\ chain \in Seq(Block) /\ DOMAIN chain = 1 .. Len(chain) /\ Len(chain) \in Nat
      /\ k \in Nat /\ k <= MaxReorg /\ MaxReorg \in Nat
  BY BoundAssumption DEF ChainOK
<1>2. ASSUME NEW i \in 1 .. Len(chain) PROVE chain'[i] \in Block
  <2>1. CASE i <= Len(chain) - k
    <3>1. chain'[i] = chain[i] /\ chain[i] \in Block
      BY <1>1, <2>1
    <3> QED BY <3>1
  <2>2. CASE ~(i <= Len(chain) - k)
    <3>1. chain'[i] = new[i] /\ i \in Len(chain) - k + 1 .. Len(chain)
      BY <1>1, <2>2
    <3> QED BY <3>1
  <2> QED BY <2>1, <2>2
<1>3. chain' \in [1 .. Len(chain) -> Block]
  BY <1>1, <1>2
<1>4. chain' \in Seq(Block) /\ Len(chain') = Len(chain)
  <2>1. DOMAIN chain' = 1 .. Len(chain)
    BY <1>1
  <2>2. Len(chain') = Len(chain)
    BY <1>1, <2>1
  <2> QED BY <1>1, <1>3, <2>2
<1>5. \A i \in 1 .. Len(chain) - k : chain'[i] = chain[i]
  BY <1>1
<1>6. chain'[1] = chain[1] /\ chain' # <<>>
  <2>1. 1 \in 1 .. Len(chain) - k /\ Len(chain) > 0
    BY <1>1
  <2>2. Len(chain') > 0 /\ Len(<<>>) = 0
    BY <1>4, <2>1
  <2> QED BY <1>5, <2>1, <2>2
<1>7. /\ reorged' \in BOOLEAN /\ growth' = growth /\ MinedOnce(chain')
      /\ growth \in 0 .. MaxGrowth /\ ~chain[1].included
  BY DEF Reorg, ChainOK, inputVars
<1>8. \A i \in 1 .. Len(chain) - MaxReorg : chain'[i] = chain[i]
  BY <1>1, <1>5
<1> QED
  BY <1>4, <1>6, <1>7, <1>8 DEF ChainOK

-----------------------------------------------------------------------------
(***************************************************************************)
(* What the adapter knows.  While it reads, the block it was told of holds *)
(* the transaction, or lies so shallow that it cannot become final before  *)
(* the head is read: that alternative is what makes the reads safe.  Once  *)
(* the block is final no reorganisation reaches it, so later reads are of  *)
(* the very blocks the verdict is about.                                   *)
(***************************************************************************)
Early == {"idle", "tx", "receipt", "events", "head"}

Shallow == Len(chain) - growth - block < MaxReorg

BlockOK ==
    /\ block \in Nat
    /\ pc \in {"idle", "tx"} => block = 0
    /\ live /\ block # 0 => block \in 2 .. Len(chain)
    /\ live /\ block # 0 /\ pc \in Early => chain[block].included \/ Shallow

FinalOK ==
    /\ pc \in Early => ~isFinal /\ before = Unread /\ after = Unread
    /\ live /\ block # 0 /\ isFinal =>
         /\ chain[block].included
         /\ Len(chain) - block >= Required
         /\ before # Unread => before = chain[block - 1].balance
         /\ after # Unread => after = chain[block].balance
    /\ live /\ block # 0 /\ pc = "engine" => before # Unread /\ after # Unread

\* What each status of the pipeline has established.
StatusOK ==
    /\ pc \in Reading \union {"idle"} => status \in {"OBSERVED", "PENDING"}
    /\ live /\ receipt = "success" => content.success
    /\ status \in {"EXECUTED", "ASSET_CONFIRMED", "BALANCE_CONFIRMED", "FINAL",
                   "SPENDABLE"} =>
         /\ block # 0 /\ receipt = "success"
         /\ live => before # Unread /\ after # Unread
    /\ status \in {"ASSET_CONFIRMED", "BALANCE_CONFIRMED", "FINAL", "SPENDABLE"} =>
         asset # NoAsset /\ claim.asset \in {NoAsset, asset}
    /\ status \in {"BALANCE_CONFIRMED", "FINAL", "SPENDABLE"} =>
         RecipientOk /\ AmountOk /\ BalanceOk
    /\ status \in {"FINAL", "SPENDABLE"} => isFinal

IInv == ChainOK /\ BlockOK /\ FinalOK /\ StatusOK

\* What the proofs use of the bounds.
LEMMA Bounds ==
  /\ Required \in Nat /\ MaxReorg \in Nat /\ MaxGrowth \in Nat
  /\ MaxReorg <= Required /\ MaxReorg + MaxGrowth <= Required
  BY BoundAssumption, SettlementAssumption

\* The initial state satisfies the invariant.
LEMMA InitHolds == Init => IInv
<1> SUFFICES ASSUME Init PROVE IInv
  OBVIOUS
<1>1. BlockOK
  BY DEF Init, BlockOK
<1>2. FinalOK
  BY Zenon DEF Init, FinalOK, Early
<1>3. StatusOK
  BY Zenon DEF Init, StatusOK
<1> QED
  BY <1>1, <1>2, <1>3, InitChain, Zenon DEF IInv

\* A new block keeps it: a block read as final only gets deeper.
LEMMA GrowHolds == IInv /\ Grow => IInv'
<1> SUFFICES ASSUME IInv, Grow PROVE IInv'
  OBVIOUS
<1>1. /\ ChainOK' /\ Len(chain') = Len(chain) + 1
      /\ \A i \in 1 .. Len(chain) : chain'[i] = chain[i]
      /\ growth' = IF pc \in Reading THEN growth + 1 ELSE growth
  BY GrowKeeps DEF IInv
<1>2. Len(chain) \in Nat /\ growth \in Nat
  BY BoundAssumption DEF IInv, ChainOK
<1>3. UNCHANGED <<inputVars, pc, adapterVars, engineVars>>
  BY DEF Grow
<1>4. BlockOK'
  <2>1. UNCHANGED <<pc, live, block>> /\ BlockOK
    BY <1>3 DEF IInv, adapterVars, inputVars
  <2>2. block # 0 /\ pc \in Early /\ Shallow => Shallow'
    BY <1>1, <1>2, <2>1 DEF BlockOK, Shallow, Early, Reading
  <2> QED
    BY <1>1, <1>2, <2>1, <2>2 DEF BlockOK
<1>5. FinalOK'
  BY <1>1, <1>2, <1>3, Bounds
  DEF IInv, BlockOK, FinalOK, Early, adapterVars, inputVars
<1>6. StatusOK'
  BY <1>3, Zenon DEF IInv, StatusOK, RecipientOk, AmountOk, BalanceOk,
     TransferIndex, ToRecipient, InClaimedAsset, OfClaimedId, adapterVars, inputVars,
     engineVars
<1> QED
  BY <1>1, <1>4, <1>5, <1>6, Zenon DEF IInv

\* A reorganisation keeps it: it does not reach a block read as final, and what
\* it may still replace is too shallow to be read as final in this request.
LEMMA ReorgHolds == IInv /\ Reorg => IInv'
<1> SUFFICES ASSUME IInv, Reorg PROVE IInv'
  OBVIOUS
<1>1. /\ ChainOK' /\ Len(chain') = Len(chain) /\ growth' = growth
      /\ \A i \in 1 .. Len(chain) - MaxReorg : chain'[i] = chain[i]
  BY ReorgKeeps DEF IInv
<1>2. Len(chain) \in Nat /\ growth \in Nat
  BY BoundAssumption DEF IInv, ChainOK
<1>3. UNCHANGED <<inputVars, pc, adapterVars, engineVars>>
  BY DEF Reorg
<1>4. BlockOK'
  BY <1>1, <1>2, <1>3, Bounds
  DEF IInv, BlockOK, Shallow, Early, adapterVars, inputVars
<1>5. FinalOK'
  BY <1>1, <1>2, <1>3, Bounds
  DEF IInv, BlockOK, FinalOK, Early, adapterVars, inputVars
<1>6. StatusOK'
  BY <1>3, Zenon DEF IInv, StatusOK, RecipientOk, AmountOk, BalanceOk,
     TransferIndex, ToRecipient, InClaimedAsset, OfClaimedId, adapterVars, inputVars,
     engineVars
<1> QED
  BY <1>1, <1>4, <1>5, <1>6, Zenon DEF IInv

\* The adapter's reads.
LEMMA AdapterHolds == IInv /\ Adapter => IInv'
<1> SUFFICES ASSUME IInv, Adapter PROVE IInv'
  OBVIOUS
<1>0. UNCHANGED <<chainVars, inputVars>> /\ ChainOK'
  BY DEF Adapter, Receive, ReadTransaction, ReadReceipt, ReadEvents, ReadHead,
         ReadBefore, ReadAfter, RpcFails, ReadMock, IInv, ChainOK, chainVars
<1> USE DEF chainVars, inputVars, adapterVars, engineVars
<1>1. CASE Receive
  <2>1. BlockOK' /\ FinalOK'
    BY <1>0, <1>1 DEF Receive, IInv, BlockOK, FinalOK, Shallow, Early
  <2>2. StatusOK'
    BY <1>0, <1>1 DEF Receive, IInv, StatusOK
  <2> QED
    BY <1>0, <2>1, <2>2, Zenon DEF IInv
<1>2. CASE ReadTransaction
  <2>1. block' = 0 \/ block' \in Mined
    BY <1>2 DEF ReadTransaction
  <2>2. block' # 0 => block' \in 2 .. Len(chain) /\ chain[block'].included
    BY <2>1 DEF Mined, IInv, ChainOK
  <2>3. BlockOK'
    BY <1>0, <1>2, <2>2 DEF ReadTransaction, IInv, ChainOK, BlockOK, Shallow, Early
  <2>4. FinalOK'
    BY <1>0, <1>2 DEF ReadTransaction, IInv, FinalOK, Early
  <2>5. StatusOK'
    BY <1>0, <1>2 DEF ReadTransaction, IInv, StatusOK
  <2> QED
    BY <1>0, <2>3, <2>4, <2>5, Zenon DEF IInv
<1>3. CASE ReadReceipt
  <2>1. BlockOK' /\ FinalOK'
    BY <1>0, <1>3 DEF ReadReceipt, IInv, BlockOK, FinalOK, Shallow, Early
  <2>2. StatusOK'
    BY <1>0, <1>3 DEF ReadReceipt, IInv, StatusOK
  <2> QED
    BY <1>0, <2>1, <2>2, Zenon DEF IInv
<1>4. CASE ReadEvents
  <2>1. BlockOK' /\ FinalOK'
    BY <1>0, <1>4 DEF ReadEvents, IInv, BlockOK, FinalOK, Shallow, Early
  <2>2. StatusOK'
    BY <1>0, <1>4 DEF ReadEvents, IInv, StatusOK
  <2> QED
    BY <1>0, <2>1, <2>2, Zenon DEF IInv
<1>5. CASE ReadHead
  <2>1. BlockOK'
    BY <1>0, <1>5 DEF ReadHead, IInv, BlockOK, Shallow, Early
  <2>2. live /\ block # 0 /\ Len(chain) - block >= Required => chain[block].included
    BY <1>5, Bounds DEF ReadHead, IInv, ChainOK, BlockOK, Shallow, Early
  <2>3. isFinal' <=> Len(chain) - block >= Required
    BY <1>5 DEF ReadHead
  <2>4. FinalOK'
    BY <1>0, <1>5, <2>2, <2>3 DEF ReadHead, IInv, FinalOK, Early
  <2>5. StatusOK'
    BY <1>0, <1>5 DEF ReadHead, IInv, StatusOK
  <2> QED
    BY <1>0, <2>1, <2>4, <2>5, Zenon DEF IInv
<1>6. CASE ReadBefore \/ ReadAfter
  <2>1. BlockOK'
    BY <1>0, <1>6 DEF ReadBefore, ReadAfter, IInv, BlockOK, Shallow, Early
  <2>2. live /\ block # 0 => /\ chain[block - 1].balance # Unread
                              /\ chain[block].balance # Unread
    <3> SUFFICES ASSUME live, block # 0
                 PROVE  /\ chain[block - 1].balance # Unread
                        /\ chain[block].balance # Unread
      OBVIOUS
    <3>1. chain[block - 1] \in Block /\ chain[block] \in Block
      BY DEF IInv, ChainOK, BlockOK
    <3> QED
      BY <3>1, BalanceAssumption DEF Block, Unread
  <2>3. CASE ReadBefore
    <3>1. FinalOK'
      BY <1>0, <2>2, <2>3 DEF ReadBefore, IInv, FinalOK, Early
    <3> QED
      BY <1>0, <2>1, <3>1, <2>3 DEF ReadBefore, IInv, StatusOK
  <2>4. CASE ReadAfter
    <3>1. FinalOK'
      BY <1>0, <2>2, <2>4 DEF ReadAfter, IInv, FinalOK, Early
    <3> QED
      BY <1>0, <2>1, <3>1, <2>4 DEF ReadAfter, IInv, StatusOK
  <2> QED
    BY <1>6, <2>3, <2>4
<1>7. CASE RpcFails
  <2>1. BlockOK' /\ FinalOK'
    BY <1>0, <1>7 DEF RpcFails, Forget, IInv, BlockOK, FinalOK, Shallow, Early
  <2>2. StatusOK'
    BY <1>0, <1>7 DEF RpcFails, Forget, IInv, StatusOK
  <2> QED
    BY <1>0, <2>1, <2>2, Zenon DEF IInv
<1>8. CASE ReadMock
  <2>1. BlockOK' /\ FinalOK'
    BY <1>0, <1>8 DEF ReadMock, IInv, BlockOK, FinalOK, Shallow, Early
  <2>2. StatusOK'
    BY <1>0, <1>8 DEF ReadMock, IInv, StatusOK
  <2> QED
    BY <1>0, <2>1, <2>2, Zenon DEF IInv
<1> QED
  BY <1>1, <1>2, <1>3, <1>4, <1>5, <1>6, <1>7, <1>8, Zenon DEF Adapter

\* The pipeline: each status is entered through the check it stands for.
LEMMA PipelineHolds == IInv /\ Pipeline => IInv'
<1> SUFFICES ASSUME IInv, Pipeline PROVE IInv'
  OBVIOUS
<1>0. /\ UNCHANGED <<chainVars, inputVars, adapterVars>>
      /\ pc = "engine" /\ pc' \in {"engine", "finalize", "threw"}
  BY DEF Pipeline, CheckExecution, CheckAsset, CheckTransfer, CheckFinality,
         CheckSpendability, Stage, Advance
<1>1. ChainOK' /\ BlockOK' /\ FinalOK'
  BY <1>0 DEF chainVars, inputVars, adapterVars, IInv, ChainOK, BlockOK, FinalOK,
              Shallow, Early
<1>2. /\ RecipientOk' <=> RecipientOk
      /\ AmountOk' <=> AmountOk
      /\ BalanceOk' <=> BalanceOk
  BY <1>0, Zenon DEF inputVars, adapterVars, RecipientOk, AmountOk, BalanceOk,
                TransferIndex, ToRecipient, InClaimedAsset, OfClaimedId
<1>3. live /\ block # 0 => before # Unread /\ after # Unread
  BY <1>0 DEF IInv, FinalOK
<1> USE DEF chainVars, inputVars, adapterVars
<1> HIDE DEF RecipientOk, AmountOk, BalanceOk
<1>4. StatusOK'
  <2>1. CASE CheckExecution
    BY <1>0, <1>3, <2>1 DEF CheckExecution, Stage, Advance, Allowed, IInv, StatusOK
  <2>2. CASE CheckAsset
    BY <1>0, <1>2, <2>2 DEF CheckAsset, Stage, Advance, Allowed, IInv, StatusOK
  <2>3. CASE CheckTransfer
    BY <1>0, <1>2, <2>3 DEF CheckTransfer, Stage, Advance, Allowed, IInv, StatusOK
  <2>4. CASE CheckFinality
    BY <1>0, <1>2, <2>4 DEF CheckFinality, Stage, Advance, Allowed, IInv, StatusOK
  <2>5. CASE CheckSpendability
    BY <1>0, <1>2, <2>5
    DEF CheckSpendability, Stage, Advance, Allowed, IInv, StatusOK
  <2> QED
    BY <2>1, <2>2, <2>3, <2>4, <2>5 DEF Pipeline
<1> QED
  BY <1>1, <1>4, Zenon DEF IInv

\* What follows the pipeline changes nothing the invariant speaks of.
LEMMA HandlerHolds == IInv /\ (Handler \/ UNCHANGED vars) => IInv'
<1> SUFFICES ASSUME IInv, Handler \/ UNCHANGED vars PROVE IInv'
  OBVIOUS
<1>0. /\ UNCHANGED <<chainVars, inputVars, adapterVars, engineVars>>
      /\ pc' = pc \/ pc' \in {"mark", "failed", "save", "dispatch", "replied"}
  BY DEF Handler, Finalize, FinalizeFails, MarkMock, Save, Dispatch,
         HandlerFails, vars
<1>1. ChainOK' /\ BlockOK' /\ FinalOK'
  BY <1>0 DEF chainVars, inputVars, adapterVars, IInv, ChainOK, BlockOK, FinalOK,
              Shallow, Early
<1>2. /\ RecipientOk' <=> RecipientOk
      /\ AmountOk' <=> AmountOk
      /\ BalanceOk' <=> BalanceOk
  BY <1>0, Zenon DEF inputVars, adapterVars, RecipientOk, AmountOk, BalanceOk,
                TransferIndex, ToRecipient, InClaimedAsset, OfClaimedId
<1>3. StatusOK'
  BY <1>0, <1>2 DEF inputVars, adapterVars, engineVars, IInv, StatusOK
<1> QED
  BY <1>1, <1>3, Zenon DEF IInv

\* The invariant holds in every state.
LEMMA IInvHolds == Spec => []IInv
<1>1. IInv /\ [Next]_vars => IInv'
  BY GrowHolds, ReorgHolds, AdapterHolds, PipelineHolds, HandlerHolds
  DEF Next, Request
<1> QED
  BY InitHolds, <1>1, PTL DEF Spec

-----------------------------------------------------------------------------
(***************************************************************************)
(* Verdicts that are not SPENDABLE.  Without a reorganisation the balances *)
(* read are those of the block and of the one before it, so that a         *)
(* mismatch found in them is one of the chain.                             *)
(***************************************************************************)
AlarmOK ==
    /\ live /\ ~reorged /\ block # 0 =>
         /\ before # Unread => before = chain[block - 1].balance
         /\ after # Unread => after = chain[block].balance
    /\ status = "SUSPICIOUS" =>
         block # 0 /\ RecipientOk /\ ~BalanceOk
         /\ (live => before # Unread /\ after # Unread)

\* The chain moves: a reorganisation after the claim is remembered, and before
\* it nothing has been read.
LEMMA ChainKeepsAlarm == IInv /\ AlarmOK /\ (Grow \/ Reorg) => AlarmOK'
<1> SUFFICES ASSUME IInv, AlarmOK, Grow \/ Reorg PROVE AlarmOK'
  OBVIOUS
<1>1. UNCHANGED <<inputVars, pc, adapterVars, engineVars>>
  BY DEF Grow, Reorg
<1>2. (BalanceOk' <=> BalanceOk) /\ (RecipientOk' <=> RecipientOk)
  BY <1>1, Zenon DEF BalanceOk, RecipientOk, TransferIndex, ToRecipient, InClaimedAsset, OfClaimedId,
     adapterVars, inputVars
<1>3. ASSUME live, ~reorged', block # 0
      PROVE  ~reorged /\ chain'[block] = chain[block]
             /\ chain'[block - 1] = chain[block - 1]
  <2>1. block \in 2 .. Len(chain) /\ pc # "idle"
    BY <1>3 DEF IInv, BlockOK
  <2>2. ~Reorg
    BY <1>3, <2>1, Zenon DEF Reorg
  <2>3. ~reorged
    BY <1>3, <2>2, Zenon DEF Grow
  <2>4. \A i \in 1 .. Len(chain) : chain'[i] = chain[i]
    BY <2>2, GrowKeeps DEF IInv
  <2> QED
    BY <2>1, <2>3, <2>4 DEF IInv, ChainOK
<1> QED
  BY <1>1, <1>2, <1>3 DEF AlarmOK, inputVars, adapterVars, engineVars

\* The reads: until the balances are read neither is known.
LEMMA AdapterKeepsAlarm == IInv /\ AlarmOK /\ Adapter => AlarmOK'
<1> SUFFICES ASSUME IInv, AlarmOK, Adapter PROVE AlarmOK'
  OBVIOUS
<1> USE DEF chainVars, inputVars, adapterVars, engineVars
<1>1. status' \in {status, "PENDING"} /\ status # "SUSPICIOUS"
      /\ UNCHANGED <<chainVars, inputVars>>
  BY DEF Adapter, Receive, ReadTransaction, ReadReceipt, ReadEvents, ReadHead,
         ReadBefore, ReadAfter, RpcFails, ReadMock, IInv, StatusOK
<1>2. CASE Receive \/ ReadTransaction \/ ReadReceipt \/ ReadEvents
  <2>1. UNCHANGED <<before, after>> /\ (UNCHANGED block \/ pc = "tx")
    BY <1>2 DEF Receive, ReadTransaction, ReadReceipt, ReadEvents
  <2> QED
    BY <1>1, <2>1 DEF AlarmOK, IInv, FinalOK, Early
<1>7. CASE RpcFails
  BY <1>1, <1>7 DEF RpcFails, Forget, AlarmOK, IInv, FinalOK, Early
<1>3. CASE ReadHead
  BY <1>1, <1>3 DEF ReadHead, AlarmOK
<1>4. CASE ReadBefore
  BY <1>1, <1>4 DEF ReadBefore, AlarmOK
<1>5. CASE ReadAfter
  BY <1>1, <1>5 DEF ReadAfter, AlarmOK
<1>6. CASE ReadMock
  BY <1>1, <1>6 DEF ReadMock, AlarmOK
<1> QED
  BY <1>2, <1>3, <1>4, <1>5, <1>6, <1>7, Zenon DEF Adapter

\* The pipeline: the balance check is the only way to SUSPICIOUS.
LEMMA PipelineKeepsAlarm ==
  IInv /\ AlarmOK /\ (Pipeline \/ Handler \/ UNCHANGED vars) => AlarmOK'
<1> SUFFICES ASSUME IInv, AlarmOK, Pipeline \/ Handler \/ UNCHANGED vars
             PROVE  AlarmOK'
  OBVIOUS
<1>1. UNCHANGED <<chainVars, inputVars, adapterVars>>
  BY DEF Pipeline, CheckExecution, CheckAsset, CheckTransfer, CheckFinality,
         CheckSpendability, Stage, Handler, Finalize, FinalizeFails, MarkMock,
         Save, Dispatch, HandlerFails, vars
<1>2. (BalanceOk' <=> BalanceOk) /\ (RecipientOk' <=> RecipientOk)
  BY <1>1, Zenon DEF BalanceOk, RecipientOk, TransferIndex, ToRecipient, InClaimedAsset, OfClaimedId,
     adapterVars, inputVars
<1> HIDE DEF BalanceOk, RecipientOk, AmountOk
<1>3. ASSUME status' = "SUSPICIOUS", status # "SUSPICIOUS"
      PROVE  status = "ASSET_CONFIRMED" /\ RecipientOk /\ ~BalanceOk
  BY <1>3 DEF Pipeline, CheckExecution, CheckAsset, CheckTransfer, CheckFinality,
         CheckSpendability, Stage, Advance, Handler, Finalize, FinalizeFails,
         MarkMock, Save, Dispatch, HandlerFails, vars, engineVars
<1> QED
  BY <1>1, <1>2, <1>3 DEF AlarmOK, IInv, StatusOK, chainVars, inputVars, adapterVars

-----------------------------------------------------------------------------
(***************************************************************************)
(* The pipeline and its evidence.  Each status it passes through has one   *)
(* set of evidence; a status it ends with adds what was refuted.           *)
(***************************************************************************)
Executed == {<<"TRANSACTION_INCLUDED", TRUE>>, <<"EXECUTION_SUCCESS", TRUE>>}
AssetShown == Executed \union {<<"ASSET_MATCH", TRUE>>}
TransferShown ==
    AssetShown \union {<<"RECIPIENT_MATCH", TRUE>>, <<"AMOUNT_MATCH", TRUE>>}
BalanceShown == TransferShown \union {<<"BALANCE_DELTA", TRUE>>}
FinalShown == BalanceShown \union {<<"FINALITY", TRUE>>}
Closed == {"REJECTED", "UNVERIFIED", "SUSPICIOUS", "SPENDABLE"}

Explained ==
    /\ status \in {"OBSERVED", "PENDING"} => evidence = {}
    /\ status = "EXECUTED"          => evidence = Executed
    /\ status = "ASSET_CONFIRMED"   => evidence = AssetShown
    /\ status = "BALANCE_CONFIRMED" => evidence = BalanceShown
    /\ status = "FINAL"             => evidence = FinalShown
    /\ status = "SPENDABLE" =>
         evidence = FinalShown \union {<<"SPENDABILITY", TRUE>>}
    /\ status = "REJECTED" =>
         \/ evidence = {<<"TRANSACTION_INCLUDED", FALSE>>}
         \/ evidence = {<<"TRANSACTION_INCLUDED", TRUE>>,
                        <<"EXECUTION_SUCCESS", FALSE>>}
    /\ status = "SUSPICIOUS" =>
         evidence = TransferShown \union {<<"BALANCE_DELTA", FALSE>>}
    /\ status = "UNVERIFIED" =>
         \/ evidence = Executed \union {<<"ASSET_MATCH", FALSE>>}
         \/ \E recipient, amount \in BOOLEAN :
              /\ ~(recipient /\ amount)
              /\ evidence = AssetShown \union {<<"RECIPIENT_MATCH", recipient>>,
                                               <<"AMOUNT_MATCH", amount>>}
         \/ evidence = BalanceShown \union {<<"FINALITY", FALSE>>}

PhaseOK ==
    /\ pc = "idle" => status = "OBSERVED"
    /\ pc \in Reading => status = "PENDING"
    /\ pc = "engine" => status \in {"PENDING", "EXECUTED", "ASSET_CONFIRMED",
                                    "BALANCE_CONFIRMED", "FINAL"}
    /\ pc \in {"finalize", "mark", "save", "dispatch", "replied"} => status \in Closed
    /\ pc \in Reading \union {"idle", "engine", "finalize"} => verdict = NoVerdict
    /\ verdict # NoVerdict => status \in Closed
    /\ pc # "threw"
    /\ described \in BOOLEAN /\ isFinal \in BOOLEAN

EvidenceOK == PhaseOK /\ Explained


\* The chain and the adapter: nothing is found yet.
LEMMA ReadsKeepEvidence ==
  IInv /\ EvidenceOK /\ (Grow \/ Reorg \/ Adapter) => EvidenceOK'
<1> SUFFICES ASSUME IInv, EvidenceOK, Grow \/ Reorg \/ Adapter PROVE EvidenceOK'
  OBVIOUS
<1>1. UNCHANGED evidence /\ UNCHANGED <<verdict, claim>>
  BY DEF Grow, Reorg, Adapter, Receive, ReadTransaction, ReadReceipt, ReadEvents,
         ReadHead, ReadBefore, ReadAfter, RpcFails, ReadMock, engineVars,
         replyVars, inputVars
<1>2. CASE Grow \/ Reorg
  <2>1. UNCHANGED <<status, pc, described, isFinal>>
    BY <1>2 DEF Grow, Reorg, engineVars, adapterVars
  <2> QED
    <3>1. Explained'
      BY <1>1, <2>1, Zenon DEF EvidenceOK, Explained
    <3>2. PhaseOK'
      BY <1>1, <2>1, Zenon DEF EvidenceOK, PhaseOK
    <3> QED
      BY <3>1, <3>2 DEF EvidenceOK
<1>3. CASE Adapter
  <2>0. pc \in Reading \union {"idle"}
    BY <1>3 DEF Adapter, Receive, ReadTransaction, ReadReceipt, ReadEvents,
         ReadHead, ReadBefore, ReadAfter, RpcFails, ReadMock
  <2>1. status \in {"OBSERVED", "PENDING"} /\ (pc # "idle" => status = "PENDING")
    BY <2>0 DEF EvidenceOK, PhaseOK
  <2>2. /\ status' = "PENDING"
        /\ pc' \in Reading \union {"engine", "failed"}
    <3>1. CASE Receive \/ ReadTransaction \/ ReadReceipt \/ ReadEvents
      BY <2>1, <3>1 DEF Receive, ReadTransaction, ReadReceipt, ReadEvents, engineVars
    <3>2. CASE ReadHead \/ ReadBefore \/ ReadAfter \/ RpcFails \/ ReadMock
      BY <2>1, <3>2 DEF ReadHead, ReadBefore, ReadAfter, RpcFails, ReadMock, engineVars
    <3> QED
      BY <1>3, <3>1, <3>2 DEF Adapter
  <2>3. isFinal' \in BOOLEAN
    <3>1. isFinal \in BOOLEAN
      BY DEF EvidenceOK, PhaseOK
    <3>2. CASE ReadHead \/ ReadMock \/ RpcFails
      <4>1. \/ isFinal' = (Len(chain) - block >= Required)
            \/ isFinal' = TRUE \/ isFinal' = FALSE
        BY <3>2, Zenon DEF ReadHead, ReadMock, RpcFails, Forget
      <4>2. Len(chain) \in Int /\ block \in Int /\ Required \in Int
        BY Bounds DEF IInv, ChainOK, BlockOK
      <4>3. (Len(chain) - block >= Required) \in BOOLEAN
        BY <4>2
      <4> QED
        BY <4>1, <4>3, Zenon
    <3>3. ASSUME ~ReadHead, ~ReadMock, ~RpcFails PROVE isFinal' = isFinal
      BY <1>3, <3>3, Zenon DEF Adapter, Receive, ReadTransaction, ReadReceipt,
         ReadEvents, ReadBefore, ReadAfter, adapterVars
    <3> QED
      BY <3>1, <3>2, <3>3
  <2>7. described' \in BOOLEAN
    <3>1. described \in BOOLEAN
      BY DEF EvidenceOK, PhaseOK
    <3>2. CASE ReadEvents \/ ReadMock \/ RpcFails
      BY <3>2, Zenon DEF ReadEvents, ReadMock, DescribeAsset, RpcFails, Forget
    <3>3. ASSUME ~ReadEvents, ~ReadMock, ~RpcFails PROVE described' = described
      BY <1>3, <3>3, Zenon DEF Adapter, Receive, ReadTransaction, ReadReceipt,
         ReadHead, ReadBefore, ReadAfter, adapterVars
    <3> QED
      BY <3>1, <3>2, <3>3
  <2>4. evidence' = {} /\ verdict' = NoVerdict
    BY <1>1, <2>0, <2>1 DEF EvidenceOK, PhaseOK, Explained
  <2>5. Explained'
    BY <2>2, <2>4, Zenon DEF Explained
  <2>6. PhaseOK'
    BY <1>1, <2>2, <2>3, <2>4, <2>7 DEF EvidenceOK, PhaseOK
  <2> QED
    BY <2>5, <2>6 DEF EvidenceOK
<1> QED
  BY <1>2, <1>3

\* Each check finds a transition the table allows.
LEMMA PipelineKeepsEvidence == EvidenceOK /\ Pipeline => EvidenceOK'
<1> SUFFICES ASSUME EvidenceOK, Pipeline PROVE EvidenceOK'
  OBVIOUS
<1>0. /\ pc = "engine" /\ verdict' = NoVerdict
      /\ UNCHANGED <<described, isFinal>>
  BY DEF Pipeline, CheckExecution, CheckAsset, CheckTransfer, CheckFinality,
         CheckSpendability, Stage, inputVars, adapterVars, replyVars,
         EvidenceOK, PhaseOK
<1> HIDE DEF RecipientOk, AmountOk, BalanceOk
<1> DEFINE Goes(next, found) ==
      /\ evidence' = evidence \union found /\ status' = next
      /\ pc' = IF next \in Closed THEN "finalize" ELSE "engine"
<1> DEFINE Found(found) == evidence' = evidence \union found
<1>7. ASSUME NEW next, NEW found, next \in Allowed[status], Found(found),
             Advance(next, IF next \in Closed THEN "finalize" ELSE "engine")
      PROVE  Goes(next, found)
  BY <1>7 DEF Advance
<1>1. ASSUME NEW next \in VerificationStatus \ {"OBSERVED", "PENDING"}, NEW found,
             Goes(next, found)
      PROVE  PhaseOK'
  BY <1>0, <1>1 DEF EvidenceOK, PhaseOK, Closed
<1>2. CASE CheckExecution
  <2>1. status = "PENDING" /\ evidence = {}
    BY <1>2 DEF CheckExecution, Stage, EvidenceOK, Explained
  <2>2. \/ Goes("REJECTED", {<<"TRANSACTION_INCLUDED", FALSE>>})
        \/ Goes("REJECTED", {<<"TRANSACTION_INCLUDED", TRUE>>,
                             <<"EXECUTION_SUCCESS", FALSE>>})
        \/ Goes("EXECUTED", Executed)
    <3>1. CASE block = 0
      <4>1. (block # 0) = FALSE
        BY <3>1
      <4>2. Found({<<"TRANSACTION_INCLUDED", FALSE>>})
        BY <1>2, <4>1 DEF CheckExecution, Stage
      <4>3. Advance("REJECTED", "finalize")
        BY <1>2, <3>1 DEF CheckExecution
      <4> QED
        BY <1>7, <2>1, <4>2, <4>3 DEF Allowed, Closed
    <3>2. CASE block # 0 /\ receipt # "success"
      <4>1. (block # 0) = TRUE /\ (receipt = "success") = FALSE
        BY <3>2
      <4>2. Found({<<"TRANSACTION_INCLUDED", TRUE>>, <<"EXECUTION_SUCCESS", FALSE>>})
        BY <1>2, <4>1 DEF CheckExecution, Stage
      <4>3. Advance("REJECTED", "finalize")
        BY <1>2, <3>2 DEF CheckExecution
      <4> QED
        BY <1>7, <2>1, <4>2, <4>3 DEF Allowed, Closed
    <3>3. CASE block # 0 /\ receipt = "success"
      <4>1. (block # 0) = TRUE /\ (receipt = "success") = TRUE
        BY <3>3
      <4>2. Found(Executed)
        BY <1>2, <4>1 DEF CheckExecution, Stage, Executed
      <4>3. Advance("EXECUTED", "engine")
        BY <1>2, <3>3 DEF CheckExecution
      <4> QED
        BY <1>7, <2>1, <4>2, <4>3 DEF Allowed, Closed
    <3> QED
      BY <3>1, <3>2, <3>3
  <2>3. Explained'
    BY <2>1, <2>2 DEF Explained
  <2> QED
    BY <1>1, <2>2, <2>3 DEF EvidenceOK
<1>3. CASE CheckAsset
  <2>1. status = "EXECUTED" /\ evidence = Executed
    BY <1>3 DEF CheckAsset, Stage, EvidenceOK, Explained
  <2> DEFINE assetOk == /\ asset # NoAsset /\ described
                        /\ claim.asset \in {NoAsset, asset}
  <2>2. \/ Goes("UNVERIFIED", {<<"ASSET_MATCH", FALSE>>})
        \/ Goes("ASSET_CONFIRMED", {<<"ASSET_MATCH", TRUE>>})
    <3>1. assetOk \in BOOLEAN
      BY DEF EvidenceOK, PhaseOK
    <3>2. CASE assetOk = TRUE
      <4>1. Found({<<"ASSET_MATCH", TRUE>>}) /\ Advance("ASSET_CONFIRMED", "engine")
        BY <1>3, <3>2 DEF CheckAsset, Stage
      <4> QED
        BY <1>7, <2>1, <4>1 DEF Allowed, Closed
    <3>3. CASE assetOk = FALSE
      <4>1. Found({<<"ASSET_MATCH", FALSE>>}) /\ Advance("UNVERIFIED", "finalize")
        BY <1>3, <3>3 DEF CheckAsset, Stage
      <4> QED
        BY <1>7, <2>1, <4>1 DEF Allowed, Closed
    <3> QED
      BY <3>1, <3>2, <3>3
  <2>3. Explained'
    BY <2>1, <2>2 DEF Explained, AssetShown
  <2> QED
    BY <1>1, <2>2, <2>3 DEF EvidenceOK
<1>4. CASE CheckTransfer
  <2>1. status = "ASSET_CONFIRMED" /\ evidence = AssetShown
    BY <1>4 DEF CheckTransfer, Stage, EvidenceOK, Explained
  <2>2. \/ \E recipient, amount \in BOOLEAN :
             /\ ~(recipient /\ amount)
             /\ Goes("UNVERIFIED", {<<"RECIPIENT_MATCH", recipient>>,
                                    <<"AMOUNT_MATCH", amount>>})
        \/ Goes("SUSPICIOUS", {<<"RECIPIENT_MATCH", TRUE>>,
                               <<"AMOUNT_MATCH", TRUE>>, <<"BALANCE_DELTA", FALSE>>})
        \/ Goes("BALANCE_CONFIRMED", {<<"RECIPIENT_MATCH", TRUE>>,
                               <<"AMOUNT_MATCH", TRUE>>, <<"BALANCE_DELTA", TRUE>>})
    <3>1. RecipientOk \in BOOLEAN /\ AmountOk \in BOOLEAN /\ BalanceOk \in BOOLEAN
      BY DEF RecipientOk, AmountOk, BalanceOk
    <3>2. CASE ~(RecipientOk /\ AmountOk)
      <4>1. /\ Found({<<"RECIPIENT_MATCH", RecipientOk>>, <<"AMOUNT_MATCH", AmountOk>>})
            /\ Advance("UNVERIFIED", "finalize")
        BY <1>4, <3>2 DEF CheckTransfer, Stage
      <4>2. Goes("UNVERIFIED", {<<"RECIPIENT_MATCH", RecipientOk>>,
                                <<"AMOUNT_MATCH", AmountOk>>})
        BY <1>7, <2>1, <4>1 DEF Allowed, Closed
      <4> QED
        BY <3>1, <3>2, <4>2
    <3>3. CASE RecipientOk = TRUE /\ AmountOk = TRUE /\ BalanceOk = FALSE
      <4>1. /\ Found({<<"RECIPIENT_MATCH", TRUE>>, <<"AMOUNT_MATCH", TRUE>>,
                      <<"BALANCE_DELTA", FALSE>>})
            /\ Advance("SUSPICIOUS", "finalize")
        BY <1>4, <3>3 DEF CheckTransfer, Stage
      <4> QED
        BY <1>7, <2>1, <4>1 DEF Allowed, Closed
    <3>4. CASE RecipientOk = TRUE /\ AmountOk = TRUE /\ BalanceOk = TRUE
      <4>1. /\ Found({<<"RECIPIENT_MATCH", TRUE>>, <<"AMOUNT_MATCH", TRUE>>,
                      <<"BALANCE_DELTA", TRUE>>})
            /\ Advance("BALANCE_CONFIRMED", "engine")
        BY <1>4, <3>4 DEF CheckTransfer, Stage
      <4> QED
        BY <1>7, <2>1, <4>1 DEF Allowed, Closed
    <3> QED
      BY <3>1, <3>2, <3>3, <3>4
  <2>3. Explained'
    BY <2>1, <2>2 DEF Explained, TransferShown, BalanceShown
  <2> QED
    BY <1>1, <2>2, <2>3 DEF EvidenceOK
<1>5. CASE CheckFinality
  <2>1. status = "BALANCE_CONFIRMED" /\ evidence = BalanceShown
    BY <1>5 DEF CheckFinality, Stage, EvidenceOK, Explained
  <2>2. \/ Goes("UNVERIFIED", {<<"FINALITY", FALSE>>})
        \/ Goes("FINAL", {<<"FINALITY", TRUE>>})
    <3>1. isFinal \in BOOLEAN
      BY DEF EvidenceOK, PhaseOK
    <3>2. CASE isFinal = TRUE
      <4>1. Found({<<"FINALITY", TRUE>>}) /\ Advance("FINAL", "engine")
        BY <1>5, <3>2 DEF CheckFinality, Stage
      <4> QED
        BY <1>7, <2>1, <4>1 DEF Allowed, Closed
    <3>3. CASE isFinal = FALSE
      <4>1. Found({<<"FINALITY", FALSE>>}) /\ Advance("UNVERIFIED", "finalize")
        BY <1>5, <3>3 DEF CheckFinality, Stage
      <4> QED
        BY <1>7, <2>1, <4>1 DEF Allowed, Closed
    <3> QED
      BY <3>1, <3>2, <3>3
  <2>3. Explained'
    BY <2>1, <2>2 DEF Explained, FinalShown
  <2> QED
    BY <1>1, <2>2, <2>3 DEF EvidenceOK
<1>6. CASE CheckSpendability
  <2>1. status = "FINAL" /\ evidence = FinalShown
    BY <1>6 DEF CheckSpendability, Stage, EvidenceOK, Explained
  <2>2. Goes("SPENDABLE", {<<"SPENDABILITY", TRUE>>})
    BY <1>6, <2>1 DEF CheckSpendability, Stage, Advance, Allowed, Closed
  <2>3. Explained'
    BY <2>1, <2>2 DEF Explained
  <2> QED
    BY <1>1, <2>2, <2>3 DEF EvidenceOK
<1> QED
  BY <1>2, <1>3, <1>4, <1>5, <1>6, Zenon DEF Pipeline

\* A closed status stays as it is while the handler deals with the verdict.
LEMMA HandlerKeepsEvidence == EvidenceOK /\ (Handler \/ UNCHANGED vars) => EvidenceOK'
<1> SUFFICES ASSUME EvidenceOK, Handler \/ UNCHANGED vars PROVE EvidenceOK'
  OBVIOUS
<1>1. UNCHANGED <<inputVars, adapterVars, engineVars>>
  BY DEF Handler, Finalize, FinalizeFails, MarkMock, Save, Dispatch, HandlerFails, vars
<1>2. Explained'
  BY <1>1, Zenon DEF engineVars, EvidenceOK, Explained
<1>3. CASE Handler
  <2>1. status \in Closed
        /\ pc' \in {"mark", "save", "dispatch", "replied", "failed"}
    BY <1>3 DEF Handler, Finalize, FinalizeFails, MarkMock, Save, Dispatch,
         HandlerFails, EvidenceOK, PhaseOK
  <2> QED
    BY <1>1, <1>2, <2>1 DEF EvidenceOK, PhaseOK, inputVars, adapterVars, engineVars
<1>4. CASE UNCHANGED vars
  BY <1>2, <1>4 DEF EvidenceOK, PhaseOK, vars, inputVars, adapterVars, engineVars, replyVars
<1> QED
  BY <1>3, <1>4

\* The evidence of the reads and checks holds in every state.
LEMMA EvidenceHolds == Spec => []EvidenceOK
<1>1. Init => EvidenceOK
  <2> SUFFICES ASSUME Init PROVE EvidenceOK
    OBVIOUS
  <2>1. claim \in Claim
    BY InputAssumption DEF Init
  <2> QED
    BY <2>1 DEF Init, EvidenceOK, PhaseOK, Explained, Claim
<1>2. IInv /\ EvidenceOK /\ [Next]_vars => EvidenceOK'
  BY ReadsKeepEvidence, PipelineKeepsEvidence, HandlerKeepsEvidence, Zenon
  DEF Next, Request
<1> QED
  BY <1>1, <1>2, IInvHolds, PTL DEF Spec

\* pushStatus never throws: for every chain, claim and transaction each move
\* of the pipeline is in the table of verdict-schema.
THEOREM TableCoversPipeline == Spec => []PipelineNeverThrows
<1>1. EvidenceOK => PipelineNeverThrows
  BY DEF EvidenceOK, PhaseOK, PipelineNeverThrows
<1> QED
  BY <1>1, EvidenceHolds, PTL

\* Two pairs are equal when their parts are.
LEMMA Pairs ==
  ASSUME NEW a, NEW b, NEW c, NEW d
  PROVE  <<a, b>> = <<c, d>> <=> a = c /\ b = d
  OBVIOUS

\* Every verdict is explained by the evidence it carries.
THEOREM StatusIsExplained == Spec => []EvidenceExplainsStatus
<1>1. EvidenceOK => EvidenceExplainsStatus
  <2> SUFFICES ASSUME EvidenceOK, verdict # NoVerdict PROVE EvidenceExplainsStatus
    BY DEF EvidenceExplainsStatus
  <2> USE DEF Executed, AssetShown, TransferShown, BalanceShown, FinalShown
  <2>1. status \in Closed /\ Explained
    BY DEF EvidenceOK, PhaseOK
  <2> DEFINE Shown(type, result) == <<type, result>> \in evidence
             AllShown == \A type \in EvidenceType : Shown(type, TRUE)
             Refuted(types) == \E type \in types : Shown(type, FALSE)
             Unexecuted == {"TRANSACTION_INCLUDED", "EXECUTION_SUCCESS"}
             Unmatched == {"ASSET_MATCH", "RECIPIENT_MATCH", "AMOUNT_MATCH",
                           "FINALITY"}
             EarlyTypes == {"TRANSACTION_INCLUDED", "EXECUTION_SUCCESS", "ASSET_MATCH",
                            "RECIPIENT_MATCH", "AMOUNT_MATCH"}
  <2>2. ASSUME status = "SPENDABLE"
        PROVE  /\ AllShown /\ ~Refuted(Unexecuted)
               /\ ~Refuted({"BALANCE_DELTA"}) /\ ~Refuted(Unmatched)
    <3>0. evidence = FinalShown \union {<<"SPENDABILITY", TRUE>>}
      BY <2>1, <2>2 DEF Explained
    <3>1. \A type, result : Shown(type, result) <=> type \in EvidenceType /\ result = TRUE
      BY <3>0, Pairs
    <3> QED
      BY <3>1
  <2>3. ASSUME status = "REJECTED"
        PROVE  /\ ~AllShown /\ Refuted(Unexecuted)
               /\ ~Refuted({"BALANCE_DELTA"}) /\ ~Refuted(Unmatched)
    <3>1. CASE evidence = {<<"TRANSACTION_INCLUDED", FALSE>>}
      <4>1. \A type, result :
              Shown(type, result) <=> type = "TRANSACTION_INCLUDED" /\ result = FALSE
        BY <3>1, Pairs
      <4> QED
        BY <4>1
    <3>2. CASE evidence = {<<"TRANSACTION_INCLUDED", TRUE>>, <<"EXECUTION_SUCCESS", FALSE>>}
      <4>1. \A type, result : Shown(type, result) <=>
                \/ type = "TRANSACTION_INCLUDED" /\ result = TRUE
                \/ type = "EXECUTION_SUCCESS" /\ result = FALSE
        BY <3>2, Pairs
      <4> QED
        BY <4>1
    <3> QED
      BY <2>1, <2>3, <3>1, <3>2 DEF Explained
  <2>4. ASSUME status = "SUSPICIOUS"
        PROVE  /\ ~AllShown /\ ~Refuted(Unexecuted)
               /\ Refuted({"BALANCE_DELTA"}) /\ ~Refuted(Unmatched)
    <3>0. evidence = TransferShown \union {<<"BALANCE_DELTA", FALSE>>}
      BY <2>1, <2>4 DEF Explained
    <3>1. \A type, result : Shown(type, result) <=>
              \/ result = TRUE /\ type \in EarlyTypes
              \/ result = FALSE /\ type = "BALANCE_DELTA"
      BY <3>0, Pairs
    <3> QED
      BY <3>1
  <2>5. ASSUME status = "UNVERIFIED"
        PROVE  /\ ~AllShown /\ ~Refuted(Unexecuted)
               /\ ~Refuted({"BALANCE_DELTA"}) /\ Refuted(Unmatched)
    <3>1. CASE evidence = Executed \union {<<"ASSET_MATCH", FALSE>>}
      <4>1. \A type, result : Shown(type, result) <=>
                \/ result = TRUE /\ type \in Unexecuted
                \/ result = FALSE /\ type = "ASSET_MATCH"
        BY <3>1, Pairs
      <4> QED
        BY <4>1
    <3>2. ASSUME NEW recipient \in BOOLEAN, NEW amount \in BOOLEAN,
                 ~(recipient /\ amount),
                 evidence = AssetShown \union {<<"RECIPIENT_MATCH", recipient>>,
                                               <<"AMOUNT_MATCH", amount>>}
          PROVE  /\ ~AllShown /\ ~Refuted(Unexecuted)
                 /\ ~Refuted({"BALANCE_DELTA"}) /\ Refuted(Unmatched)
      <4> DEFINE Rest == \A type, result : Shown(type, result) =>
                    \/ type = "RECIPIENT_MATCH" \/ type = "AMOUNT_MATCH"
                    \/ result = TRUE /\ type \in Unexecuted \union {"ASSET_MATCH"}
      <4>0. Rest
        <5>1. \A type, result : <<type, result>> \in AssetShown =>
                 result = TRUE /\ type \in Unexecuted \union {"ASSET_MATCH"}
          BY Pairs
        <5>2. \A type, result : Shown(type, result) =>
                 \/ <<type, result>> \in AssetShown
                 \/ <<type, result>> = <<"RECIPIENT_MATCH", recipient>>
                 \/ <<type, result>> = <<"AMOUNT_MATCH", amount>>
          <6> HIDE DEF AssetShown
          <6> QED
            BY <3>2, Zenon
        <5>3. \A type, result : Shown(type, result) =>
                 \/ <<type, result>> \in AssetShown
                 \/ type = "RECIPIENT_MATCH" \/ type = "AMOUNT_MATCH"
          BY <5>2, Pairs, Zenon
        <5> HIDE DEF AssetShown
        <5> QED
          BY <5>1, <5>3, Zenon
      <4>3. /\ ~Shown("SPENDABILITY", TRUE) /\ ~Shown("BALANCE_DELTA", FALSE)
            /\ ~Shown("TRANSACTION_INCLUDED", FALSE)
            /\ ~Shown("EXECUTION_SUCCESS", FALSE)
        <5>1. ASSUME NEW type, Shown(type, FALSE)
              PROVE  type = "RECIPIENT_MATCH" \/ type = "AMOUNT_MATCH"
          BY <4>0, <5>1
        <5>2. ~Shown("SPENDABILITY", TRUE)
          BY <4>0
        <5> HIDE DEF Shown
        <5> QED
          BY <5>1, <5>2
      <4>1. CASE recipient = FALSE
        <5>1. Shown("RECIPIENT_MATCH", FALSE)
          BY <3>2, <4>1
        <5> HIDE DEF Shown
        <5> QED
          BY <4>3, <5>1
      <4>2. CASE recipient = TRUE /\ amount = FALSE
        <5>1. Shown("AMOUNT_MATCH", FALSE)
          BY <3>2, <4>2
        <5> HIDE DEF Shown
        <5> QED
          BY <4>3, <5>1
      <4> QED
        BY <3>2, <4>1, <4>2
    <3>3. CASE evidence = BalanceShown \union {<<"FINALITY", FALSE>>}
      <4>1. \A type, result : Shown(type, result) <=>
                \/ result = TRUE /\ type \in EarlyTypes \union {"BALANCE_DELTA"}
                \/ result = FALSE /\ type = "FINALITY"
        BY <3>3, Pairs
      <4> QED
        BY <4>1
    <3> QED
      BY <2>1, <2>5, <3>1, <3>2, <3>3 DEF Explained
  <2>6. /\ status = "SPENDABLE" <=> AllShown
        /\ status = "REJECTED" <=> Refuted(Unexecuted)
        /\ status = "SUSPICIOUS" <=> Refuted({"BALANCE_DELTA"})
        /\ status = "UNVERIFIED" <=> Refuted(Unmatched)
    <3> HIDE DEF AllShown, Refuted, Unexecuted, Unmatched
    <3> QED
      BY <2>1, <2>2, <2>3, <2>4, <2>5 DEF Closed
  <2> QED
    BY <2>6, Zenon DEF EvidenceExplainsStatus
<1> QED
  BY <1>1, EvidenceHolds, PTL

-----------------------------------------------------------------------------
\* Without the mark of a mock adapter what is stored is what was signed.
SignatureOK ==
    live => /\ verdict # NoVerdict => Verifies(verdict)
            /\ saved # NoVerdict => Verifies(saved)

\* A live verdict is stored as it was signed.
THEOREM LiveVerdictIsSigned == Spec => []LiveVerdictVerifies
<1>1. Init => SignatureOK
  BY DEF Init, SignatureOK
<1>2. SignatureOK /\ [Next]_vars => SignatureOK'
  <2> SUFFICES ASSUME SignatureOK, [Next]_vars PROVE SignatureOK'
    OBVIOUS
  <2>1. UNCHANGED live
    BY DEF Next, Grow, Reorg, Request, Adapter, Receive, ReadTransaction,
           ReadReceipt, ReadEvents, ReadHead, ReadBefore, ReadAfter, RpcFails,
           ReadMock, Pipeline, CheckExecution, CheckAsset, CheckTransfer,
           CheckFinality, CheckSpendability, Stage, Handler, Finalize,
           FinalizeFails, MarkMock, Save, Dispatch, HandlerFails, vars, inputVars
  <2>2. CASE Finalize
    BY <2>1, <2>2 DEF Finalize, SignatureOK, Verifies
  <2>3. CASE MarkMock
    BY <2>1, <2>3 DEF MarkMock, SignatureOK
  <2>4. CASE Save
    BY <2>1, <2>4 DEF Save, SignatureOK
  <2>5. ASSUME ~Finalize, ~MarkMock, ~Save PROVE UNCHANGED <<verdict, saved>>
    BY <2>5 DEF Next, Grow, Reorg, Request, Adapter, Receive, ReadTransaction,
           ReadReceipt, ReadEvents, ReadHead, ReadBefore, ReadAfter, RpcFails,
           ReadMock, Pipeline, CheckExecution, CheckAsset, CheckTransfer,
           CheckFinality, CheckSpendability, Stage, Handler,
           FinalizeFails, Dispatch, HandlerFails, vars, replyVars
  <2> QED
    BY <2>1, <2>2, <2>3, <2>4, <2>5 DEF SignatureOK, Verifies
<1>3. SignatureOK => LiveVerdictVerifies
  BY DEF SignatureOK, LiveVerdictVerifies, StoredVerdictVerifies
<1> QED
  BY <1>1, <1>2, <1>3, PTL DEF Spec

-----------------------------------------------------------------------------
(***************************************************************************)
(* Types.  The chain's are in IInv and the evidence's in EvidenceOK.  Only *)
(* a live request reads a chain, and only of a block it was told.          *)
(***************************************************************************)
ValuesOK ==
    /\ content \in Contents /\ live \in BOOLEAN /\ claim \in Claims
    /\ pc \in Pc /\ status \in VerificationStatus
    /\ receipt \in {"none", "success", "reverted"}
    /\ transfers \in Seq(Transfer) /\ asset \in Assets \union {NoAsset}
    /\ before \in Nat \union {Unread} /\ after \in Nat \union {Unread}
    /\ verdict \in Verdict \union {NoVerdict} /\ saved \in Verdict \union {NoVerdict}
    /\ event \in {NoEvent, "verification.final", "verification.failed",
                  "verification.suspicious", "verification.created"}
    /\ pc \in Reading \ {"tx"} => live
    /\ pc = "balances" => block # 0
    /\ pc \in {"mark", "save", "dispatch"} => verdict \in Verdict

\* The least of a set of positions.
LEMMA FirstIsOne == ASSUME NEW S \in SUBSET Nat PROVE First(S) \in S \union {0}
<1>1. CASE S = {}
  BY <1>1, Zenon DEF First
<1>2. CASE S # {}
  <2>1. \E n \in S : \A m \in S : n <= m
    BY <1>2, Least
  <2>2. Min(S) \in S
    BY <2>1, Zenon DEF Min
  <2> QED
    BY <1>2, <2>2, Zenon DEF First
<1> QED
  BY <1>1, <1>2

LEMMA FirstIsLeast ==
  ASSUME NEW S \in SUBSET Nat, S # {}
  PROVE  First(S) \in S /\ \A n \in S : First(S) <= n
<1>1. \E n \in S : \A m \in S : n <= m
  BY Least
<1>2. Min(S) \in S /\ \A n \in S : Min(S) <= n
  BY <1>1, Zenon DEF Min
<1> QED
  BY <1>2, Zenon DEF First

\* A matched position is of a transfer.
LEMMA PositionsAreTransfers ==
  ASSUME NEW ts \in Seq(Transfer)
  PROVE  /\ Matched(ts) # 0 => ts[Matched(ts)] \in Transfer
         /\ First(ToRecipient(ts)) # 0 => ts[First(ToRecipient(ts))] \in Transfer
<1>1. /\ ToRecipient(ts) \in SUBSET (1 .. Len(ts)) /\ Len(ts) \in Nat
      /\ (ToRecipient(ts) \intersect InClaimedAsset(ts)) \in SUBSET (1 .. Len(ts))
  BY DEF ToRecipient
<1>2. ASSUME NEW S \in SUBSET (1 .. Len(ts))
      PROVE  First(S) # 0 => ts[First(S)] \in Transfer
  <2>1. S \in SUBSET Nat
    BY <1>1
  <2>2. First(S) # 0 => First(S) \in 1 .. Len(ts)
    BY <2>1, FirstIsOne
  <2> QED
    BY <2>2
<1> QED
  BY <1>1, <1>2, Zenon DEF Matched

\* The first id of all transfers is an id.
LEMMA FirstIdTyped ==
  ASSUME transfers \in Seq(Transfer) PROVE FirstId \in Nat \union {NoId}
<1> DEFINE named == {i \in DOMAIN transfers : transfers[i].id # NoId}
<1>1. CASE named = {}
  BY <1>1, Zenon DEF FirstId
<1>2. CASE named # {}
  <2>1. named \in SUBSET Nat
    OBVIOUS
  <2>2. First(named) \in named
    BY <1>2, <2>1, FirstIsLeast
  <2>3. transfers[First(named)] \in Transfer
    BY <2>2
  <2>4. FirstId = transfers[First(named)].id
    BY <1>2, Zenon DEF FirstId
  <2> QED
    BY <2>3, <2>4 DEF Transfer
<1> QED
  BY <1>1, <1>2

\* Every claim and every content is one.
LEMMA InputsTyped ==
  ASSUME ValuesOK
  PROVE  /\ claim \in Claim /\ content \in Content /\ content.logs \in Seq(Transfer)
         /\ content.value \in Nat /\ claim.asset \in Assets \union {NoAsset}
  BY InputAssumption DEF ValuesOK, Claim, Content

LEMMA ValuesInit == Init => ValuesOK
<1> SUFFICES ASSUME Init PROVE ValuesOK
  OBVIOUS
<1>1. transfers \in Seq(Transfer)
  BY DEF Init
<1>2. /\ content \in Contents /\ live \in BOOLEAN /\ claim \in Claims
      /\ pc = "idle" /\ status = "OBSERVED" /\ receipt = "none"
      /\ asset = NoAsset /\ before = Unread /\ after = Unread
      /\ verdict = NoVerdict /\ saved = NoVerdict /\ event = NoEvent
  BY Zenon DEF Init
<1> QED
  BY <1>1, <1>2 DEF ValuesOK, Pc, VerificationStatus, Reading

\* The chain moves none of them.
LEMMA ChainKeepsValues ==
  ASSUME ValuesOK, Grow \/ Reorg \/ UNCHANGED vars PROVE ValuesOK'
<1>1. UNCHANGED <<inputVars, pc, adapterVars, engineVars, replyVars>>
  BY Zenon DEF Grow, Reorg, vars
<1> QED
  BY <1>1 DEF ValuesOK, inputVars, adapterVars, engineVars, replyVars

\* The reads of a live adapter.
LEMMA ReadsKeepValues ==
  ASSUME IInv, ValuesOK, Adapter PROVE ValuesOK'
<1> USE DEF inputVars, adapterVars, engineVars, replyVars
<1>1. CASE Receive
  BY <1>1 DEF Receive, ValuesOK, Pc, Reading, VerificationStatus
<1>2. CASE ReadTransaction
  BY <1>2 DEF ReadTransaction, ValuesOK, Pc, Reading
<1>3. CASE ReadReceipt
  <2>1. receipt' \in {"none", "success", "reverted"}
    BY <1>3, Zenon DEF ReadReceipt
  <2>2. /\ live /\ pc' = "events"
        /\ UNCHANGED <<inputVars, block, transfers, asset, before, after,
                       engineVars, replyVars>>
    BY <1>3, Zenon DEF ReadReceipt
  <2> QED
    BY <2>1, <2>2 DEF ValuesOK, Pc, Reading
<1>4. CASE ReadEvents
  <2> DEFINE logs == IF Mined # {} /\ content.success THEN content.logs ELSE <<>>
             coin == IF content.value > 0 THEN <<CoinTransfer>> ELSE <<>>
  <2>1. transfers' = coin \o logs
    BY <1>4, Zenon DEF ReadEvents
  <2>2. logs \in Seq(Transfer)
    BY InputsTyped
  <2>3. coin \in Seq(Transfer)
    <3>1. CoinTransfer \in Transfer
      BY InputsTyped DEF CoinTransfer, Transfer, Assets
    <3> QED
      BY <3>1
  <2> HIDE DEF logs, coin
  <2>4. transfers' \in Seq(Transfer)
    BY <2>1, <2>2, <2>3
  <2>5. UNCHANGED claim
    BY <1>4, Zenon DEF ReadEvents, inputVars
  <2>6. asset' \in Assets \union {NoAsset}
    <3>1. \/ Matched(transfers') # 0 /\ asset' = transfers'[Matched(transfers')].asset
          \/ asset' = claim.asset
          \/ asset' = Native
      BY <1>4, Zenon DEF ReadEvents
    <3>2. CASE Matched(transfers') # 0 /\ asset' = transfers'[Matched(transfers')].asset
      <4>1. transfers'[Matched(transfers')] \in Transfer
        BY <2>4, <3>2, PositionsAreTransfers
      <4> QED
        BY <3>2, <4>1 DEF Transfer
    <3> QED
      BY <3>1, <3>2, InputsTyped DEF Assets
  <2>7. /\ live /\ pc' = "head"
        /\ UNCHANGED <<inputVars, block, receipt, before, after, engineVars, replyVars>>
    BY <1>4, Zenon DEF ReadEvents
  <2> QED
    BY <2>4, <2>6, <2>7 DEF ValuesOK, Pc, Reading
<1>5. CASE ReadHead
  BY <1>5 DEF ReadHead, ValuesOK, Pc, Reading
<1>6. CASE ReadBefore \/ ReadAfter
  <2>1. pc = "balances" /\ block \in 2 .. Len(chain) /\ chain \in Seq(Block)
    BY <1>6 DEF ReadBefore, ReadAfter, ValuesOK, Reading, IInv, BlockOK, ChainOK
  <2>2. chain[block] \in Block /\ chain[block - 1] \in Block
    BY <2>1
  <2>3. chain[block].balance \in Nat /\ chain[block - 1].balance \in Nat
    BY <2>2, BalanceAssumption DEF Block
  <2>4. /\ pc' \in {"balances", "engine"}
        /\ \/ before' = chain[block - 1].balance /\ UNCHANGED after
           \/ after' = chain[block].balance /\ UNCHANGED before
        /\ UNCHANGED <<inputVars, block, receipt, transfers, asset, engineVars, replyVars>>
    BY <1>6 DEF ReadBefore, ReadAfter
  <2> QED
    BY <2>1, <2>3, <2>4 DEF ValuesOK, Pc, Reading
<1>7. CASE RpcFails
  BY <1>7 DEF RpcFails, Forget, ValuesOK, Pc, Reading
<1>8. CASE ReadMock
  <2> DEFINE i == First(ToRecipient(transfers'))
  <2>1. /\ receipt' \in {"none", "success", "reverted"}
        /\ \/ /\ transfers' = <<[content.logs[1] EXCEPT !.id = NoId]>>
              /\ content.logs # <<>>
           \/ transfers' = <<>>
    BY <1>8, Zenon DEF ReadMock
  <2>2. transfers' \in Seq(Transfer)
    <3>1. content.logs # <<>> =>
              <<[content.logs[1] EXCEPT !.id = NoId]>> \in Seq(Transfer)
      <4>1. content.logs # <<>> => content.logs[1] \in Transfer
        BY InputsTyped
      <4>2. content.logs # <<>> => [content.logs[1] EXCEPT !.id = NoId] \in Transfer
        BY <4>1 DEF Transfer
      <4> QED
        BY <4>2
    <3>2. <<>> \in Seq(Transfer)
      OBVIOUS
    <3> QED
      BY <2>1, <3>1, <3>2, Zenon
  <2>3. asset' \in Assets \union {NoAsset}
    <3>1. \/ asset' = claim.asset \/ asset' = NoAsset
          \/ content.logs # <<>> /\ asset' = content.logs[1].asset
      BY <1>8, Zenon DEF ReadMock
    <3>2. CASE content.logs # <<>> /\ asset' = content.logs[1].asset
      <4>1. content.logs[1] \in Transfer
        BY <3>2, InputsTyped
      <4> QED
        BY <3>2, <4>1 DEF Transfer
    <3> QED
      BY <3>1, <3>2, InputsTyped
  <2>4. before' = 0 /\ after' \in Nat
    <3>1. i # 0 => transfers'[i] \in Transfer
      BY <2>2, PositionsAreTransfers
    <3>2. before' = 0 /\ after' = IF i = 0 THEN 0 ELSE transfers'[i].amount
      BY <1>8, Zenon DEF ReadMock
    <3> HIDE DEF i
    <3> QED
      BY <3>1, <3>2 DEF Transfer
  <2>5. pc' = "engine" /\ UNCHANGED <<inputVars, engineVars, replyVars>>
    BY <1>8, Zenon DEF ReadMock
  <2> QED
    BY <2>1, <2>2, <2>3, <2>4, <2>5 DEF ValuesOK, Pc, Reading
<1> QED
  BY <1>1, <1>2, <1>3, <1>4, <1>5, <1>6, <1>7, <1>8, Zenon DEF Adapter

\* The pipeline.
LEMMA PipelineKeepsValues == ASSUME ValuesOK, Pipeline PROVE ValuesOK'
<1>1. /\ pc = "engine" /\ pc' \in {"engine", "finalize", "threw"}
      /\ status' \in {status, "EXECUTED", "REJECTED", "ASSET_CONFIRMED", "UNVERIFIED",
                      "SUSPICIOUS", "BALANCE_CONFIRMED", "FINAL", "SPENDABLE"}
      /\ UNCHANGED <<inputVars, adapterVars, replyVars>>
  BY Zenon DEF Pipeline, CheckExecution, CheckAsset, CheckTransfer, CheckFinality,
         CheckSpendability, Stage, Advance
<1> QED
  BY <1>1 DEF ValuesOK, Pc, Reading, VerificationStatus, inputVars, adapterVars, replyVars

\* The verdict is made, marked, stored and announced.
LEMMA HandlerKeepsValues == ASSUME ValuesOK, Handler PROVE ValuesOK'
<1> USE DEF inputVars, adapterVars, engineVars, replyVars
<1>1. CASE Finalize
  <2>1. BodyNow \in Body
    <3>1. (IF claim.amount # NoAmount THEN claim.amount
           ELSE IF transfers = <<>> THEN NoAmount ELSE transfers[1].amount)
            \in Nat \union {NoAmount}
      <4>1. claim.amount \in Nat \union {NoAmount}
        BY InputsTyped DEF Claim
      <4>2. transfers # <<>> => transfers[1] \in Transfer
        BY DEF ValuesOK
      <4> QED
        BY <4>1, <4>2 DEF Transfer
    <3>2. after - before \in Int
      BY DEF ValuesOK, Unread
    <3>3. BodyNow.risk \in {"LOW", "MEDIUM", "HIGH"}
      <4>1. (CASE status = "SUSPICIOUS" -> "HIGH"
               [] status = "REJECTED"   -> "MEDIUM"
               [] OTHER                 -> "LOW") \in {"LOW", "MEDIUM", "HIGH"}
        BY Zenon
      <4> QED
        BY <4>1, Zenon DEF BodyNow
    <3> DEFINE amount == IF claim.amount # NoAmount THEN claim.amount
                         ELSE IF transfers = <<>> THEN NoAmount ELSE transfers[1].amount
               delta == IF \E ok \in BOOLEAN : <<"BALANCE_DELTA", ok>> \in evidence
                        THEN after - before ELSE NoAmount
               risk == CASE status = "SUSPICIOUS" -> "HIGH"
                         [] status = "REJECTED"   -> "MEDIUM"
                         [] OTHER                 -> "LOW"
               signals == IF status = "SUSPICIOUS" THEN {"BALANCE_MISMATCH"} ELSE {}
               shownId == IF claim.id # NoId THEN claim.id ELSE FirstId
    <3>4. BodyNow = [status |-> status, amount |-> amount, id |-> shownId,
                     balanceDelta |-> delta, risk |-> risk, signals |-> signals]
      BY Zenon DEF BodyNow
    <3>10. shownId \in Nat \union {NoId}
      <4>1. claim.id \in Nat \union {NoId}
        BY InputsTyped DEF Claim
      <4>2. FirstId \in Nat \union {NoId}
        BY FirstIdTyped DEF ValuesOK
      <4> QED
        BY <4>1, <4>2
    <3>5. delta \in Int \union {NoAmount}
      BY <3>2
    <3>6. signals \in SUBSET {"BALANCE_MISMATCH", "MOCK_ADAPTER"}
      OBVIOUS
    <3>7. status \in VerificationStatus
      BY DEF ValuesOK
    <3>8. risk \in {"LOW", "MEDIUM", "HIGH"}
      BY Zenon
    <3> HIDE DEF amount, shownId, delta, risk, signals
    <3>9. amount \in Nat \union {NoAmount}
      BY <3>1, Zenon DEF amount
    <3> QED
      BY <3>4, <3>5, <3>6, <3>7, <3>8, <3>9, <3>10 DEF Body
  <2>2. verdict' \in Verdict
    BY <1>1, <2>1 DEF Finalize, Verdict
  <2>3. pc' = "mark" /\ UNCHANGED <<inputVars, adapterVars, engineVars, saved, event>>
    BY <1>1, Zenon DEF Finalize
  <2> QED
    BY <2>2, <2>3 DEF ValuesOK, Pc, Reading
<1>2. CASE FinalizeFails
  BY <1>2 DEF FinalizeFails, ValuesOK, Pc, Reading
<1>3. CASE MarkMock
  <2>1. verdict \in Verdict
    BY <1>3 DEF MarkMock, ValuesOK
  <2>2. Marked(verdict) \in Verdict
    BY <2>1 DEF Marked, Verdict, Body
  <2>3. /\ verdict' \in {verdict, Marked(verdict)} /\ pc' = "save"
        /\ UNCHANGED <<inputVars, adapterVars, engineVars, saved, event>>
    BY <1>3 DEF MarkMock
  <2> QED
    BY <2>1, <2>2, <2>3 DEF ValuesOK, Pc, Reading
<1>4. CASE Save
  BY <1>4 DEF Save, ValuesOK, Pc, Reading
<1>5. CASE Dispatch \/ HandlerFails
  <2>1. MapStatusToEvent(verdict.body.status) \in
          {"verification.final", "verification.failed",
           "verification.suspicious", "verification.created"}
    BY Zenon DEF MapStatusToEvent
  <2>2. /\ event' \in {event, MapStatusToEvent(verdict.body.status)}
        /\ pc' \in {"replied", "failed"}
        /\ UNCHANGED <<inputVars, adapterVars, engineVars, verdict, saved>>
    BY <1>5, Zenon DEF Dispatch, HandlerFails
  <2> QED
    BY <2>1, <2>2 DEF ValuesOK, Pc, Reading
<1> QED
  BY <1>1, <1>2, <1>3, <1>4, <1>5, Zenon DEF Handler

\* What the evidence may be once the status is one of the table's.
LEMMA EvidenceTyped ==
  ASSUME EvidenceOK, status \in VerificationStatus
  PROVE  evidence \in SUBSET (EvidenceType \X BOOLEAN)
<1> DEFINE Results == EvidenceType \X BOOLEAN
<1>1. \A ok \in BOOLEAN :
        /\ <<"TRANSACTION_INCLUDED", ok>> \in Results /\ <<"EXECUTION_SUCCESS", ok>> \in Results
        /\ <<"ASSET_MATCH", ok>> \in Results /\ <<"RECIPIENT_MATCH", ok>> \in Results
        /\ <<"AMOUNT_MATCH", ok>> \in Results /\ <<"BALANCE_DELTA", ok>> \in Results
        /\ <<"FINALITY", ok>> \in Results /\ <<"SPENDABILITY", ok>> \in Results
  BY DEF EvidenceType
<1> HIDE DEF Results
<1>2. /\ Executed \in SUBSET Results /\ AssetShown \in SUBSET Results
      /\ TransferShown \in SUBSET Results /\ BalanceShown \in SUBSET Results
      /\ FinalShown \in SUBSET Results
  <2>1. Executed \in SUBSET Results
    BY <1>1, Zenon DEF Executed
  <2>2. AssetShown \in SUBSET Results
    BY <1>1, <2>1, Zenon DEF AssetShown
  <2>3. TransferShown \in SUBSET Results
    BY <1>1, <2>2, Zenon DEF TransferShown
  <2>4. BalanceShown \in SUBSET Results
    BY <1>1, <2>3, Zenon DEF BalanceShown
  <2>5. FinalShown \in SUBSET Results
    BY <1>1, <2>4, Zenon DEF FinalShown
  <2> QED
    BY <2>1, <2>2, <2>3, <2>4, <2>5
<1>3. CASE status \in {"OBSERVED", "PENDING", "EXECUTED", "ASSET_CONFIRMED",
                       "BALANCE_CONFIRMED", "FINAL"}
  BY <1>2, <1>3, Zenon DEF EvidenceOK, Explained, Results
<1>4. CASE status \in {"REJECTED", "SUSPICIOUS", "SPENDABLE"}
  <2>1. \/ evidence = FinalShown \union {<<"SPENDABILITY", TRUE>>}
        \/ evidence = {<<"TRANSACTION_INCLUDED", FALSE>>}
        \/ evidence = {<<"TRANSACTION_INCLUDED", TRUE>>, <<"EXECUTION_SUCCESS", FALSE>>}
        \/ evidence = TransferShown \union {<<"BALANCE_DELTA", FALSE>>}
    BY <1>4, Zenon DEF EvidenceOK, Explained
  <2>2. /\ <<"SPENDABILITY", TRUE>> \in Results /\ <<"TRANSACTION_INCLUDED", FALSE>> \in Results
        /\ <<"TRANSACTION_INCLUDED", TRUE>> \in Results
        /\ <<"EXECUTION_SUCCESS", FALSE>> \in Results /\ <<"BALANCE_DELTA", FALSE>> \in Results
    BY <1>1, Zenon
  <2>3. evidence \in SUBSET Results
    BY <1>2, <2>1, <2>2
  <2> QED
    BY <2>3 DEF Results
<1>5. CASE status = "UNVERIFIED"
  <2>1. \/ evidence = Executed \union {<<"ASSET_MATCH", FALSE>>}
        \/ \E recipient, amount \in BOOLEAN :
              evidence = AssetShown \union {<<"RECIPIENT_MATCH", recipient>>,
                                            <<"AMOUNT_MATCH", amount>>}
        \/ evidence = BalanceShown \union {<<"FINALITY", FALSE>>}
    BY <1>5, Zenon DEF EvidenceOK, Explained
  <2>2. <<"ASSET_MATCH", FALSE>> \in Results /\ <<"FINALITY", FALSE>> \in Results
    BY <1>1, Zenon
  <2>3. ASSUME NEW recipient \in BOOLEAN, NEW amount \in BOOLEAN,
               evidence = AssetShown \union {<<"RECIPIENT_MATCH", recipient>>,
                                             <<"AMOUNT_MATCH", amount>>}
        PROVE  evidence \in SUBSET Results
    <3>1. <<"RECIPIENT_MATCH", recipient>> \in Results /\ <<"AMOUNT_MATCH", amount>> \in Results
      BY <1>1, Zenon
    <3> QED
      BY <1>2, <2>3, <3>1, Zenon
  <2>4. evidence \in SUBSET Results
    BY <1>2, <2>1, <2>2, <2>3, Zenon
  <2> QED
    BY <2>4 DEF Results
<1> QED
  BY <1>3, <1>4, <1>5 DEF VerificationStatus

LEMMA ValuesHold == Spec => []ValuesOK
<1>1. IInv /\ ValuesOK /\ [Next]_vars => ValuesOK'
  BY ChainKeepsValues, ReadsKeepValues, PipelineKeepsValues, HandlerKeepsValues, Zenon
  DEF Next, Request
<1> QED
  BY <1>1, ValuesInit, IInvHolds, PTL DEF Spec

\* POST /v1/verify/incoming, the other adapters, the wallet's balance and the
\* projects' records: every variable keeps its type for any payments, claims,
\* chains, depths and projects.
THEOREM VerificationTyped ==
  Spec /\ ForeignSpec /\ BalanceReadsSpec /\ ProjectSpec => []AllTypesOK
<1>1. IInv /\ EvidenceOK /\ ValuesOK => TypeOK
  <2> SUFFICES ASSUME IInv, EvidenceOK, ValuesOK PROVE TypeOK
    OBVIOUS
  <2>1. evidence \in SUBSET (EvidenceType \X BOOLEAN)
    BY EvidenceTyped DEF ValuesOK
  <2>2. described \in BOOLEAN /\ isFinal \in BOOLEAN
    BY Zenon DEF EvidenceOK, PhaseOK
  <2> QED
    BY <2>1, <2>2, Zenon DEF IInv, ChainOK, BlockOK, ValuesOK, TypeOK
<1>2. TypeOK /\ ForeignTypeOK /\ BalanceReadsTypeOK /\ ProjectTypeOK => AllTypesOK
  BY Zenon DEF AllTypesOK
<1> QED
  BY <1>1, <1>2, IInvHolds, EvidenceHolds, ValuesHold, ForeignTyped, BalanceReadsTyped,
     ProjectsTyped, PTL

-----------------------------------------------------------------------------
(***************************************************************************)
(* Which balances were read: those of the transfer the adapter matched,    *)
(* which is the one the verdict is about unless the claim names another id.*)
(***************************************************************************)
MatchedOK ==
    live /\ Matched(transfers) # 0 => asset = transfers[Matched(transfers)].asset

LEMMA MatchedHolds == Spec => []MatchedOK
<1>1. Init => MatchedOK
  <2> SUFFICES ASSUME Init PROVE MatchedOK
    OBVIOUS
  <2>1. ToRecipient(transfers) = {}
    BY DEF Init, ToRecipient
  <2>2. Matched(transfers) = 0
    BY <2>1, Zenon DEF Matched, First
  <2> QED
    BY <2>2, Zenon DEF MatchedOK
<1>2. MatchedOK /\ [Next]_vars => MatchedOK'
  <2> SUFFICES ASSUME MatchedOK, [Next]_vars PROVE MatchedOK'
    OBVIOUS
  <2> USE DEF inputVars, adapterVars
  <2>1. UNCHANGED <<live, claim>>
    BY DEF Next, Request, Grow, Reorg, Adapter, Receive, ReadTransaction, ReadReceipt,
       ReadEvents, ReadHead, ReadBefore, ReadAfter, RpcFails, ReadMock, Pipeline,
       CheckExecution, CheckAsset, CheckTransfer, CheckFinality, CheckSpendability,
       Stage, Handler, Finalize, FinalizeFails, MarkMock, Save, Dispatch, HandlerFails,
       vars
  <2>2. Matched(transfers)' = Matched(transfers')
    BY <2>1, Zenon DEF Matched, ToRecipient, InClaimedAsset
  <2>3. CASE ReadEvents
    <3>1. Matched(transfers') # 0 => asset' = transfers'[Matched(transfers')].asset
      BY <2>3, Zenon DEF ReadEvents
    <3> QED
      BY <2>2, <3>1, Zenon DEF MatchedOK
  <2>4. CASE ReadMock
    <3>1. ~live
      BY <2>4, Zenon DEF ReadMock
    <3>2. ~live'
      BY <2>1, <3>1
    <3> QED
      BY <3>2, Zenon DEF MatchedOK
  <2>7. CASE RpcFails
    <3>1. ToRecipient(transfers') = {}
      BY <2>7 DEF RpcFails, Forget, ToRecipient
    <3>2. Matched(transfers') = 0
      BY <3>1, Zenon DEF Matched, First
    <3> QED
      BY <2>2, <3>2, Zenon DEF MatchedOK
  <2>5. ASSUME ~ReadEvents, ~ReadMock, ~RpcFails PROVE UNCHANGED <<transfers, asset>>
    BY <2>5 DEF Next, Request, Grow, Reorg, Adapter, Receive, ReadTransaction,
       ReadReceipt, ReadHead, ReadBefore, ReadAfter, Pipeline,
       CheckExecution, CheckAsset, CheckTransfer, CheckFinality, CheckSpendability,
       Stage, Handler, Finalize, FinalizeFails, MarkMock, Save, Dispatch, HandlerFails,
       vars
  <2>6. CASE UNCHANGED <<transfers, asset>>
    BY <2>1, <2>2, <2>6, Zenon DEF MatchedOK
  <2> QED
    BY <2>3, <2>4, <2>5, <2>6, <2>7
<1> QED
  BY <1>1, <1>2, PTL DEF Spec

\* The transfer the verdict is about is to the recipient, in the asset and of the
\* id of the claim, and no earlier one is: the adapter matched it too, unless the
\* first in that asset is of another id.
LEMMA FoundTransfer ==
  ASSUME transfers \in Seq(Transfer), TransferIndex # 0
  PROVE  /\ TransferIndex \in 1 .. Len(transfers)
         /\ claim.asset \in {NoAsset, transfers[TransferIndex].asset}
         /\ claim.id = NoId \/ transfers[TransferIndex].id \in {NoId, claim.id}
         /\ TransferIndex = Matched(transfers) \/ Overlooked
<1> DEFINE wanted == ToRecipient(transfers) \intersect InClaimedAsset(transfers)
           chosen == wanted \intersect OfClaimedId(transfers)
<1>1. /\ wanted \in SUBSET (1 .. Len(transfers)) /\ Len(transfers) \in Nat
      /\ wanted \in SUBSET Nat /\ chosen \in SUBSET Nat
  BY DEF ToRecipient
<1>2. TransferIndex = First(chosen)
  BY Zenon DEF TransferIndex
<1>3. chosen # {}
  BY <1>2, Zenon DEF First
<1>4. TransferIndex \in chosen /\ \A n \in chosen : TransferIndex <= n
  <2> HIDE DEF chosen
  <2> QED
    BY <1>1, <1>2, <1>3, FirstIsLeast
<1>5. /\ TransferIndex \in wanted
      /\ claim.asset \in {NoAsset, transfers[TransferIndex].asset}
      /\ claim.id = NoId \/ transfers[TransferIndex].id \in {NoId, claim.id}
  BY <1>4, Zenon DEF InClaimedAsset, OfClaimedId
<1>6. ASSUME ~Overlooked PROVE TransferIndex = Matched(transfers)
  <2>1. wanted # {}
    BY <1>5, Zenon
  <2>2. Matched(transfers) = First(wanted)
    BY <2>1, Zenon DEF Matched
  <2>3. Matched(transfers) \in wanted /\ \A n \in wanted : Matched(transfers) <= n
    <3> HIDE DEF wanted
    <3> QED
      BY <1>1, <2>1, <2>2, FirstIsLeast
  <2>4. Matched(transfers) # 0
    BY <1>1, <2>3
  <2>5. claim.id = NoId \/ transfers[Matched(transfers)].id \in {NoId, claim.id}
    BY <1>6, <2>4, Zenon DEF Overlooked, AskedId
  <2>6. Matched(transfers) \in OfClaimedId(transfers)
    BY <1>1, <2>3, <2>5 DEF OfClaimedId
  <2>7. Matched(transfers) \in chosen
    BY <2>3, <2>6
  <2>8. TransferIndex <= Matched(transfers) /\ Matched(transfers) <= TransferIndex
    BY <1>4, <1>5, <2>3, <2>7
  <2> QED
    BY <1>1, <1>5, <2>3, <2>8
<1> QED
  BY <1>1, <1>5, <1>6

\* The balances read are of what that transfer moved.
LEMMA BalancesRead ==
  ASSUME transfers \in Seq(Transfer), TransferIndex # 0, MatchedOK, live
  PROVE  BalancesAreOf(transfers[TransferIndex]) \/ Overlooked
<1> SUFFICES ASSUME ~Overlooked PROVE BalancesAreOf(transfers[TransferIndex])
  OBVIOUS
<1>1. TransferIndex = Matched(transfers)
  BY FoundTransfer
<1>2. Matched(transfers) # 0
  BY <1>1
<1> QED
  BY <1>1, <1>2, Zenon DEF MatchedOK, BalancesAreOf, AskedId

\* The invariants say what a live SPENDABLE verdict needs.
LEMMA InvariantSuffices == IInv /\ ValuesOK /\ MatchedOK => SpendableIsSettled
<1> SUFFICES ASSUME IInv, ValuesOK, MatchedOK, live, status = "SPENDABLE"
             PROVE  SpendableIsSettled
  BY Zenon DEF SpendableIsSettled
<1> DEFINE moved == transfers[TransferIndex]
           gained == chain[block].balance - chain[block - 1].balance
<1>1. /\ block # 0 /\ content.success /\ isFinal
      /\ before # Unread /\ after # Unread
      /\ RecipientOk /\ AmountOk /\ BalanceOk
  BY DEF IInv, StatusOK
<1>2. /\ block \in DOMAIN chain /\ chain[block].included
      /\ Len(chain) - block >= Required
      /\ before = chain[block - 1].balance
      /\ after = chain[block].balance
  BY <1>1 DEF IInv, ChainOK, BlockOK, FinalOK
<1>3. gained = moved.amount
  BY <1>1, <1>2 DEF BalanceOk
<1>4. claim.amount \in {NoAmount, gained, moved.id}
  BY <1>1, <1>3, Zenon DEF AmountOk
<1>5. transfers \in Seq(Transfer) /\ TransferIndex # 0
  BY <1>1, Zenon DEF ValuesOK, RecipientOk
<1>6. /\ BalancesAreOf(moved) \/ Overlooked
      /\ claim.asset \in {NoAsset, moved.asset}
      /\ NoId \in {claim.id, moved.id} \/ claim.id = moved.id
  <2>1. /\ claim.asset \in {NoAsset, transfers[TransferIndex].asset}
        /\ claim.id = NoId \/ transfers[TransferIndex].id \in {NoId, claim.id}
    BY <1>5, FoundTransfer
  <2>2. BalancesAreOf(transfers[TransferIndex]) \/ Overlooked
    BY <1>5, BalancesRead
  <2> QED
    BY <2>1, <2>2
<1> QED
  BY <1>1, <1>2, <1>3, <1>4, <1>6, Zenon DEF SpendableIsSettled

\* Whatever the chain does between the adapter's reads, a live SPENDABLE
\* verdict is about a transaction that is, and stays, in a block of the
\* required depth in which the balances read rose by the amount of its
\* transfer: those of the asset and token id it moved, unless the adapter
\* matched a transfer of another id than the claim's.
THEOREM SpendableSettles == Spec => []SpendableIsSettled
BY IInvHolds, ValuesHold, MatchedHolds, InvariantSuffices, PTL

\* Without a reorganisation since the claim, a live SUSPICIOUS verdict is about
\* a balance of what the transfer moved, token id included, that did move by
\* something else in the block of the transaction; or the adapter matched a
\* transfer of another id than the claim's.
THEOREM AlarmIsTrue == Spec => []NoFalseAlarm
<1>1. Init => AlarmOK
  BY Zenon DEF Init, AlarmOK
<1>2. IInv /\ AlarmOK /\ [Next]_vars => AlarmOK'
  BY ChainKeepsAlarm, AdapterKeepsAlarm, PipelineKeepsAlarm, Zenon DEF Next, Request
<1>3. IInv /\ AlarmOK /\ ValuesOK /\ MatchedOK => NoFalseAlarm
  <2> SUFFICES ASSUME IInv, AlarmOK, ValuesOK, MatchedOK,
                      live, status = "SUSPICIOUS", ~reorged
               PROVE  /\ BalancesAreOf(transfers[TransferIndex]) \/ Overlooked
                      /\ chain[block].balance - chain[block - 1].balance
                           # transfers[TransferIndex].amount
    BY Zenon DEF NoFalseAlarm
  <2>1. /\ before = chain[block - 1].balance /\ after = chain[block].balance
        /\ RecipientOk /\ ~BalanceOk
    BY DEF AlarmOK
  <2>2. chain[block].balance - chain[block - 1].balance # transfers[TransferIndex].amount
    BY <2>1 DEF BalanceOk
  <2>3. BalancesAreOf(transfers[TransferIndex]) \/ Overlooked
    BY <2>1, BalancesRead, Zenon DEF RecipientOk, ValuesOK
  <2> QED
    BY <2>2, <2>3
<1> QED
  BY IInvHolds, ValuesHold, MatchedHolds, <1>1, <1>2, <1>3, PTL DEF Spec

-----------------------------------------------------------------------------
(***************************************************************************)
(* What a verdict says.  From the moment it is put together nothing the    *)
(* pipeline knows changes, and the mark of a mock adapter touches only     *)
(* risk and signals.                                                       *)
(***************************************************************************)
SaysWhatIsKnown(body) ==
    /\ body.status = status
    /\ body.amount = BodyNow.amount /\ body.balanceDelta = BodyNow.balanceDelta

\* A body and the one that was signed differ by the mark of a mock adapter.
OnlyMarked(v) ==
    /\ v.body.status = v.signature.status /\ v.body.amount = v.signature.amount
    /\ v.body.balanceDelta = v.signature.balanceDelta
    /\ v.body.signals \ {"MOCK_ADAPTER"} = v.signature.signals
    /\ v.body.signals = v.signature.signals => v.body = v.signature
    /\ \/ v.body.risk = v.signature.risk
       \/ v.signature.risk = "LOW" /\ v.body.risk = "MEDIUM"

VerdictOK ==
    /\ verdict # NoVerdict => SaysWhatIsKnown(verdict.body) /\ OnlyMarked(verdict)
    /\ pc = "mark" => /\ verdict.body = verdict.signature /\ SaysWhatIsKnown(verdict.body)
                      /\ "MOCK_ADAPTER" \notin verdict.body.signals
    /\ saved # NoVerdict => saved = verdict
                            /\ pc \notin Reading \union {"idle", "engine", "finalize", "mark"}

\* The amount of a SPENDABLE verdict is not what arrived only where the caller
\* named none and an earlier transfer of the transaction is not the one matched,
\* or where what the caller named matched as the token id of what was moved.
AmountIsElsewhere ==
    \/ claim.amount = NoAmount /\ TransferIndex > 1
    \/ claim.amount # NoAmount /\ claim.amount = transfers[TransferIndex].id

AmountIsOfMatch ==
    verdict # NoVerdict /\ verdict.body.status = "SPENDABLE" =>
        /\ verdict.body.balanceDelta = transfers[TransferIndex].amount
        /\ verdict.body.amount # verdict.body.balanceDelta => AmountIsElsewhere

\* What is stored says what was signed, but for the mark.
StoredIsSignedButMarked == saved # NoVerdict => OnlyMarked(saved)

\* The amount of a verdict, and the other fields that are not its risk.
ShownNow ==
    IF claim.amount # NoAmount THEN claim.amount
    ELSE IF transfers = <<>> THEN NoAmount ELSE transfers[1].amount

LEMMA BodyFields ==
    /\ BodyNow.status = status /\ BodyNow.amount = ShownNow
    /\ <<"BALANCE_DELTA", TRUE>> \in evidence => BodyNow.balanceDelta = after - before
    /\ "MOCK_ADAPTER" \notin BodyNow.signals
<1> DEFINE delta == IF \E ok \in BOOLEAN : <<"BALANCE_DELTA", ok>> \in evidence
                    THEN after - before ELSE NoAmount
           risk == CASE status = "SUSPICIOUS" -> "HIGH"
                     [] status = "REJECTED"   -> "MEDIUM"
                     [] OTHER                 -> "LOW"
           signals == IF status = "SUSPICIOUS" THEN {"BALANCE_MISMATCH"} ELSE {}
       shownId == IF claim.id # NoId THEN claim.id ELSE FirstId
<1>1. BodyNow = [status |-> status, amount |-> ShownNow, id |-> shownId,
                 balanceDelta |-> delta, risk |-> risk, signals |-> signals]
  BY Zenon DEF BodyNow, ShownNow
<1>2. <<"BALANCE_DELTA", TRUE>> \in evidence => delta = after - before
  OBVIOUS
<1>3. "MOCK_ADAPTER" \notin signals
  OBVIOUS
<1> HIDE DEF delta, risk, signals, shownId
<1> QED
  BY <1>1, <1>2, <1>3 DEF ShownNow

LEMMA VerdictInit == Init => VerdictOK
  BY DEF Init, VerdictOK

\* Before the verdict is put together there is none to change.
LEMMA EarlyKeepsVerdict ==
  ASSUME EvidenceOK, VerdictOK, Grow \/ Reorg \/ Adapter \/ Pipeline
  PROVE  VerdictOK'
<1> USE DEF inputVars, adapterVars, engineVars, replyVars
<1>1. CASE Grow \/ Reorg
  <2>1. UNCHANGED <<pc, status, evidence, claim, transfers, after, before, verdict, saved>>
    BY <1>1, Zenon DEF Grow, Reorg
  <2>2. UNCHANGED BodyNow
    BY <2>1, Zenon DEF BodyNow, FirstId
  <2> QED
    BY <2>1, <2>2, Zenon DEF VerdictOK, SaysWhatIsKnown, OnlyMarked
<1>2. CASE Adapter \/ Pipeline
  <2>1. pc \in Reading \union {"idle", "engine"} /\ UNCHANGED <<verdict, saved>>
    BY <1>2 DEF Adapter, Receive, ReadTransaction, ReadReceipt, ReadEvents, ReadHead,
       ReadBefore, ReadAfter, RpcFails, ReadMock, Pipeline, CheckExecution, CheckAsset,
       CheckTransfer, CheckFinality, CheckSpendability, Stage, Reading
  <2>2. pc' # "mark"
    BY <1>2 DEF Adapter, Receive, ReadTransaction, ReadReceipt, ReadEvents, ReadHead,
       ReadBefore, ReadAfter, RpcFails, ReadMock, Pipeline, CheckExecution, CheckAsset,
       CheckTransfer, CheckFinality, CheckSpendability, Stage, Advance
  <2>3. verdict = NoVerdict /\ saved = NoVerdict
    BY <2>1 DEF EvidenceOK, PhaseOK, VerdictOK, Reading
  <2> QED
    BY <2>1, <2>2, <2>3, Zenon DEF VerdictOK
<1> QED
  BY <1>1, <1>2

LEMMA HandlerKeepsVerdict ==
  ASSUME ValuesOK, EvidenceOK, VerdictOK, Handler \/ UNCHANGED vars
  PROVE  VerdictOK'
<1> USE DEF inputVars, adapterVars, engineVars, replyVars
<1>1. UNCHANGED <<status, evidence, claim, transfers, after, before>>
  BY Zenon DEF Handler, Finalize, FinalizeFails, MarkMock, Save, Dispatch, HandlerFails, vars
<1>2. UNCHANGED BodyNow /\ UNCHANGED status
  BY <1>1, Zenon DEF BodyNow, FirstId
<1>3. CASE Finalize
  <2> DEFINE body == BodyNow
  <2>1. /\ pc = "finalize" /\ pc' = "mark" /\ saved' = saved
        /\ verdict' = [body |-> body, signature |-> body]
    BY <1>3, Zenon DEF Finalize
  <2>2. body.status = status /\ "MOCK_ADAPTER" \notin body.signals
    BY BodyFields
  <2>3. verdict'.body = body /\ verdict'.signature = body
    BY <2>1
  <2>4. SaysWhatIsKnown(verdict.body)'
    BY <1>2, <2>2, <2>3, Zenon DEF SaysWhatIsKnown
  <2>5. body.signals \ {"MOCK_ADAPTER"} = body.signals
    BY <2>2
  <2>6. OnlyMarked(verdict)'
    BY <2>3, <2>5, Zenon DEF OnlyMarked
  <2>7. saved = NoVerdict
    BY <2>1 DEF VerdictOK
  <2> QED
    BY <2>1, <2>2, <2>3, <2>4, <2>6, <2>7, Zenon DEF VerdictOK
<1>4. CASE MarkMock
  <2>1. /\ pc = "mark" /\ pc' = "save" /\ saved' = saved /\ verdict \in Verdict
        /\ verdict' \in {verdict, Marked(verdict)} /\ saved = NoVerdict
    BY <1>4 DEF MarkMock, ValuesOK, VerdictOK
  <2>2. verdict.body = verdict.signature
    BY <2>1 DEF VerdictOK
  <2>3. CASE verdict' = verdict
    BY <1>2, <2>1, <2>3, Zenon DEF VerdictOK, SaysWhatIsKnown, OnlyMarked
  <2>4. CASE verdict' = Marked(verdict)
    <3> DEFINE old == verdict.body
               new == verdict'.body
    <3>1. /\ new.status = old.status /\ new.amount = old.amount
          /\ new.balanceDelta = old.balanceDelta
          /\ new.signals = old.signals \union {"MOCK_ADAPTER"}
          /\ new.risk = old.risk \/ (old.risk = "LOW" /\ new.risk = "MEDIUM")
          /\ verdict'.signature = verdict.signature
      BY <2>1, <2>4 DEF Marked, Verdict, Body
    <3>2. SaysWhatIsKnown(old) /\ "MOCK_ADAPTER" \notin old.signals
      BY <2>1 DEF VerdictOK
    <3>3. SaysWhatIsKnown(verdict.body)'
      BY <1>2, <3>1, <3>2, Zenon DEF SaysWhatIsKnown
    <3>4. new.signals \ {"MOCK_ADAPTER"} = old.signals /\ new.signals # old.signals
      <4>1. new.signals \ {"MOCK_ADAPTER"} \subseteq old.signals
        BY <3>1, Zenon
      <4>2. old.signals \subseteq new.signals \ {"MOCK_ADAPTER"}
        BY <3>1, <3>2, Zenon
      <4> QED
        BY <3>1, <3>2, <4>1, <4>2, Zenon
    <3>5. OnlyMarked(verdict)'
      BY <2>2, <3>1, <3>4, Zenon DEF OnlyMarked
    <3> QED
      BY <2>1, <3>3, <3>5, Zenon DEF VerdictOK
  <2> QED
    BY <2>1, <2>3, <2>4
<1>5. CASE Save
  BY <1>2, <1>5, Zenon DEF Save, VerdictOK, SaysWhatIsKnown, OnlyMarked, Reading
<1>6. CASE FinalizeFails \/ Dispatch \/ HandlerFails \/ UNCHANGED vars
  BY <1>2, <1>6, Zenon DEF FinalizeFails, Dispatch, HandlerFails, vars, VerdictOK,
     SaysWhatIsKnown, OnlyMarked, Reading
<1> QED
  BY <1>3, <1>4, <1>5, <1>6 DEF Handler

LEMMA VerdictHolds == Spec => []VerdictOK
<1>1. EvidenceOK /\ ValuesOK /\ VerdictOK /\ [Next]_vars => VerdictOK'
  BY EarlyKeepsVerdict, HandlerKeepsVerdict, Zenon DEF Next, Request
<1> QED
  BY <1>1, VerdictInit, EvidenceHolds, ValuesHold, PTL DEF Spec

\* A verdict about a transaction of many transfers: the balance it shows rose by the
\* transfer it is about, and it shows another amount only where the caller named none
\* and that transfer is not the first, or named what matched as its token id.
THEOREM AmountIsOfFirst == Spec => []AmountIsOfMatch
<1>1. IInv /\ EvidenceOK /\ ValuesOK /\ VerdictOK => AmountIsOfMatch
  <2> SUFFICES ASSUME IInv, EvidenceOK, ValuesOK, VerdictOK, verdict # NoVerdict,
                      verdict.body.status = "SPENDABLE"
               PROVE  /\ verdict.body.balanceDelta = transfers[TransferIndex].amount
                      /\ verdict.body.amount # verdict.body.balanceDelta =>
                             AmountIsElsewhere
    BY DEF AmountIsOfMatch
  <2>1. /\ status = "SPENDABLE" /\ verdict.body.amount = BodyNow.amount
        /\ verdict.body.balanceDelta = BodyNow.balanceDelta
    BY DEF VerdictOK, SaysWhatIsKnown
  <2>2. evidence = FinalShown \union {<<"SPENDABILITY", TRUE>>}
    BY <2>1 DEF EvidenceOK, Explained
  <2>3. <<"BALANCE_DELTA", TRUE>> \in evidence
    BY <2>2, Zenon DEF FinalShown, BalanceShown
  <2>4. RecipientOk /\ AmountOk /\ BalanceOk
    BY <2>1, Zenon DEF IInv, StatusOK
  <2>5. verdict.body.balanceDelta = transfers[TransferIndex].amount
    BY <2>1, <2>3, <2>4, BodyFields, Zenon DEF BalanceOk
  <2>6. verdict.body.amount = ShownNow
    BY <2>1, BodyFields, Zenon
  <2>7. TransferIndex \in 1 .. Len(transfers) /\ Len(transfers) \in Nat
    <3>1. transfers \in Seq(Transfer) /\ TransferIndex # 0
      BY <2>4, Zenon DEF ValuesOK, RecipientOk
    <3> QED
      BY <3>1, FoundTransfer
  <2>8. ASSUME verdict.body.amount # verdict.body.balanceDelta
        PROVE  AmountIsElsewhere
    <3>1. CASE claim.amount = NoAmount
      <4>1. transfers # <<>>
        BY <2>7
      <4>2. TransferIndex # 1
        BY <2>5, <2>6, <2>8, <3>1, <4>1, Zenon DEF ShownNow
      <4> QED
        BY <2>7, <3>1, <4>2 DEF AmountIsElsewhere
    <3>2. CASE claim.amount # NoAmount
      <4>1. claim.amount # transfers[TransferIndex].amount
        BY <2>5, <2>6, <2>8, <3>2, Zenon DEF ShownNow
      <4> QED
        BY <2>4, <3>2, <4>1, Zenon DEF AmountOk, AmountIsElsewhere
    <3> QED
      BY <3>1, <3>2
  <2> QED
    BY <2>5, <2>8
<1> QED
  BY <1>1, IInvHolds, EvidenceHolds, ValuesHold, VerdictHolds, PTL

\* What is stored, and served by GET /v1/verdicts/:id, is what was signed or that with
\* the signal of a mock adapter added and the risk raised: status, amount and balance
\* delta are the signed ones for every adapter.
THEOREM MarkIsAllThatIsAdded == Spec => []StoredIsSignedButMarked
<1>1. VerdictOK /\ ValuesOK => StoredIsSignedButMarked
  BY Zenon DEF VerdictOK, StoredIsSignedButMarked
<1> QED
  BY <1>1, ValuesHold, VerdictHolds, PTL

=============================================================================
