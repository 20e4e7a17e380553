------------------------- MODULE ForeignChainsProofs -------------------------
(***************************************************************************)
(* Safety of the reads of the Bitcoin, Solana and Tron adapters            *)
(* (ForeignChains), for any payments and any depth a network asks for.     *)
(* The block is read first and the depth from another node later: what is  *)
(* read of the block stays true while the chain grows without a fork.      *)
(* Then the balances of the wallet (BalanceReads), for any amounts, and    *)
(* the records of the projects (ProjectRecords), for any of them.          *)
(***************************************************************************)
EXTENDS ForeignChains, BalanceReads, ProjectRecords, FiniteSetTheorems, WellFoundedInduction, TLAPS

BeforeDepth == {"transaction", "receipt", "events", "finality"}

ChainTyped ==
    /\ head \in Nat \ {0} /\ minedAt \in Nat /\ minedAt <= head /\ txBlock \in Nat

\* Nothing is settled before the depth is read, and then it was deep enough.
DepthInv ==
    /\ isLive /\ at \in BeforeDepth => ~settled
    /\ \/ forked
       \/ ~isLive
       \/ /\ txBlock # 0 => txBlock = minedAt
          /\ settled => txBlock # 0 /\ Confirmations(head) >= Needed

BuriedInv == ChainTyped /\ DepthInv

\* Depth is a natural number, grows with the head, and is none without a block.
LEMMA DepthGrows ==
    ASSUME ChainTyped, NEW low \in Int, NEW high \in Int, low <= high
    PROVE  /\ Confirmations(low) \in Nat
           /\ Confirmations(low) <= Confirmations(high)
           /\ Confirmations(low) >= Needed => txBlock # 0
<1>1. txBlock \in Nat
    BY DEF ChainTyped
<1>2. CASE family = "bitcoin"
    BY <1>1, <1>2, DepthAssumption DEF Confirmations
<1>3. CASE family # "bitcoin"
    BY <1>1, <1>3, DepthAssumption DEF Confirmations
<1> QED BY <1>2, <1>3

LEMMA BuriedInit == ForeignInit => BuriedInv
    BY DEF ForeignInit, BuriedInv, ChainTyped, DepthInv

\* The chain's own steps.
LEMMA ChainKeepsDepth ==
    ASSUME BuriedInv, Fork \/ Spend \/ \E includes \in BOOLEAN : NewBlock(includes)
    PROVE  BuriedInv'
<1> USE DEF requestVars, readVars
<1>1. CASE Fork
    BY <1>1 DEF Fork, BuriedInv, ChainTyped, DepthInv
<1>2. CASE Spend
    BY <1>2 DEF Spend, BuriedInv, ChainTyped, DepthInv, Confirmations
<1>3. ASSUME NEW includes \in BOOLEAN, NewBlock(includes) PROVE BuriedInv'
    <2>1. /\ head' = head + 1 /\ minedAt' \in {minedAt, head + 1}
          /\ minedAt # 0 => minedAt' = minedAt
          /\ UNCHANGED <<forked, family, isLive, at, txBlock, settled>>
        BY <1>3 DEF NewBlock, BuriedInv, ChainTyped
    <2>2. ChainTyped'
        BY <2>1 DEF BuriedInv, ChainTyped
    <2>3. Confirmations(head) <= Confirmations(head')
          /\ Confirmations(head) \in Nat /\ Confirmations(head') \in Nat
        BY <2>1, DepthGrows DEF BuriedInv, ChainTyped
    <2>4. Confirmations(head)' = Confirmations(head')
        BY <2>1 DEF Confirmations
    <2>5. DepthInv'
        <3>1. CASE forked \/ ~isLive
            BY <2>1, <3>1 DEF BuriedInv, DepthInv
        <3>2. CASE ~forked /\ isLive
            <4>1. txBlock' # 0 => txBlock' = minedAt'
                BY <2>1, <3>2 DEF BuriedInv, DepthInv
            <4>2. settled => Confirmations(head)' >= Needed
                BY <2>3, <2>4, <3>2, DepthAssumption DEF BuriedInv, DepthInv
            <4> QED BY <2>1, <3>2, <4>1, <4>2 DEF BuriedInv, DepthInv
        <3> QED BY <3>1, <3>2
    <2> QED BY <2>2, <2>5 DEF BuriedInv
<1> QED BY <1>1, <1>2, <1>3

\* The reads before the depth: the block is the transaction's.
LEMMA EarlyReadsKeepDepth ==
    ASSUME BuriedInv, ReadTx \/ ReadTxReceipt \/ ReadTransfers PROVE BuriedInv'
    BY DEF ReadTx, ReadTxReceipt, ReadTransfers, Read, worldVars, requestVars,
           BuriedInv, ChainTyped, DepthInv, BeforeDepth

\* The depth, from a node that may lack the last block.
LEMMA FinalityKeepsDepth ==
    ASSUME BuriedInv, ReadFinality PROVE BuriedInv'
<1>1. PICK tip \in {head, head - 1} : settled' = (Confirmations(tip) >= Needed)
    BY DEF ReadFinality
<1>2. /\ UNCHANGED <<head, minedAt, forked, family, isLive, txBlock>>
      /\ at' \in {"balance", "done"}
    BY DEF ReadFinality, Read, worldVars, requestVars
<1>3. ChainTyped'
    BY <1>2 DEF BuriedInv, ChainTyped
<1>4. settled' => txBlock # 0 /\ Confirmations(head) >= Needed
    <2>1. tip \in Int /\ head \in Int /\ tip <= head
        BY DEF BuriedInv, ChainTyped
    <2>2. /\ Confirmations(tip) <= Confirmations(head)
          /\ Confirmations(tip) \in Nat /\ Confirmations(head) \in Nat
          /\ Confirmations(tip) >= Needed => txBlock # 0
        BY <2>1, DepthGrows DEF BuriedInv
    <2>3. settled' => Confirmations(tip) >= Needed
        BY <1>1, Zenon
    <2> QED BY <2>2, <2>3, DepthAssumption
<1>5. Confirmations(head)' = Confirmations(head)
    BY <1>2 DEF Confirmations
<1>6. DepthInv'
    BY <1>2, <1>4, <1>5 DEF BuriedInv, DepthInv, BeforeDepth
<1> QED BY <1>3, <1>6 DEF BuriedInv

\* A balance, the demo's answer, or a failure.
LEMMA LateReadsKeepDepth ==
    ASSUME BuriedInv, ReadBalanceNow \/ ReadDemo \/ ReadFails PROVE BuriedInv'
<1> USE DEF worldVars, requestVars, readVars, BuriedInv, ChainTyped, DepthInv, BeforeDepth
<1>1. CASE ReadBalanceNow
    BY <1>1 DEF ReadBalanceNow, Read, Confirmations
<1>2. CASE ReadDemo
    <2>1. ~isLive /\ ~isLive' /\ ChainTyped'
        BY <1>2 DEF ReadDemo
    <2> QED BY <2>1
<1>3. CASE ReadFails
    BY <1>3 DEF ReadFails, Confirmations
<1> QED BY <1>1, <1>2, <1>3

LEMMA BuriedInvInductive == BuriedInv /\ [ForeignNext]_foreignVars => BuriedInv'
<1> SUFFICES ASSUME BuriedInv, [ForeignNext]_foreignVars PROVE BuriedInv'
    OBVIOUS
<1>1. CASE ForeignNext
    BY <1>1, ChainKeepsDepth, EarlyReadsKeepDepth, FinalityKeepsDepth, LateReadsKeepDepth
       DEF ForeignNext
<1>2. CASE UNCHANGED foreignVars
    BY <1>2 DEF foreignVars, worldVars, requestVars, readVars, BuriedInv, ChainTyped,
                DepthInv, Confirmations
<1> QED BY <1>1, <1>2

\* getFinalityState of the Bitcoin, Solana and Tron adapters: a transaction that
\* is reported settled lies as deep as the network asks, in the block that was
\* read, though block and depth come from requests between which the chain grows.
THEOREM SettledIsBuried == ForeignSpec => []FinalIsBuried
<1>1. BuriedInv => FinalIsBuried
    BY DEF BuriedInv, ChainTyped, DepthInv, FinalIsBuried
<1> QED BY <1>1, BuriedInit, BuriedInvInductive, PTL DEF ForeignSpec

-----------------------------------------------------------------------------
(* Induction over the naturals, and the functions it defines *)

\* A set of naturals has a least member.
LEMMA Least ==
    ASSUME NEW T \in SUBSET Nat, T # {} PROVE \E n \in T : \A m \in T : n <= m
<1>1. PICK n \in T : \A m \in T : ~(<<m, n>> \in OpToRel(<, Nat))
    BY WFMin, NatLessThanWellFounded
<1>2. ASSUME NEW m \in T PROVE n <= m
    <2>1. ~(<<m, n>> \in OpToRel(<, Nat))
        BY <1>1
    <2> QED BY <2>1 DEF OpToRel
<1> QED BY <1>2

\* A set that holds 0, and the successor of all it holds up to last, holds
\* all of these.
LEMMA Climb ==
    ASSUME NEW last \in Nat, NEW S, 0 \in S,
           \A n \in 0 .. last : n \in S /\ n < last => n + 1 \in S
    PROVE  0 .. last \subseteq S
<1> DEFINE Missed == (0 .. last) \ S
<1> SUFFICES ASSUME Missed # {} PROVE FALSE
    OBVIOUS
<1>1. Missed \in SUBSET Nat
    OBVIOUS
<1>2. PICK n \in Missed : \A m \in Missed : n <= m
    BY <1>1, Least
<1>3. n # 0 /\ n - 1 \in 0 .. last /\ n - 1 \in S
    BY <1>2
<1> QED BY <1>2, <1>3

Steps(last, D) == [1 .. last -> [D -> D]]
Runs(f, last, base, next) ==
    f[0] = base /\ \A i \in 1 .. last : f[i] = next[i][f[i - 1]]
Total(f, last, D) == f = [i \in 0 .. last |-> f[i]] /\ \A i \in 0 .. last : f[i] \in D
Defines(last, D, base, next) == \E f : Total(f, last, D) /\ Runs(f, last, base, next)

\* A first value and the step from each value to the next define a function.
LEMMA Recursion ==
    ASSUME NEW last \in Nat, NEW D, NEW base \in D, NEW next \in Steps(last, D)
    PROVE  Defines(last, D, base, next)
<1> USE DEF Steps, Runs
<1> DEFINE Defined(f, n) == Runs(f, n, base, next)
<1> DEFINE S == {n \in 0 .. last : \E f \in [0 .. n -> D] : Defined(f, n)}
<1>1. 0 \in S
    <2> DEFINE g == [i \in 0 .. 0 |-> base]
    <2>1. g \in [0 .. 0 -> D] /\ Defined(g, 0) /\ 0 \in 0 .. last
        OBVIOUS
    <2> HIDE DEF g, Defined
    <2> QED BY <2>1
<1>2. ASSUME NEW n \in 0 .. last, n \in S, n < last PROVE n + 1 \in S
    <2>1. PICK f \in [0 .. n -> D] : Defined(f, n)
        BY <1>2
    <2> DEFINE g == [i \in 0 .. n + 1 |-> IF i <= n THEN f[i] ELSE next[i][f[n]]]
    <2>2. f[n] \in D /\ next[n + 1][f[n]] \in D
        BY <1>2
    <2>3. g \in [0 .. n + 1 -> D]
        BY <2>2
    <2>4. ASSUME NEW i \in 1 .. n + 1 PROVE g[i] = next[i][g[i - 1]]
        <3>1. CASE i <= n
            BY <3>1, <2>1
        <3>2. CASE i = n + 1
            BY <3>2
        <3> QED BY <3>1, <3>2
    <2>5. g[0] = base
        BY <2>1
    <2>6. n + 1 \in 0 .. last
        BY <1>2
    <2> HIDE DEF g
    <2>7. Defined(g, n + 1)
        BY <2>4, <2>5, Zenon
    <2> HIDE DEF Defined
    <2> QED BY <2>3, <2>6, <2>7
<1> HIDE DEF S
<1>3. 0 .. last \subseteq S
    BY <1>1, <1>2, Climb, Zenon
<1>4. last \in S
    BY <1>3
<1>5. PICK f \in [0 .. last -> D] : Defined(f, last)
    BY <1>4 DEF S
<1>6. Total(f, last, D)
    BY DEF Total
<1> QED BY <1>5, <1>6 DEF Defines

-----------------------------------------------------------------------------
(* What the adapters find in a payment *)

\* Only runs through the transfers once.
LEMMA OnlyRuns ==
    ASSUME NEW coin, NEW p \in Seq(Payment)
    PROVE  \E f :
             /\ f[0] = <<>> /\ Only(coin, p) = f[Len(p)]
             /\ \A i \in 1 .. Len(p) :
                  f[i] = IF p[i].asset = coin THEN Append(f[i - 1], p[i]) ELSE f[i - 1]
<1> DEFINE last == Len(p)
           none == <<>>
           D == Seq(Payment)
           Taken(i, s) == IF p[i].asset = coin THEN Append(s, p[i]) ELSE s
           Kept(f) == f = [i \in 0 .. last |-> IF i = 0 THEN none ELSE Taken(i, f[i - 1])]
           kept == CHOOSE f : Kept(f)
           next == [i \in 1 .. last |-> [s \in D |-> Taken(i, s)]]
<1>1. last \in Nat /\ none \in D
    OBVIOUS
<1>2. ASSUME NEW i \in 1 .. last, NEW s \in D PROVE Taken(i, s) \in D
    <2>1. p[i] \in Payment
        OBVIOUS
    <2> QED BY <2>1
<1>3. Only(coin, p) = kept[last]
    BY DEF Only
<1> HIDE DEF last, none, D, Taken
<1>4. next \in Steps(last, D)
    BY <1>2 DEF Steps
<1> HIDE DEF next
<1>5. Defines(last, D, none, next)
    BY <1>1, <1>4, Recursion
<1>6. PICK f : Total(f, last, D) /\ Runs(f, last, none, next)
    BY <1>5, Zenon DEF Defines
<1>7. Kept(f)
    <2>1. ASSUME NEW i \in 0 .. last
          PROVE  f[i] = IF i = 0 THEN none ELSE Taken(i, f[i - 1])
        <3>1. CASE i = 0
            BY <1>6, <3>1, Zenon DEF Runs
        <3>2. CASE i # 0
            <4>1. i \in 1 .. last /\ i - 1 \in 0 .. last
                BY <1>1, <3>2
            <4>2. f[i] = next[i][f[i - 1]] /\ f[i - 1] \in D
                BY <1>6, <4>1, Zenon DEF Runs, Total
            <4> QED BY <3>2, <4>1, <4>2, Zenon DEF next
        <3> QED BY <3>1, <3>2
    <2>2. f = [i \in 0 .. last |-> f[i]]
        BY <1>6, Zenon DEF Total
    <2> QED BY <2>1, <2>2, Zenon
<1>8. Kept(kept)
    <2> HIDE DEF Kept
    <2> QED BY <1>7, Zenon
<1> HIDE DEF kept
<1>9. kept[0] = none /\ \A i \in 1 .. last : kept[i] = Taken(i, kept[i - 1])
    <2>1. 0 \in 0 .. last /\ \A i \in 1 .. last : i \in 0 .. last /\ i # 0
        BY <1>1
    <2> QED BY <1>8, <2>1, Zenon
<1> QED BY <1>3, <1>9, Zenon DEF last, none, Taken

\* What is kept is of the payment, and of the asset.
LEMMA OnlyKeeps ==
    ASSUME NEW coin, NEW p \in Seq(Payment)
    PROVE  /\ Only(coin, p) \in Seq(Payment)
           /\ \A k \in DOMAIN Only(coin, p) :
                \E i \in 1 .. Len(p) : Only(coin, p)[k] = p[i] /\ p[i].asset = coin
<1> DEFINE Taken(i, s) == IF p[i].asset = coin THEN Append(s, p[i]) ELSE s
           Of(s) == s \in Seq(Payment) /\ \A k \in DOMAIN s :
                        \E i \in 1 .. Len(p) : s[k] = p[i] /\ p[i].asset = coin
<1>1. PICK f :
             /\ f[0] = <<>> /\ Only(coin, p) = f[Len(p)]
             /\ \A i \in 1 .. Len(p) : f[i] = Taken(i, f[i - 1])
    <2> HIDE DEF Of
    <2> QED BY OnlyRuns
<1>2. Len(p) \in Nat /\ Of(<<>>)
    OBVIOUS
<1>3. ASSUME NEW n \in 1 .. Len(p), NEW s, Of(s) PROVE Of(Taken(n, s))
    <2>1. CASE p[n].asset = coin
        <3>1. p[n] \in Payment /\ s \in Seq(Payment)
            BY <1>3
        <3>2. /\ Append(s, p[n]) \in Seq(Payment)
              /\ DOMAIN Append(s, p[n]) = 1 .. Len(s) + 1 /\ DOMAIN s = 1 .. Len(s)
              /\ Append(s, p[n])[Len(s) + 1] = p[n] /\ Len(s) \in Nat
              /\ \A k \in 1 .. Len(s) : Append(s, p[n])[k] = s[k]
            BY <3>1
        <3>3. ASSUME NEW k \in DOMAIN Append(s, p[n])
              PROVE  \E i \in 1 .. Len(p) : Append(s, p[n])[k] = p[i] /\ p[i].asset = coin
            <4>1. CASE k \in 1 .. Len(s)
                <5>1. Append(s, p[n])[k] = s[k] /\ k \in DOMAIN s
                    BY <3>2, <4>1, Zenon
                <5> QED BY <1>3, <5>1, Zenon
            <4>2. CASE k \notin 1 .. Len(s)
                <5>1. k = Len(s) + 1
                    BY <3>2, <3>3, <4>2
                <5> QED BY <2>1, <3>2, <5>1, Zenon
            <4> QED BY <4>1, <4>2, Zenon
        <3> QED BY <2>1, <3>2, <3>3, Zenon
    <2>2. CASE p[n].asset # coin
        BY <1>3, <2>2, Zenon
    <2> QED BY <2>1, <2>2, Zenon
<1> DEFINE last == Len(p)
           S == {n \in 0 .. last : Of(f[n])}
<1> HIDE DEF Of, Taken, last
<1>4. last \in Nat /\ 0 \in S
    <2>1. last \in Nat /\ 0 \in 0 .. last
        BY <1>2 DEF last
    <2> QED BY <1>1, <1>2, <2>1, Zenon
<1>5. ASSUME NEW n \in 0 .. last, n \in S, n < last PROVE n + 1 \in S
    <2>1. n + 1 \in 1 .. last /\ n + 1 \in 0 .. last /\ (n + 1) - 1 = n
        BY <1>4, <1>5
    <2>2. f[n + 1] = Taken(n + 1, f[n])
        BY <1>1, <2>1, Zenon DEF last
    <2>3. Of(f[n])
        BY <1>5, Zenon
    <2>4. Of(f[n + 1])
        BY <1>3, <2>1, <2>2, <2>3, Zenon DEF last
    <2> QED BY <2>1, <2>4, Zenon
<1> HIDE DEF S
<1>6. 0 .. last \subseteq S
    BY <1>4, <1>5, Climb, Zenon
<1>7. last \in 0 .. last
    BY <1>4
<1>8. Of(f[last])
    BY <1>6, <1>7, Zenon DEF S
<1> QED BY <1>1, <1>8, Zenon DEF Of, last

\* What transfer i credits to the recipient.
Credited(i) ==
    IF ToRecipientIn(payment[i]) /\ Coins(payment[i]) THEN payment[i].amount ELSE 0

LEMMA CreditedIsAmount ==
    ASSUME payment \in Seq(Payment), NEW i \in 1 .. Len(payment)
    PROVE  Credited(i) \in Nat
<1>1. payment[i] \in Payment
    OBVIOUS
<1> QED BY <1>1 DEF Credited, Payment

\* Credit adds the transfers up.
LEMMA CreditRuns ==
    ASSUME payment \in Seq(Payment)
    PROVE  \E f :
             /\ f[0] = 0 /\ Credit = f[Len(payment)]
             /\ \A i \in 1 .. Len(payment) : f[i] = f[i - 1] + Credited(i)
<1> DEFINE last == Len(payment)
           Sum(f) == f = [i \in 0 .. last |-> IF i = 0 THEN 0 ELSE f[i - 1] + Credited(i)]
           paid == CHOOSE f : Sum(f)
           next == [i \in 1 .. last |-> [x \in Nat |-> x + Credited(i)]]
<1>1. last \in Nat /\ \A i \in 1 .. last : Credited(i) \in Nat
    BY CreditedIsAmount
<1>2. Credit = paid[last]
    BY DEF Credit, Credited
<1> HIDE DEF last
<1>3. next \in Steps(last, Nat)
    BY <1>1 DEF Steps
<1> HIDE DEF next
<1>4. Defines(last, Nat, 0, next)
    BY <1>1, <1>3, Recursion
<1>5. PICK f : Total(f, last, Nat) /\ Runs(f, last, 0, next)
    BY <1>4, Zenon DEF Defines
<1>6. Sum(f)
    <2>1. ASSUME NEW i \in 0 .. last
          PROVE  f[i] = IF i = 0 THEN 0 ELSE f[i - 1] + Credited(i)
        <3>1. CASE i = 0
            BY <1>5, <3>1, Zenon DEF Runs
        <3>2. CASE i # 0
            <4>1. i \in 1 .. last /\ i - 1 \in 0 .. last
                BY <1>1, <3>2
            <4>2. f[i] = next[i][f[i - 1]] /\ f[i - 1] \in Nat
                BY <1>5, <4>1, Zenon DEF Runs, Total
            <4> QED BY <3>2, <4>1, <4>2, Zenon DEF next
        <3> QED BY <3>1, <3>2
    <2>2. f = [i \in 0 .. last |-> f[i]]
        BY <1>5, Zenon DEF Total
    <2> QED BY <2>1, <2>2, Zenon
<1>7. Sum(paid)
    <2> HIDE DEF Sum
    <2> QED BY <1>6, Zenon
<1> HIDE DEF paid
<1>8. paid[0] = 0 /\ \A i \in 1 .. last : paid[i] = paid[i - 1] + Credited(i)
    <2>1. 0 \in 0 .. last /\ \A i \in 1 .. last : i \in 0 .. last /\ i # 0
        BY <1>1
    <2> QED BY <1>7, <2>1, Zenon
<1> QED BY <1>2, <1>8, Zenon DEF last

\* Credit is at least what any one transfer credits.
LEMMA CreditCovers ==
    ASSUME payment \in Seq(Payment)
    PROVE  /\ Credit \in Nat
           /\ \A i \in 1 .. Len(payment) : Credited(i) \in Nat /\ Credited(i) <= Credit
<1>1. PICK f : /\ f[0] = 0 /\ Credit = f[Len(payment)]
               /\ \A i \in 1 .. Len(payment) : f[i] = f[i - 1] + Credited(i)
    BY CreditRuns, Zenon
<1> DEFINE last == Len(payment)
           Covers(n) == f[n] \in Nat /\ \A i \in 1 .. n : Credited(i) <= f[n]
           S == {n \in 0 .. last : Covers(n)}
<1>2. last \in Nat /\ \A i \in 1 .. last : Credited(i) \in Nat
    BY CreditedIsAmount
<1>3. \A i \in 1 .. last : f[i] = f[i - 1] + Credited(i)
    BY <1>1, Zenon
<1>4. Credit = f[last]
    BY <1>1, Zenon
<1> HIDE DEF last
<1>5. 0 \in S
    BY <1>1, <1>2
<1>6. ASSUME NEW n \in 0 .. last, n \in S, n < last PROVE n + 1 \in S
    <2>1. n + 1 \in 1 .. last /\ n + 1 \in 0 .. last /\ (n + 1) - 1 = n
        BY <1>2, <1>6
    <2>2. f[n + 1] = f[n] + Credited(n + 1) /\ f[n] \in Nat /\ Credited(n + 1) \in Nat
        BY <1>2, <1>3, <1>6, <2>1
    <2>3. ASSUME NEW i \in 1 .. n + 1 PROVE Credited(i) <= f[n + 1]
        <3>1. CASE i \in 1 .. n
            <4>1. Credited(i) <= f[n] /\ Credited(i) \in Nat
                BY <1>2, <1>6, <3>1
            <4> QED BY <2>2, <4>1
        <3>2. CASE i = n + 1
            BY <2>2, <3>2
        <3> QED BY <1>2, <3>1, <3>2
    <2> QED BY <2>1, <2>2, <2>3
<1> HIDE DEF S
<1>7. 0 .. last \subseteq S
    BY <1>2, <1>5, <1>6, Climb, Zenon
<1>8. Covers(last)
    BY <1>2, <1>7 DEF S
<1> QED BY <1>2, <1>4, <1>8, Zenon DEF last

\* The amount is that of a transfer to the recipient, or nothing.
LEMMA AmountIsOfATransfer ==
    ASSUME events \in Seq(Payment)
    PROVE  /\ Amount \in Nat
           /\ \/ Amount = 0
              \/ \E i \in DOMAIN events :
                   ToRecipientIn(events[i]) /\ Amount = events[i].amount
<1>1. CASE Matches = {}
    BY <1>1 DEF Amount
<1>2. CASE Matches # {}
    <2>1. /\ Matches \in SUBSET (DOMAIN events) /\ DOMAIN events \subseteq Nat
          /\ \A i \in Matches : ToRecipientIn(events[i])
        BY DEF Matches
    <2>2. \E i \in Matches : \A j \in Matches : i <= j
        <3>1. Matches \in SUBSET Nat
            BY <2>1, Zenon
        <3> QED BY <1>2, <3>1, Least
    <2>3. FirstMatch \in Matches
        BY <2>2, Zenon DEF FirstMatch
    <2>4. ToRecipientIn(events[FirstMatch]) /\ FirstMatch \in DOMAIN events
        BY <2>1, <2>3, Zenon
    <2>5. events[FirstMatch].amount \in Nat
        <3>1. events[FirstMatch] \in Payment
            BY <2>4
        <3> QED BY <3>1 DEF Payment
    <2>6. Amount = events[FirstMatch].amount
        BY <1>2, Zenon DEF Amount
    <2> QED BY <2>4, <2>5, <2>6, Zenon
<1> QED BY <1>1, <1>2, Zenon

\* On Bitcoin it is an output of the payment, so the credit covers it.
LEMMA CreditCoversAmount ==
    ASSUME payment \in Seq(Payment), events \in {<<>>, Only("native", payment)}
    PROVE  Amount \in Nat /\ Credit \in Nat /\ Amount <= Credit
<1>1. events \in Seq(Payment)
    <2>1. <<>> \in Seq(Payment)
        OBVIOUS
    <2> QED BY <2>1, OnlyKeeps, Zenon
<1>2. Amount \in Nat /\ Credit \in Nat
    BY <1>1, AmountIsOfATransfer, CreditCovers
<1>3. CASE Amount = 0
    BY <1>2, <1>3
<1>4. ASSUME NEW i \in DOMAIN events, ToRecipientIn(events[i]), Amount = events[i].amount
      PROVE  Amount <= Credit
    <2>1. events = Only("native", payment)
        BY <1>4
    <2>2. PICK k \in 1 .. Len(payment) : events[i] = payment[k] /\ payment[k].asset = "native"
        BY <1>4, <2>1, OnlyKeeps, Zenon
    <2>3. Credited(k) = Amount
        BY <1>4, <2>2 DEF Credited, Coins, ToRecipientIn
    <2> QED BY <2>2, <2>3, CreditCovers
<1> QED BY <1>1, <1>2, <1>3, <1>4, AmountIsOfATransfer, Zenon

LEMMA EventsOfPayment ==
    ASSUME family \in Families, payment \in Seq(Payment) \ {<<>>}
    PROVE  /\ EventsOf(payment) \in Seq(Payment)
           /\ family = "bitcoin" => EventsOf(payment) = Only("native", payment)
<1>1. Only("native", payment) \in Seq(Payment) /\ Only("token", payment) \in Seq(Payment)
    BY OnlyKeeps
<1>2. CASE family = "bitcoin"
    BY <1>1, <1>2, Zenon DEF EventsOf
<1>3. CASE family = "solana"
    <2>1. Only("native", payment) \o Only("token", payment) \in Seq(Payment) /\ <<>> \in Seq(Payment)
        BY <1>1
    <2>2. EventsOf(payment) = IF fails THEN <<>>
                              ELSE Only("native", payment) \o Only("token", payment)
        BY <1>3, Zenon DEF EventsOf
    <2> QED BY <1>3, <2>1, <2>2, Zenon
<1>4. CASE family = "tron"
    <2>1. payment[1] \in Payment
        OBVIOUS
    <2>2. [payment[1] EXCEPT !.amount = 0] \in Payment
        BY <2>1 DEF Payment
    <2>3. \A x \in Payment : <<x>> \in Seq(Payment)
        OBVIOUS
    <2>4. EventsOf(payment) = IF Coins(payment[1]) THEN <<payment[1]>>
                              ELSE <<[payment[1] EXCEPT !.amount = 0]>>
        BY <1>4, Zenon DEF EventsOf

    <2> QED BY <1>4, <2>1, <2>2, <2>3, <2>4, Zenon
<1> QED BY <1>2, <1>3, <1>4, Zenon DEF Families

\* Neither changes unless what it is computed from does.
LEMMA CreditStays == ASSUME payment' = payment PROVE Credit' = Credit
    BY DEF Credit, ToRecipientIn, Coins

LEMMA AmountStays == ASSUME events' = events, hint' = hint PROVE Amount' = Amount
    BY DEF Amount, FirstMatch, Matches, ToRecipientIn, InAsset, IsToken

-----------------------------------------------------------------------------
(* Types *)

LEMMA ForeignTypedInit == ForeignInit => ForeignTypeOK
<1> SUFFICES ASSUME ForeignInit PROVE ForeignTypeOK
    OBVIOUS
<1>1. events \in Seq(Payment) /\ head \in 1 .. MaxHead /\ minedAt \in 0 .. head
    BY DepthAssumption DEF ForeignInit
<1>2. /\ forked \in BOOLEAN /\ spent \in BOOLEAN /\ settled \in BOOLEAN
      /\ isLive \in BOOLEAN /\ fails \in BOOLEAN
    BY Zenon DEF ForeignInit
<1>3. /\ holding \in 0 .. MaxHolding /\ family \in Families /\ payment \in Payments
      /\ hint \in {"none", "native", "token"} /\ at \in Awaiting
      /\ txBlock \in 0 .. MaxHead /\ txReceipt = "none"
      /\ confirmations \in Nat /\ balanceBefore \in Nat /\ balanceAfter \in Nat
    BY DepthAssumption DEF ForeignInit, Awaiting
<1> QED BY <1>1, <1>2, <1>3, Zenon DEF ForeignTypeOK

\* The chain's own steps.
LEMMA ChainTypes ==
    ASSUME ForeignTypeOK, Fork \/ Spend \/ \E includes \in BOOLEAN : NewBlock(includes)
    PROVE  ForeignTypeOK'
<1> USE DEF requestVars, readVars, ForeignTypeOK
<1>1. CASE Fork
    BY <1>1, DepthAssumption DEF Fork
<1>2. CASE Spend
    <2>1. spent' \in BOOLEAN
        BY <1>2, Zenon DEF Spend
    <2>2. holding' \in 0 .. MaxHolding
        BY <1>2, DepthAssumption DEF Spend
    <2>3. UNCHANGED <<head, minedAt, forked, requestVars, at, readVars>>
        BY <1>2 DEF Spend
    <2> QED BY <2>1, <2>2, <2>3
<1>3. ASSUME NEW includes \in BOOLEAN, NewBlock(includes) PROVE ForeignTypeOK'
    <2>1. payment \in Seq(Payment) /\ Credit \in Nat
        BY PaymentAssumption, CreditCovers
    <2>2. /\ head' \in 1 .. MaxHead /\ minedAt' \in 0 .. head'
          /\ holding' \in 0 .. MaxHolding
        BY <1>3, <2>1, DepthAssumption DEF NewBlock
    <2>3. UNCHANGED <<forked, spent, requestVars, at, readVars>>
        BY <1>3 DEF NewBlock
    <2> QED BY <2>2, <2>3
<1> QED BY <1>1, <1>2, <1>3

\* The reads.
LEMMA ReadTypes ==
    ASSUME ForeignTypeOK, ReadTx \/ ReadTxReceipt \/ ReadTransfers \/ ReadFinality
                          \/ ReadBalanceNow \/ ReadDemo \/ ReadFails
    PROVE  ForeignTypeOK'
<1> USE DEF worldVars, requestVars, readVars, Read
<1>1. CASE ReadTx
    <2>1. txBlock' \in 0 .. MaxHead
        BY <1>1, DepthAssumption DEF ReadTx, ForeignTypeOK
    <2>2. /\ at' = "receipt"
          /\ UNCHANGED <<worldVars, requestVars, txReceipt, events, confirmations, settled,
                         balanceBefore, balanceAfter>>
        BY <1>1, Zenon DEF ReadTx
    <2> QED BY <2>1, <2>2 DEF ForeignTypeOK, Awaiting
<1>2. CASE ReadTxReceipt
    BY <1>2 DEF ReadTxReceipt, ForeignTypeOK, Awaiting
<1>3. CASE ReadTransfers
    <2>1. EventsOf(payment) \in Seq(Payment)
        BY PaymentAssumption, EventsOfPayment DEF ForeignTypeOK
    <2>2. <<>> \in Seq(Payment)
        OBVIOUS
    <2>3. events' \in {<<>>, EventsOf(payment)}
        BY <1>3, Zenon DEF ReadTransfers
    <2>4. events' \in Seq(Payment)
        BY <2>1, <2>2, <2>3, Zenon
    <2>5. at' = "finality"
          /\ UNCHANGED <<worldVars, requestVars, txBlock, txReceipt, confirmations, settled,
                         balanceBefore, balanceAfter>>
        BY <1>3, Zenon DEF ReadTransfers
    <2> QED BY <2>4, <2>5 DEF ForeignTypeOK, Awaiting
<1>4. CASE ReadFinality
    <2>1. Amount \in Nat
        BY AmountIsOfATransfer DEF ForeignTypeOK
    <2>2. PICK tip \in {head, head - 1} :
            confirmations' = Confirmations(tip) /\ settled' = (Confirmations(tip) >= Needed)
        BY <1>4, Zenon DEF ReadFinality
    <2>3. Confirmations(tip) \in Nat
        BY DepthAssumption, DepthGrows DEF ForeignTypeOK, ChainTyped
    <2>4. settled' \in BOOLEAN
        <3> DEFINE deep == Confirmations(tip) >= Needed
        <3> HIDE DEF deep
        <3>1. settled' = deep
            BY <2>2, Zenon DEF deep
        <3>2. deep \in BOOLEAN
            BY DEF deep
        <3> QED BY <3>1, <3>2, Zenon
    <2>5. /\ at' \in {"balance", "done"} /\ balanceBefore' = 0 /\ balanceAfter' = Amount
          /\ UNCHANGED <<worldVars, requestVars, txBlock, txReceipt, events>>
        BY <1>4, Zenon DEF ReadFinality
    <2>6. confirmations' \in Nat /\ balanceBefore' \in Nat /\ balanceAfter' \in Nat
        BY <2>1, <2>2, <2>3, <2>5
    <2> QED BY <2>4, <2>5, <2>6 DEF ForeignTypeOK, Awaiting
<1>5. CASE ReadBalanceNow
    <2>1. Amount \in Nat /\ holding \in Nat
        BY AmountIsOfATransfer DEF ForeignTypeOK
    <2>2. balanceBefore' \in Nat /\ balanceAfter' \in Nat
        BY <1>5, <2>1 DEF ReadBalanceNow, BeforePayment, ForeignTypeOK
    <2>3. at' = "done" /\ UNCHANGED <<worldVars, requestVars, txBlock, txReceipt, events,
                                      confirmations, settled>>
        BY <1>5 DEF ReadBalanceNow
    <2> QED BY <2>2, <2>3 DEF ForeignTypeOK
<1>6. CASE ReadDemo
    <2>1. [to |-> "recipient", asset |-> "native", amount |-> 1] \in Payment
        BY DEF Payment
    <2>2. <<[to |-> "recipient", asset |-> "native", amount |-> 1]>> \in Seq(Payment)
        BY <2>1
    <2>3. events' \in Seq(Payment)
        BY <1>6, <2>2, Zenon DEF ReadDemo, ForeignTypeOK
    <2>4. /\ at' = "done" /\ settled' = TRUE /\ confirmations' = Needed
          /\ txBlock' \in {1, txBlock} /\ txReceipt' \in {"success", txReceipt}
          /\ balanceAfter' \in {1, balanceAfter}
          /\ UNCHANGED <<worldVars, requestVars, balanceBefore>>
        BY <1>6, Zenon DEF ReadDemo
    <2> QED BY <2>3, <2>4, DepthAssumption DEF ForeignTypeOK
<1>7. CASE ReadFails
    BY <1>7 DEF ReadFails, ForeignTypeOK
<1> QED BY <1>1, <1>2, <1>3, <1>4, <1>5, <1>6, <1>7

LEMMA ForeignTypedStep == ForeignTypeOK /\ [ForeignNext]_foreignVars => ForeignTypeOK'
<1> SUFFICES ASSUME ForeignTypeOK, [ForeignNext]_foreignVars PROVE ForeignTypeOK'
    OBVIOUS
<1>1. CASE ForeignNext
    BY <1>1, ChainTypes, ReadTypes DEF ForeignNext
<1>2. CASE UNCHANGED foreignVars
    BY <1>2 DEF foreignVars, worldVars, requestVars, readVars, ForeignTypeOK
<1> QED BY <1>1, <1>2

\* The reads keep their types for any payments and bounds.
THEOREM ForeignTyped == ForeignSpec => []ForeignTypeOK
    BY ForeignTypedInit, ForeignTypedStep, PTL DEF ForeignSpec
-----------------------------------------------------------------------------
(***************************************************************************)
(* The balance check.  A payment that was mined is in the recipient's      *)
(* balance until a fork moves it or the recipient spends, and the amount   *)
(* the adapter names is one of the transfers the balance grew by.          *)
(***************************************************************************)
Disturbed == spent \/ forked

ShortfallInv ==
    /\ ForeignTypeOK
    /\ family = "bitcoin" => ~fails
    /\ family = "bitcoin" /\ isLive => events \in {<<>>, Only("native", payment)}
    /\ isLive /\ txReceipt = "success" => (minedAt # 0 /\ ~fails) \/ forked
    /\ minedAt # 0 /\ ~fails => holding >= Credit \/ Disturbed
    /\ ~isLive => at \in {"transaction", "done", "failed"}
    /\ at \in BeforeDepth =>
         /\ balanceBefore = 0 /\ balanceAfter = 0
         /\ ~isLive => events = <<>> /\ txReceipt = "none"
    /\ at = "balance" => family = "bitcoin" /\ balanceBefore = 0 /\ balanceAfter = Amount
    /\ at = "done" => balanceAfter - balanceBefore = Amount
                      \/ txReceipt # "success" \/ Disturbed

LEMMA ShortfallInit == ForeignInit => ShortfallInv
<1> SUFFICES ASSUME ForeignInit PROVE ShortfallInv
    OBVIOUS
<1>1. ForeignTypeOK
    BY ForeignTypedInit
<1>2. /\ family = "bitcoin" => ~fails
      /\ events = <<>> /\ at = "transaction" /\ txReceipt = "none" /\ minedAt = 0
      /\ balanceBefore = 0 /\ balanceAfter = 0
    BY DEF ForeignInit
<1> QED BY <1>1, <1>2 DEF ShortfallInv

\* The chain's own steps: the payment's block adds the credit, and what moves
\* the balance otherwise is remembered.
LEMMA ChainKeepsCredit ==
    ASSUME ShortfallInv, at \in Awaiting /\ isLive,
           Fork \/ Spend \/ \E includes \in BOOLEAN : NewBlock(includes)
    PROVE  ShortfallInv'
<1>1. ForeignTypeOK'
    BY ChainTypes DEF ShortfallInv
<1>2. /\ UNCHANGED <<requestVars, at, readVars>>
      /\ minedAt' # 0 => minedAt = 0 \/ minedAt' = minedAt
      /\ minedAt # 0 /\ minedAt' = 0 => forked'
      /\ Disturbed => Disturbed'
      /\ forked => forked'
    BY DEF Fork, Spend, NewBlock, Disturbed, ShortfallInv, ForeignTypeOK
<1>3. Credit' = Credit /\ Amount' = Amount
    BY <1>2, CreditStays, AmountStays DEF requestVars, readVars
<1>4. payment \in Seq(Payment) /\ Credit \in Nat
    BY PaymentAssumption, CreditCovers DEF ShortfallInv, ForeignTypeOK
<1>5. minedAt' # 0 /\ ~fails' => holding' >= Credit' \/ Disturbed'
    <2> HIDE <1>1
    <2> USE <1>2, <1>3, <1>4 DEF requestVars
    <2>1. CASE Fork
        BY <2>1 DEF Fork, Disturbed
    <2>2. CASE Spend
        BY <2>2 DEF Spend, Disturbed
    <2>3. ASSUME NEW includes \in BOOLEAN, NewBlock(includes)
          PROVE  minedAt' # 0 /\ ~fails' => holding' >= Credit' \/ Disturbed'
        BY <2>3 DEF NewBlock, Disturbed, ShortfallInv, ForeignTypeOK
    <2> QED BY <2>1, <2>2, <2>3
<1>6. Only("native", payment)' = Only("native", payment)
    BY <1>2 DEF requestVars, Only
<1>7. UNCHANGED <<family, isLive, fails, at, txReceipt, events, balanceBefore, balanceAfter>>
    BY <1>2 DEF requestVars, readVars
<1> QED BY <1>1, <1>2, <1>3, <1>5, <1>6, <1>7 DEF ShortfallInv, Disturbed

\* The reads before the balance.
LEMMA EarlyReadsKeepCredit ==
    ASSUME ShortfallInv, ReadTx \/ ReadTxReceipt \/ ReadTransfers
    PROVE  ShortfallInv'
<1>1. ForeignTypeOK'
    BY ReadTypes DEF ShortfallInv
<1>2. /\ isLive /\ at \in {"transaction", "receipt", "events"}
      /\ at' \in {"receipt", "events", "finality"}
      /\ UNCHANGED <<worldVars, requestVars, balanceBefore, balanceAfter>>
    BY Zenon DEF ReadTx, ReadTxReceipt, ReadTransfers, Read
<1>3. Credit' = Credit /\ Only("native", payment)' = Only("native", payment)
    BY <1>2, CreditStays DEF requestVars, Only
<1>4. family = "bitcoin" => events' \in {<<>>, Only("native", payment)}
    <2>1. CASE ReadTransfers
        <3>1. events' \in {<<>>, EventsOf(payment)}
            BY <2>1, Zenon DEF ReadTransfers
        <3>2. family \in Families /\ payment \in Seq(Payment) \ {<<>>}
            BY PaymentAssumption DEF ShortfallInv, ForeignTypeOK
        <3>3. family = "bitcoin" => EventsOf(payment) = Only("native", payment)
            BY <3>2, EventsOfPayment
        <3> QED BY <3>1, <3>3, Zenon
    <2>2. CASE ReadTx \/ ReadTxReceipt
        BY <1>2, <2>2 DEF ReadTx, ReadTxReceipt, ShortfallInv
    <2> QED BY <2>1, <2>2
<1>5. txReceipt' = "success" => (minedAt # 0 /\ ~fails) \/ forked
    BY <1>2 DEF ReadTx, ReadTxReceipt, ReadTransfers, ShortfallInv
<1>6. UNCHANGED <<family, isLive, fails, minedAt, holding, spent, forked>>
    BY <1>2 DEF worldVars, requestVars
<1>7. /\ family = "bitcoin" => ~fails
      /\ minedAt # 0 /\ ~fails => holding >= Credit \/ Disturbed
      /\ balanceBefore = 0 /\ balanceAfter = 0
    BY <1>2 DEF ShortfallInv, BeforeDepth
<1> QED BY <1>1, <1>2, <1>3, <1>4, <1>5, <1>6, <1>7 DEF ShortfallInv, Disturbed, BeforeDepth

\* The depth: without a transfer on Bitcoin to ask the balance for, the amount
\* is the balance.
LEMMA FinalityKeepsCredit ==
    ASSUME ShortfallInv, ReadFinality PROVE ShortfallInv'
<1>1. ForeignTypeOK' /\ Amount \in Nat
    BY ReadTypes, AmountIsOfATransfer DEF ShortfallInv, ForeignTypeOK
<1>2. /\ isLive /\ balanceBefore' = 0 /\ balanceAfter' = Amount
      /\ at' \in {"balance", "done"} /\ (at' = "balance" => family = "bitcoin")
      /\ UNCHANGED <<worldVars, requestVars, txReceipt, events>>
    BY Zenon DEF ReadFinality, Read
<1>3. UNCHANGED <<family, isLive, fails, hint, payment, minedAt, holding, spent, forked>>
    BY <1>2 DEF worldVars, requestVars
<1>4. /\ Credit' = Credit /\ Only("native", payment)' = Only("native", payment)
      /\ Amount' = Amount
    BY <1>2, <1>3, CreditStays, AmountStays DEF Only
<1>5. balanceAfter' - balanceBefore' = Amount'
    BY <1>1, <1>2, <1>4
<1> QED BY <1>1, <1>2, <1>3, <1>4, <1>5 DEF ShortfallInv, Disturbed, BeforeDepth

\* Bitcoin's balance now: what it held before the payment is computed from it.
LEMMA BalanceKeepsCredit ==
    ASSUME ShortfallInv, ReadBalanceNow PROVE ShortfallInv'
<1>1. ForeignTypeOK'
    BY ReadTypes DEF ShortfallInv
<1>2. /\ isLive /\ at = "balance" /\ at' = "done"
      /\ UNCHANGED <<worldVars, requestVars, txReceipt, events>>
    BY Zenon DEF ReadBalanceNow, Read
<1>3. UNCHANGED <<family, isLive, fails, hint, payment, minedAt, holding, spent, forked>>
    BY <1>2 DEF worldVars, requestVars
<1>4. /\ Credit' = Credit /\ Only("native", payment)' = Only("native", payment)
      /\ Amount' = Amount
    BY <1>2, <1>3, CreditStays, AmountStays DEF Only
<1>5. /\ family = "bitcoin" /\ payment \in Seq(Payment) /\ holding \in Nat
      /\ events \in {<<>>, Only("native", payment)}
      /\ balanceBefore = 0 /\ balanceAfter = Amount
    BY <1>2, PaymentAssumption DEF ShortfallInv, ForeignTypeOK
<1>6. Amount \in Nat /\ Credit \in Nat /\ Amount <= Credit
    BY <1>5, CreditCoversAmount
<1>7. txReceipt = "success" /\ ~Disturbed => holding >= Credit
    BY <1>2 DEF ShortfallInv, Disturbed
<1>8. txReceipt = "success" /\ ~Disturbed => balanceAfter' - balanceBefore' = Amount
    <2>1. CASE UNCHANGED <<balanceBefore, balanceAfter>>
        BY <1>5, <1>6, <2>1
    <2>2. CASE balanceAfter' = holding /\ balanceBefore' = BeforePayment(holding)
        BY <1>5, <1>6, <1>7, <2>2 DEF BeforePayment
    <2> QED BY <2>1, <2>2 DEF ReadBalanceNow
<1> QED BY <1>1, <1>2, <1>3, <1>4, <1>8 DEF ShortfallInv, Disturbed, BeforeDepth

\* The demo's answer.
LEMMA DemoKeepsCredit ==
    ASSUME ShortfallInv, ReadDemo PROVE ShortfallInv'
<1>1. ForeignTypeOK'
    BY ReadTypes DEF ShortfallInv
<1>2. /\ ~isLive /\ at = "transaction" /\ at' = "done"
      /\ UNCHANGED <<worldVars, requestVars, balanceBefore>>
    BY Zenon DEF ReadDemo
<1>3. UNCHANGED <<family, isLive, fails, hint, payment, minedAt, holding, spent, forked>>
    BY <1>2 DEF worldVars, requestVars
<1>4. Credit' = Credit
    BY <1>3, CreditStays
<1>5. balanceBefore' = 0
    BY <1>2 DEF ShortfallInv, BeforeDepth
<1>6. txReceipt' = "success" => balanceAfter' - balanceBefore' = Amount'
    <2>1. CASE UNCHANGED <<txBlock, txReceipt, events, balanceAfter>>
        BY <1>2, <2>1 DEF ShortfallInv, BeforeDepth
    <2>2. CASE /\ events' = <<[to |-> "recipient", asset |-> "native", amount |-> 1]>>
               /\ balanceAfter' = 1
        <3> DEFINE one == [to |-> "recipient", asset |-> "native", amount |-> 1]
        <3>1. DOMAIN events' = {1} /\ events'[1] = one
            BY <2>2
        <3>2. Matches' = {1}
            BY <3>1 DEF Matches, ToRecipientIn
        <3>3. FirstMatch' = 1
            BY <3>2 DEF FirstMatch
        <3>4. Amount' = 1
            BY <3>1, <3>2, <3>3 DEF Amount
        <3> QED BY <1>5, <2>2, <3>4
    <2> QED BY <2>1, <2>2, Zenon DEF ReadDemo
<1> QED BY <1>1, <1>2, <1>3, <1>4, <1>6 DEF ShortfallInv, Disturbed, BeforeDepth

LEMMA ShortfallStep == ShortfallInv /\ [ForeignNext]_foreignVars => ShortfallInv'
<1> SUFFICES ASSUME ShortfallInv, [ForeignNext]_foreignVars PROVE ShortfallInv'
    OBVIOUS
<1>1. ASSUME ReadFails PROVE ShortfallInv'
    <2>1. ForeignTypeOK'
        BY <1>1, ReadTypes DEF ShortfallInv
    <2>2. UNCHANGED <<worldVars, requestVars, readVars>> /\ at' = "failed" /\ isLive
        BY <1>1, Zenon DEF ReadFails
    <2>3. Credit' = Credit /\ Only("native", payment)' = Only("native", payment)
        BY <2>2, CreditStays DEF requestVars, Only
    <2> QED BY <2>1, <2>2, <2>3
            DEF ShortfallInv, Disturbed, BeforeDepth, worldVars, requestVars, readVars
<1>2. CASE UNCHANGED foreignVars
    <2>1. /\ UNCHANGED <<worldVars, requestVars, at, readVars>>
          /\ UNCHANGED <<payment, events, hint>>
        BY <1>2 DEF foreignVars, requestVars, readVars
    <2>2. ForeignTypeOK'
        BY <1>2, ForeignTypedStep DEF ShortfallInv
    <2>3. /\ Credit' = Credit /\ Only("native", payment)' = Only("native", payment)
          /\ Amount' = Amount
        BY <2>1, CreditStays, AmountStays DEF Only
    <2> QED BY <2>1, <2>2, <2>3
            DEF ShortfallInv, Disturbed, BeforeDepth, worldVars, requestVars, readVars
<1>3. CASE ForeignNext
    BY <1>1, <1>3, ChainKeepsCredit, EarlyReadsKeepCredit, FinalityKeepsCredit,
       BalanceKeepsCredit, DemoKeepsCredit DEF ForeignNext
<1> QED BY <1>2, <1>3

\* getBalance of the Bitcoin, Solana and Tron adapters and the pipeline's check
\* of it: a payment that succeeded fails the check only if the recipient has
\* spent since, or a fork moved the balance, for any payments.
THEOREM ShortfallIsExplained == ForeignSpec => []ShortfallNeedsSpending
<1>1. ShortfallInv => ShortfallNeedsSpending
    BY DEF ShortfallInv, ShortfallNeedsSpending, Disturbed
<1> QED BY <1>1, ShortfallInit, ShortfallStep, PTL DEF ForeignSpec

\* Both at once: final evidence of getTransaction, getFinalityState and
\* getBalanceChange of the three adapters stands.
THEOREM EvidenceStands == ForeignSpec => []ForeignEvidenceStands
<1>1. FinalIsBuried /\ ShortfallNeedsSpending => ForeignEvidenceStands
    BY DEF ForeignEvidenceStands
<1> QED BY <1>1, SettledIsBuried, ShortfallIsExplained, PTL

-----------------------------------------------------------------------------
(***************************************************************************)
(* BalanceReads: what an honest node has answered is a balance the account *)
(* has held since it was asked for, and stays one while the account moves. *)
(***************************************************************************)
AnswersHeld ==
    \A i \in DOMAIN observations :
        observations[i].ok => i = liar \/ observations[i].balance \in Honest

BalanceInv ==
    /\ BalanceReadsTypeOK
    /\ balanceReply = Unasked => observations = <<>>
    /\ AnswersHeld
    /\ VerifiedBalanceWasHeld

\* A set of at most one element.
LEMMA AtMostOne ==
    ASSUME NEW S, IsFiniteSet(S), ~(Cardinality(S) > 1), NEW x \in S, NEW y \in S
    PROVE  x = y
<1> SUFFICES ASSUME x # y PROVE FALSE
    OBVIOUS
<1>1. IsFiniteSet({x}) /\ Cardinality({x}) = 1
    BY FS_Singleton
<1>2. Cardinality({x} \union {y}) = 2
    BY <1>1, FS_AddElement
<1>3. {x} \union {y} \in SUBSET S
    OBVIOUS
<1>4. Cardinality({x} \union {y}) <= Cardinality(S) /\ Cardinality(S) \in Nat
    BY <1>3, FS_Subset, FS_CardinalityType
<1> QED BY <1>2, <1>4

LEMMA ImageFinite ==
    ASSUME NEW I, IsFiniteSet(I), NEW f PROVE IsFiniteSet({f[i] : i \in I})
<1> DEFINE g == [i \in I |-> f[i]]
<1>1. g \in Surjection(I, {f[i] : i \in I})
    BY DEF Surjection
<1> HIDE DEF g
<1> QED BY <1>1, FS_Surjection

LEMMA HonestFinite == ASSUME BalanceReadsTypeOK PROVE IsFiniteSet(Honest)
<1>1. PICK low \in Nat : Honest = {held[i] : i \in low .. Len(held)}
    <2>1. since \in Nat /\ since >= 1
        BY DEF BalanceReadsTypeOK
    <2>2. (IF since = 1 THEN 1 ELSE since - 1) \in Nat
        BY <2>1
    <2> QED BY <2>2, Zenon DEF Honest
<1>2. Len(held) \in Nat
    BY DEF BalanceReadsTypeOK
<1>3. IsFiniteSet(low .. Len(held))
    BY <1>2, FS_Interval
<1> QED BY <1>1, <1>3, ImageFinite, Zenon

\* The account's moves and the request keep what was answered.
LEMMA HonestGrows ==
    ASSUME BalanceReadsTypeOK, NEW a \in Amounts, Move(a) PROVE Honest \subseteq Honest'
<1>1. /\ held' = Append(held, a) /\ since' = since
      /\ held \in Seq(Amounts) /\ since \in 1 .. Len(held)
    BY DEF Move, BalanceReadsTypeOK
<1> DEFINE low == IF since = 1 THEN 1 ELSE since - 1
<1>2. low \in 1 .. Len(held) /\ Len(held) \in Nat /\ Len(held') = Len(held) + 1
    BY <1>1
<1>3. \A i \in low .. Len(held) : held'[i] = held[i] /\ i \in low .. Len(held')
    BY <1>1, <1>2
<1> QED BY <1>1, <1>3, Zenon DEF Honest

LEMMA BalancesFinite ==
    ASSUME BalanceReadsTypeOK PROVE IsFiniteSet(BalancesOf(observations))
<1>1. BalancesOf(observations) \in
        SUBSET ({observations[1].balance} \union {observations[2].balance})
    <2>1. \A i \in DOMAIN observations : i = 1 \/ i = 2
        BY DEF BalanceReadsTypeOK
    <2> QED BY <2>1, Zenon DEF BalancesOf, Good
<1>2. IsFiniteSet({observations[1].balance} \union {observations[2].balance})
    BY FS_Singleton, FS_AddElement
<1> QED BY <1>1, <1>2, FS_Subset, Zenon

\* What reconcileBalanceReads makes of the answers.
LEMMA ReconciledIsHeld ==
    ASSUME BalanceInv, Reconcile
    PROVE  /\ balanceReply' \in
                [verification : {"verified", "unavailable", "requires_reconciliation"},
                 balance : Amounts \union {NoBalance}]
           /\ balanceReply'.verification = "verified" /\ balanceReply'.balance \notin Honest =>
                /\ liar \in DOMAIN observations /\ observations[liar].ok
                /\ \A i \in DOMAIN observations : i # liar => ~observations[i].ok
           /\ balanceReply'.verification = "requires_reconciliation" =>
                liar # 0 \/ Cardinality(Honest) > 1
<1> DEFINE balances == BalancesOf(observations)
<1>1. balanceReply' = Reconciled(observations)
    BY DEF Reconcile
<1>2. IsFiniteSet(balances) /\ IsFiniteSet(Honest)
    BY BalancesFinite, HonestFinite DEF BalanceInv
<1>3. /\ \A i \in Good(observations) : observations[i].balance \in Amounts
      /\ \A i \in DOMAIN observations : i \in Good(observations) <=> observations[i].ok
      /\ Good(observations) \subseteq DOMAIN observations
    <2>1. \A i \in DOMAIN observations : observations[i] \in Observation
        BY DEF BalanceInv, BalanceReadsTypeOK
    <2>2. \A x \in Observation : x.ok => x.balance \in Amounts
        BY DEF Observation, Answer, NoAnswer
    <2> QED BY <2>1, <2>2, Zenon DEF Good
<1>4. CASE Good(observations) = {}
    BY <1>1, <1>4 DEF Reconciled, Reply
<1>5. CASE Good(observations) # {} /\ Cardinality(balances) > 1
    <2>1. balanceReply' = Reply("requires_reconciliation")
        BY <1>1, <1>5, Zenon DEF Reconciled
    <2>2. ASSUME liar = 0 PROVE Cardinality(Honest) > 1
        <3>1. balances \in SUBSET Honest
            <4>1. 0 \notin DOMAIN observations
                BY DEF BalanceInv, BalanceReadsTypeOK
            <4> QED BY <1>3, <2>2, <4>1, Zenon DEF BalanceInv, AnswersHeld, BalancesOf
        <3>2. /\ Cardinality(balances) <= Cardinality(Honest)
              /\ Cardinality(balances) \in Nat /\ Cardinality(Honest) \in Nat
            BY <1>2, <3>1, FS_Subset, FS_CardinalityType
        <3> QED BY <1>5, <3>2
    <2> QED BY <2>1, <2>2 DEF Reply
<1>6. CASE Good(observations) # {} /\ ~(Cardinality(balances) > 1)
    <2> DEFINE b == CHOOSE x \in balances : TRUE
    <2>1. balanceReply' = [verification |-> "verified", balance |-> b]
        BY <1>1, <1>6, Zenon DEF Reconciled
    <2>2. PICK k \in Good(observations) : b = observations[k].balance
        <3>1. balances # {}
            BY <1>6, Zenon DEF BalancesOf
        <3>2. b \in balances
            BY <3>1, Zenon
        <3> QED BY <3>2, Zenon DEF BalancesOf
    <2> HIDE DEF b
    <2>3. \A i \in Good(observations) : observations[i].balance = b
        <3>1. \A i \in Good(observations) : observations[i].balance \in balances
            BY Zenon DEF BalancesOf
        <3> HIDE DEF balances
        <3> QED BY <1>2, <1>6, <2>2, <3>1, AtMostOne, Zenon
    <2>4. ASSUME b \notin Honest
          PROVE  /\ liar \in DOMAIN observations /\ observations[liar].ok
                 /\ \A i \in DOMAIN observations : i # liar => ~observations[i].ok
        <3>1. \A i \in Good(observations) : i = liar
            BY <1>3, <2>3, <2>4, Zenon DEF BalanceInv, AnswersHeld
        <3> QED BY <1>3, <2>2, <3>1, Zenon
    <2>5. b \in Amounts
        BY <1>3, <2>2, Zenon
    <2> QED BY <2>1, <2>4, <2>5
<1> QED BY <1>4, <1>5, <1>6

LEMMA BalanceInit == BalanceReadsInit => BalanceInv
<1> SUFFICES ASSUME BalanceReadsInit PROVE BalanceInv
    OBVIOUS
<1>1. held \in Seq(Amounts) /\ Len(held) = 1
    <2>1. PICK a \in Amounts : held = <<a>>
        BY Zenon DEF BalanceReadsInit
    <2> QED BY <2>1
<1>2. /\ secondary \in BOOLEAN /\ liar \in 0 .. 2 /\ adapterLive \in BOOLEAN
      /\ observations = <<>> /\ since = 1 /\ balanceReply = Unasked
    BY Zenon DEF BalanceReadsInit
<1>3. observations \in Seq(Observation) /\ Len(observations) = 0 /\ DOMAIN observations = {}
    BY <1>2
<1>4. Len(held) \in 1 .. MaxMoves + 1 /\ since \in 1 .. Len(held)
    BY <1>1, <1>2, AmountsAssumption
<1>5. /\ balanceReply.verification = "unasked"
      /\ balanceReply \in [verification : {"unasked"}, balance : Amounts \union {NoBalance}]
    BY <1>2 DEF Unasked, Reply
<1> QED BY <1>1, <1>2, <1>3, <1>4, <1>5
        DEF BalanceInv, BalanceReadsTypeOK, AnswersHeld, VerifiedBalanceWasHeld

\* An answer is recorded after the others.
LEMMA ObservationAdded ==
    ASSUME BalanceInv, NEW o \in Observation, Asking, observations' = Append(observations, o),
           UNCHANGED <<held, secondary, liar, adapterLive, since, balanceReply>>,
           o.ok => Node = liar \/ o.balance \in Honest
    PROVE  BalanceInv'
<1>1. /\ observations \in Seq(Observation) /\ Len(observations) \in Nat
      /\ Len(observations) < 2
    BY DEF BalanceInv, BalanceReadsTypeOK, Asking, Sources
<1>2. /\ observations' \in Seq(Observation) /\ Len(observations') = Len(observations) + 1
      /\ DOMAIN observations' = 1 .. Len(observations) + 1
      /\ DOMAIN observations = 1 .. Len(observations)
      /\ observations'[Len(observations) + 1] = o
      /\ \A i \in 1 .. Len(observations) : observations'[i] = observations[i]
    BY <1>1
<1>3. Honest' = Honest
    BY DEF Honest
<1>4. AnswersHeld'
    <2>1. ASSUME NEW i \in DOMAIN observations', observations'[i].ok
          PROVE  i = liar \/ observations'[i].balance \in Honest
        <3>1. CASE i \in 1 .. Len(observations)
            BY <1>2, <2>1, <3>1 DEF BalanceInv, AnswersHeld
        <3>2. CASE i \notin 1 .. Len(observations)
            <4>1. i = Node
                BY <1>1, <1>2, <2>1, <3>2 DEF Node
            <4> QED BY <1>2, <2>1, <4>1 DEF Node
        <3> QED BY <3>1, <3>2
    <2> QED BY <1>3, <2>1 DEF AnswersHeld
<1>5. BalanceReadsTypeOK'
    BY <1>1, <1>2 DEF BalanceInv, BalanceReadsTypeOK
<1>6. balanceReply = Waiting
    BY DEF Asking
<1>7. VerifiedBalanceWasHeld' /\ balanceReply' # Unasked
    BY <1>6 DEF VerifiedBalanceWasHeld, Waiting, Unasked, Reply
<1> QED BY <1>4, <1>5, <1>7 DEF BalanceInv

LEMMA MoveKeepsBalance ==
    ASSUME BalanceInv, NEW a \in Amounts, Move(a) PROVE BalanceInv'
<1>1. Honest \subseteq Honest'
    BY HonestGrows DEF BalanceInv
<1>2. UNCHANGED <<secondary, liar, adapterLive, observations, since, balanceReply>>
    BY DEF Move
<1>3. BalanceReadsTypeOK'
    <2>1. held' \in Seq(Amounts) /\ Len(held') = Len(held) + 1 /\ Len(held) <= MaxMoves
        BY DEF Move, BalanceInv, BalanceReadsTypeOK
    <2>2. Len(held') \in 1 .. MaxMoves + 1 /\ since \in 1 .. Len(held')
        BY <2>1, AmountsAssumption DEF BalanceInv, BalanceReadsTypeOK
    <2> QED BY <1>2, <2>1, <2>2 DEF BalanceInv, BalanceReadsTypeOK
<1>4. /\ IsFiniteSet(Honest')
      /\ Cardinality(Honest) > 1 => Cardinality(Honest') > 1
    <2>1. IsFiniteSet(Honest')
        <3> DEFINE low == IF since' = 1 THEN 1 ELSE since' - 1
        <3>1. low \in Int /\ Len(held') \in Int
            BY <1>3 DEF BalanceReadsTypeOK
        <3>2. IsFiniteSet(low .. Len(held'))
            BY <3>1, FS_Interval
        <3>3. Honest' = {held'[i] : i \in low .. Len(held')}
            BY Zenon DEF Honest
        <3> HIDE DEF low
        <3> QED BY <3>2, <3>3, ImageFinite, Zenon
    <2>2. Honest \in SUBSET Honest'
        BY <1>1
    <2>3. Cardinality(Honest) <= Cardinality(Honest') /\ IsFiniteSet(Honest)
        BY <2>1, <2>2, FS_Subset
    <2>4. Cardinality(Honest) \in Nat /\ Cardinality(Honest') \in Nat
        BY <2>1, <2>3, FS_CardinalityType
    <2> QED BY <2>1, <2>3, <2>4
<1>5. AnswersHeld'
    BY <1>1, <1>2, Zenon DEF BalanceInv, AnswersHeld
<1>6. VerifiedBalanceWasHeld'
    <2>1. balanceReply'.verification = "verified" /\ balanceReply'.balance \notin Honest' =>
           /\ liar' \in 1 .. Len(observations') /\ observations'[liar'].ok
           /\ \A i \in DOMAIN observations' : i # liar' => ~observations'[i].ok
        BY <1>1, <1>2, Zenon DEF BalanceInv, VerifiedBalanceWasHeld
    <2>2. balanceReply'.verification = "requires_reconciliation" =>
           liar' # 0 \/ Cardinality(Honest') > 1
        BY <1>2, <1>4, Zenon DEF BalanceInv, VerifiedBalanceWasHeld
    <2> QED BY <2>1, <2>2, Zenon DEF VerifiedBalanceWasHeld
<1> QED BY <1>2, <1>3, <1>5, <1>6, Zenon DEF BalanceInv

LEMMA ReconcileKeepsBalance ==
    ASSUME BalanceInv, Reconcile PROVE BalanceInv'
<1>1. UNCHANGED <<held, secondary, liar, adapterLive, observations, since>>
    BY DEF Reconcile
<1>2. Honest' = Honest /\ DOMAIN observations = 1 .. Len(observations)
    BY <1>1 DEF Honest, BalanceInv, BalanceReadsTypeOK
<1>3. balanceReply' \in
        [verification : {"verified", "unavailable", "requires_reconciliation"},
         balance : Amounts \union {NoBalance}]
    BY ReconciledIsHeld, Zenon
<1>4. BalanceReadsTypeOK' /\ balanceReply' # Unasked
    BY <1>1, <1>3 DEF BalanceInv, BalanceReadsTypeOK, Unasked, Reply
<1>5. AnswersHeld'
    BY <1>1, <1>2, Zenon DEF BalanceInv, AnswersHeld
<1>6. VerifiedBalanceWasHeld'
    BY <1>1, <1>2, ReconciledIsHeld, Zenon DEF VerifiedBalanceWasHeld
<1> QED BY <1>4, <1>5, <1>6, Zenon DEF BalanceInv

LEMMA BalanceStep == BalanceInv /\ [BalanceReadsNext]_balanceReadVars => BalanceInv'
<1> SUFFICES ASSUME BalanceInv, [BalanceReadsNext]_balanceReadVars PROVE BalanceInv'
    OBVIOUS
<1>1. ASSUME NEW a \in Amounts, Observe(a) PROVE BalanceInv'
    <2>1. /\ Answer(a) \in Observation /\ Answer(a).balance = a
        BY DEF Answer, Observation
    <2> QED BY <1>1, <2>1, ObservationAdded DEF Observe
<1>2. CASE ObserveNothing
    <2>1. NoAnswer \in Observation /\ ~NoAnswer.ok
        BY DEF NoAnswer, Observation
    <2> QED BY <1>2, <2>1, ObservationAdded DEF ObserveNothing
<1>3. CASE AskBalance
    <2>1. /\ observations = <<>> /\ since' = Len(held) /\ balanceReply' = Waiting
          /\ UNCHANGED <<held, secondary, liar, adapterLive, observations>>
        BY <1>3 DEF AskBalance, BalanceInv
    <2>2. DOMAIN observations = {}
        BY <2>1
    <2>3. /\ balanceReply'.verification = "waiting" /\ balanceReply' # Unasked
          /\ balanceReply' \in [verification : {"waiting"}, balance : Amounts \union {NoBalance}]
        BY <2>1 DEF Waiting, Unasked, Reply
    <2>4. BalanceReadsTypeOK'
        BY <2>1, <2>3 DEF BalanceInv, BalanceReadsTypeOK
    <2> QED BY <2>1, <2>2, <2>3, <2>4 DEF BalanceInv, AnswersHeld, VerifiedBalanceWasHeld
<1>4. ASSUME NEW why \in Refusals, Refuse(why) PROVE BalanceInv'
    <2>1. /\ observations = <<>> /\ balanceReply' = Reply(why)
          /\ UNCHANGED <<held, secondary, liar, adapterLive, observations, since>>
        BY <1>4 DEF Refuse
    <2>2. /\ balanceReply'.verification \notin {"unasked", "verified", "requires_reconciliation"}
          /\ balanceReply' # Unasked
          /\ balanceReply' \in [verification : Refusals, balance : Amounts \union {NoBalance}]
        BY <2>1 DEF Refusals, Unasked, Reply
    <2>3. BalanceReadsTypeOK'
        BY <2>1, <2>2 DEF BalanceInv, BalanceReadsTypeOK
    <2> QED BY <2>1, <2>2, <2>3 DEF BalanceInv, AnswersHeld, VerifiedBalanceWasHeld
<1>5. CASE UNCHANGED balanceReadVars
    <2>1. UNCHANGED <<held, secondary, liar, adapterLive, observations, since, balanceReply>>
        BY <1>5, Zenon DEF balanceReadVars
    <2>2. Honest' = Honest
        BY <2>1 DEF Honest
    <2>3. BalanceReadsTypeOK'
        BY <2>1 DEF BalanceInv, BalanceReadsTypeOK
    <2> QED BY <2>1, <2>2, <2>3, Zenon DEF BalanceInv, AnswersHeld, VerifiedBalanceWasHeld
<1> QED BY <1>1, <1>2, <1>3, <1>4, <1>5, MoveKeepsBalance, ReconcileKeepsBalance
        DEF BalanceReadsNext

\* GET /v1/wallet/balance and reconcileBalanceReads: a verified balance is one
\* the account held while it was asked for, even when one of two nodes lies,
\* however often the account moves meanwhile.
THEOREM VerifiedWasHeld == BalanceReadsSpec => []VerifiedBalanceWasHeld
<1>1. BalanceInv => VerifiedBalanceWasHeld
    BY DEF BalanceInv
<1> QED BY <1>1, BalanceInit, BalanceStep, PTL DEF BalanceReadsSpec

LEMMA BalanceReadsTyped == BalanceReadsSpec => []BalanceReadsTypeOK
<1>1. BalanceInv => BalanceReadsTypeOK
    BY DEF BalanceInv
<1> QED BY <1>1, BalanceInit, BalanceStep, PTL DEF BalanceReadsSpec

-----------------------------------------------------------------------------
(* The records of the projects (ProjectRecords): rows that are stored and  *)
(* told of, and lists and meters of them.                                  *)

\* A row is stored once its request has written it, the usage event with its
\* verdict, and a caller is told of it after that.
AskInv(c) ==
    /\ project[c] \in opened
    /\ stage[c] = "new" \/ kind[c] = "none" => kind[c] = "none" /\ storedAt[c] = 0
    /\ stage[c] \in {"checking", "request", "rows", "event", "commit"} =>
         kind[c] = "verdict" /\ storedAt[c] = 0
    /\ stage[c] \in {"request", "rows", "event", "commit"} => checkedAt[c] > 0
    /\ stage[c] \in {"new", "checking"} => checkedAt[c] = 0
    /\ stage[c] = "insert" => kind[c] \in {"key", "hook"} /\ storedAt[c] = 0
    /\ stage[c] = "after" \/ c \in told => storedAt[c] > 0
    /\ checkedAt[c] <= now /\ storedAt[c] <= now
    /\ kind[c] = "verdict" /\ storedAt[c] > 0 => checkedAt[c] > 0
    /\ c \in counted <=> kind[c] = "verdict" /\ storedAt[c] > 0

\* No two verdicts are finished, and no two rows stored, at the same time.
Dated(date) == \A v, w \in Asks : date[v] = date[w] /\ date[v] > 0 => v = w

ProjectInv ==
    /\ ProjectTypeOK
    /\ \A c \in Asks : AskInv(c)
    /\ Dated(checkedAt) /\ Dated(storedAt)

LEMMA ProjectInitInv == ProjectInit => ProjectInv
<1> SUFFICES ASSUME ProjectInit PROVE ProjectInv
    OBVIOUS
<1> USE HomeAssumption, LimitAssumption DEF ProjectInit
<1>1. ProjectTypeOK
    BY DEF ProjectTypeOK, Kinds, Stages
<1>2. \A c \in Asks : AskInv(c)
    BY DEF AskInv
<1> QED BY <1>1, <1>2 DEF ProjectInv, Dated

LEMMA ProjectStep == ProjectInv /\ [ProjectNext]_projectVars => ProjectInv'
<1> SUFFICES ASSUME ProjectInv, [ProjectNext]_projectVars PROVE ProjectInv'
    OBVIOUS
<1> USE HomeAssumption, LimitAssumption
        DEF ProjectInv, AskInv, Dated, ProjectTypeOK, Go, Writing, Stages, Kinds
<1>1. ASSUME NEW c \in Asks, NEW p \in Projects, OpenProject(c, p) PROVE ProjectInv'
    BY <1>1 DEF OpenProject
<1>2. ASSUME NEW c \in Asks, NEW k \in Kinds, NEW caller \in Projects, NEW p \in Projects,
             Ask(c, k, caller, p)
      PROVE  ProjectInv'
    <2>1. ProjectTypeOK'
        BY <1>2 DEF Ask
    <2>2. \A d \in Asks : AskInv(d)'
        BY <1>2 DEF Ask
    <2> QED BY <1>2, <2>1, <2>2 DEF Ask
<1>3. ASSUME NEW c \in Asks, Check(c) PROVE ProjectInv'
    <2>1. ProjectTypeOK'
        BY <1>3 DEF Check
    <2>2. \A d \in Asks : AskInv(d)'
        BY <1>3 DEF Check
    <2>3. Dated(checkedAt)'
        BY <1>3 DEF Check
    <2> QED BY <1>3, <2>1, <2>2, <2>3 DEF Check
<1>4. ASSUME NEW c \in Asks, SaveStatement(c) PROVE ProjectInv'
    BY <1>4 DEF SaveStatement
<1>5. ASSUME NEW c \in Asks, SaveVerdict(c) PROVE ProjectInv'
    <2>1. ProjectTypeOK'
        BY <1>5 DEF SaveVerdict, Keep
    <2>2. \A d \in Asks : AskInv(d)'
        BY <1>5 DEF SaveVerdict, Keep
    <2>3. Dated(storedAt)'
        BY <1>5 DEF SaveVerdict, Keep
    <2> QED BY <1>5, <2>1, <2>2, <2>3 DEF SaveVerdict
<1>6. ASSUME NEW c \in Asks, InsertRow(c) PROVE ProjectInv'
    <2>1. ProjectTypeOK'
        BY <1>6 DEF InsertRow, Keep
    <2>2. \A d \in Asks : AskInv(d)'
        BY <1>6 DEF InsertRow, Keep
    <2>3. Dated(storedAt)'
        BY <1>6 DEF InsertRow, Keep
    <2> QED BY <1>6, <2>1, <2>2, <2>3 DEF InsertRow
<1>7. ASSUME NEW c \in Asks, Tell(c) PROVE ProjectInv'
    BY <1>7 DEF Tell
<1>8. ASSUME NEW c \in Asks, StatementLost(c) PROVE ProjectInv'
    BY <1>8 DEF StatementLost
<1>9. ASSUME NEW c \in Asks, Consult(c) PROVE ProjectInv'
    <2>1. ASSUME NEW p \in opened, NEW what \in Reads, NEW matching \in SUBSET Asks,
                 NEW rows \in SUBSET Asks, Show(c, p, what, matching, rows)
          PROVE  ProjectInv'
        <3>1. [what |-> what, matching |-> matching, rows |-> rows] \in Answers
            BY DEF Answers
        <3>2. shown' \in [Asks -> Answers \union {NoReply}]
            BY <2>1, <3>1 DEF Show
        <3> QED BY <2>1, <3>2 DEF Show
    <2>2. Credentials \subseteq opened /\ Home \in opened
        BY DEF Credentials
    <2>3. \A k, p : Stored(k, p) \subseteq Asks /\ Counted(p) \subseteq Asks
        BY DEF Stored, Counted
    <2>4. ASSUME NEW p \in Credentials, NEW matching \in {Asks} \union {{v} : v \in Asks},
                 ListVerdicts(c, p, matching)
          PROVE  ProjectInv'
        <3>1. FirstOfList(Stored("verdict", p) \intersect matching) \subseteq Asks
            BY <2>3 DEF FirstOfList
        <3>2. matching \subseteq Asks /\ "verdict" \in Reads
            BY DEF Reads
        <3> QED BY <2>1, <2>2, <2>4, <3>1, <3>2 DEF ListVerdicts
    <2>5. ASSUME NEW p \in Credentials, NEW k \in Kinds, ListRows(c, p, k) PROVE ProjectInv'
        BY <2>1, <2>2, <2>3, <2>5 DEF ListRows, Reads
    <2>6. ASSUME NEW p \in Credentials, GetUsage(c, p) PROVE ProjectInv'
        BY <2>1, <2>2, <2>3, <2>6 DEF GetUsage, Reads
    <2>7. ASSUME NEW p \in Credentials, NEW q \in Projects, GetBilling(c, p, q) PROVE ProjectInv'
        BY <2>1, <2>2, <2>3, <2>7 DEF GetBilling, Reads
    <2>8. ASSUME NEW v \in Asks, GetVerdict(c, v) PROVE ProjectInv'
        <3>1. /\ {w \in {v} : kind[w] = "verdict" /\ storedAt[w] > 0} \in SUBSET Asks
              /\ {v} \in SUBSET Asks /\ "one" \in Reads
            BY DEF Reads
        <3> QED BY <2>1, <2>2, <2>8, <3>1, Zenon DEF GetVerdict
    <2> QED BY <1>9, <2>4, <2>5, <2>6, <2>7, <2>8 DEF Consult
<1>10. CASE UNCHANGED projectVars
    BY <1>10 DEF projectVars
<1> QED BY <1>1, <1>2, <1>3, <1>4, <1>5, <1>6, <1>7, <1>8, <1>9, <1>10 DEF ProjectNext

-----------------------------------------------------------------------------
\* The date a list is ordered by.
Order == IF backend = "postgres" THEN checkedAt ELSE storedAt

\* Who is left out of a list finds it full, of entries that come before.
LEMMA LeftOutOfFullList ==
    ASSUME ProjectInv, NEW S \in SUBSET Asks, NEW v \in S, v \notin FirstOfList(S),
           \A w \in S : kind[w] = "verdict" /\ storedAt[w] > 0
    PROVE  /\ Cardinality(FirstOfList(S)) >= ListLimit
           /\ \A w \in FirstOfList(S) : Order[w] > Order[v]
<1> DEFINE Before(w) == {x \in S : ListedBefore(x, w)}
           Left == {w \in S : w \notin FirstOfList(S)}
<1>1. /\ \A x \in S : Order[x] \in 1 .. now
      /\ \A x, y \in S : Order[x] = Order[y] => x = y
      /\ \A x, y \in S : ListedBefore(x, y) <=> Order[x] > Order[y]
      /\ now \in Nat
    BY DEF ProjectInv, ProjectTypeOK, AskInv, Dated, Order, ListedBefore
<1>2. ASSUME NEW w \in S
      PROVE  /\ IsFiniteSet(Before(w)) /\ Cardinality(Before(w)) \in Nat
             /\ w \in FirstOfList(S) <=> Cardinality(Before(w)) < ListLimit
    BY AskAssumption, FS_Subset, FS_CardinalityType DEF FirstOfList
<1>3. IsFiniteSet(FirstOfList(S)) /\ Cardinality(FirstOfList(S)) \in Nat
    BY AskAssumption, FS_Subset, FS_CardinalityType DEF FirstOfList
<1>4. PICK u \in Left : \A w \in Left : Order[w] <= Order[u]
    <2> DEFINE Ages == {now - Order[w] : w \in Left}
    <2>1. Ages \in SUBSET Nat /\ Ages # {}
        BY <1>1
    <2>2. PICK n \in Ages : \A m \in Ages : n <= m
        BY <2>1, Least
    <2>3. PICK u \in Left : n = now - Order[u]
        BY <2>2
    <2>4. ASSUME NEW w \in Left PROVE Order[w] <= Order[u]
        <3>1. n <= now - Order[w]
            BY <2>2
        <3> QED BY <1>1, <2>3, <3>1
    <2> QED BY <2>4
<1>5. Before(u) \subseteq FirstOfList(S)
    BY <1>1, <1>4
<1>6. Cardinality(Before(u)) >= ListLimit
    BY <1>2, <1>4, LimitAssumption
<1>7. Cardinality(FirstOfList(S)) >= ListLimit
    <2>1. Cardinality(Before(u)) <= Cardinality(FirstOfList(S))
        BY <1>3, <1>5, FS_Subset
    <2>2. u \in S
        OBVIOUS
    <2>3. Cardinality(Before(u)) \in Nat
        BY <1>2, <2>2
    <2> QED BY <1>3, <1>6, <2>1, <2>3, LimitAssumption
<1>8. ASSUME NEW w \in FirstOfList(S) PROVE Order[w] > Order[v]
    <2>1. w \in S /\ w # v
        BY <1>8 DEF FirstOfList
    <2> SUFFICES ASSUME Order[v] > Order[w] PROVE FALSE
        BY <1>1, <2>1
    <2>2. Before(v) \subseteq Before(w)
        BY <1>1, <2>1
    <2>3. Cardinality(Before(v)) <= Cardinality(Before(w))
        BY <1>2, <2>1, <2>2, FS_Subset
    <2> QED BY <1>2, <2>1, <2>3, LimitAssumption
<1> QED BY <1>7, <1>8

LEMMA ListsComplete ==
    ASSUME ProjectInv, NEW c \in Asks, NEW p \in Credentials,
           NEW matching \in SUBSET Asks, ListVerdicts(c, p, matching)
    PROVE  ListIsComplete(c)
<1> DEFINE S == Stored("verdict", p) \intersect matching
<1>1. /\ S \in SUBSET Asks /\ \A w \in S : kind[w] = "verdict" /\ storedAt[w] > 0
    BY DEF Stored
<1>2. /\ shown'[c].what = "verdict" /\ shown'[c].matching = matching
      /\ shown'[c].rows = FirstOfList(S) /\ project'[c] = p
    BY DEF ListVerdicts, Show, ProjectInv, ProjectTypeOK
<1> SUFFICES ASSUME NEW v \in told, kind[v] = "verdict", project[v] = p, v \in matching,
                    v \notin FirstOfList(S)
             PROVE  /\ Cardinality(FirstOfList(S)) >= ListLimit
                    /\ \A w \in FirstOfList(S) :
                         \/ checkedAt[w] > checkedAt[v]
                         \/ backend = "memory" /\ Overtaken(v, w)
    BY <1>2 DEF ListIsComplete
<1>3. v \in S
    BY DEF Stored, ProjectInv, ProjectTypeOK, AskInv
<1>4. /\ Cardinality(FirstOfList(S)) >= ListLimit
      /\ \A w \in FirstOfList(S) : Order[w] > Order[v]
    BY <1>1, <1>3, LeftOutOfFullList
<1>5. ASSUME NEW w \in FirstOfList(S)
      PROVE  checkedAt[w] > checkedAt[v] \/ (backend = "memory" /\ Overtaken(v, w))
    <2>1. w \in S /\ Order[w] > Order[v]
        BY <1>4 DEF FirstOfList
    <2>2. /\ checkedAt[w] \in Nat \ {0} /\ checkedAt[v] \in Nat \ {0}
          /\ w # v => checkedAt[w] # checkedAt[v]
        BY <1>1, <1>3, <2>1 DEF ProjectInv, ProjectTypeOK, AskInv, Dated
    <2>3. CASE backend = "postgres"
        BY <2>1, <2>3 DEF Order
    <2>4. CASE backend # "postgres"
        <3>1. backend = "memory" /\ storedAt[w] > storedAt[v]
            BY <2>1, <2>4 DEF Order, ProjectInv, ProjectTypeOK
        <3>2. w # v
            BY <1>3, <2>1, <3>1 DEF ProjectInv, ProjectTypeOK
        <3> QED BY <2>2, <3>1, <3>2 DEF Overtaken
    <2> QED BY <2>3, <2>4
<1> QED BY <1>4, <1>5

\* GET of verdicts, keys, webhooks, usage and billing, on PostgresStore and on
\* MemoryStore: whatever is shown agrees with what was answered before.
THEOREM AnswersHold == ProjectSpec => AnswersAgree
<1>1. ASSUME ProjectInv, [ProjectNext]_projectVars, NEW c \in Asks, shown'[c] # shown[c]
      PROVE  ListIsComplete(c) /\ MeterIsExact(c) /\ AnsweredIsFound(c)
    <2>1. PICK d \in Asks : Consult(d)
        BY <1>1 DEF ProjectNext, projectVars, OpenProject, Ask, Check, SaveStatement,
                    SaveVerdict, InsertRow, Tell, StatementLost
    <2>2. ASSUME NEW p, NEW what, NEW matching, NEW rows, Show(d, p, what, matching, rows)
          PROVE  /\ c = d /\ project'[c] = p
                 /\ shown'[c].what = what /\ shown'[c].matching = matching
                 /\ shown'[c].rows = rows
        BY <1>1, <2>2 DEF Show, ProjectInv, ProjectTypeOK
    <2>3. /\ Credentials \subseteq opened /\ Home \in opened /\ opened \subseteq Projects
          /\ told \subseteq Asks /\ backend \in {"postgres", "memory"}
        BY <1>1 DEF Credentials, ProjectInv, ProjectTypeOK
    <2>4. ASSUME NEW p \in Credentials, NEW matching \in {Asks} \union {{v} : v \in Asks},
                 ListVerdicts(d, p, matching)
          PROVE  ListIsComplete(c) /\ MeterIsExact(c) /\ AnsweredIsFound(c)
        <3>1. c = d /\ shown'[c].what = "verdict"
            BY <2>2, <2>4 DEF ListVerdicts
        <3>2. matching \in SUBSET Asks
            OBVIOUS
        <3>3. ListIsComplete(c)
            BY <1>1, <2>4, <3>1, <3>2, ListsComplete
        <3> QED BY <3>1, <3>3 DEF MeterIsExact, AnsweredIsFound
    <2>5. ASSUME NEW p \in Credentials, NEW k \in Kinds, ListRows(d, p, k)
          PROVE  ListIsComplete(c) /\ MeterIsExact(c) /\ AnsweredIsFound(c)
        <3>1. /\ k \in {"key", "hook"} /\ shown'[c].what = k /\ project'[c] = p
              /\ shown'[c].rows = Stored(k, p)
            BY <2>2, <2>5 DEF ListRows
        <3>2. \A v \in told : kind[v] = k /\ project[v] = p => v \in Stored(k, p)
            BY <1>1, <2>3 DEF Stored, ProjectInv, AskInv
        <3> QED BY <3>1, <3>2 DEF ListIsComplete, MeterIsExact, AnsweredIsFound
    <2>6. \A q : Counted(q) =
            IF backend = "memory" THEN UNION {Stored("verdict", p) : p \in opened}
                                  ELSE Stored("verdict", q)
        <3>1. counted = {v \in Asks : kind[v] = "verdict" /\ storedAt[v] > 0}
            BY <1>1 DEF ProjectInv, ProjectTypeOK, AskInv
        <3>2. \A v \in Asks : project[v] \in opened
            BY <1>1 DEF ProjectInv, AskInv
        <3> QED BY <3>1, <3>2 DEF Counted, Stored
    <2>7. ASSUME NEW p \in Credentials, GetUsage(d, p)
          PROVE  ListIsComplete(c) /\ MeterIsExact(c) /\ AnsweredIsFound(c)
        <3>1. /\ shown'[c].what = "usage" /\ project'[c] = p
              /\ shown'[c].rows = Counted(p)
            BY <2>2, <2>7 DEF GetUsage
        <3> QED BY <2>6, <3>1 DEF ListIsComplete, MeterIsExact, AnsweredIsFound, Kinds
    <2>8. ASSUME NEW p \in Credentials, NEW q \in Projects, GetBilling(d, p, q)
          PROVE  ListIsComplete(c) /\ MeterIsExact(c) /\ AnsweredIsFound(c)
        <3>1. /\ shown'[c].what = "billing" /\ project'[c] = p /\ q \in opened
              /\ shown'[c].rows = Counted(q)
            BY <2>2, <2>8 DEF GetBilling
        <3>2. p = q \/ opened # {Home}
            BY <2>3, <3>1
        <3> QED BY <2>6, <3>1, <3>2 DEF ListIsComplete, MeterIsExact, AnsweredIsFound, Kinds
    <2>9. ASSUME NEW v \in Asks, GetVerdict(d, v)
          PROVE  ListIsComplete(c) /\ MeterIsExact(c) /\ AnsweredIsFound(c)
        <3>1. /\ shown'[c].what = "one" /\ shown'[c].matching = {v}
              /\ shown'[c].rows = {w \in {v} : kind[w] = "verdict" /\ storedAt[w] > 0}
            BY <2>2, <2>9 DEF GetVerdict
        <3>2. v \in told => storedAt[v] > 0
            BY <1>1 DEF ProjectInv, AskInv
        <3> QED BY <3>1, <3>2 DEF ListIsComplete, MeterIsExact, AnsweredIsFound, Kinds
    <2> QED BY <2>1, <2>4, <2>5, <2>7, <2>8, <2>9 DEF Consult
<1>2. ProjectInv /\ [ProjectNext]_projectVars =>
        [\A c \in Asks :
           shown'[c] # shown[c] =>
             ListIsComplete(c) /\ MeterIsExact(c) /\ AnsweredIsFound(c)]_projectVars
    BY <1>1
<1> QED BY <1>2, ProjectInitInv, ProjectStep, PTL DEF ProjectSpec, AnswersAgree

LEMMA ProjectsTyped == ProjectSpec => []ProjectTypeOK
<1>1. ProjectInv => ProjectTypeOK
    BY DEF ProjectInv
<1> QED BY <1>1, ProjectInitInv, ProjectStep, PTL DEF ProjectSpec

=============================================================================
