---------------------------- MODULE ClientProofs ----------------------------
(***************************************************************************)
(* Safety of the web application (Clients): the release rules of           *)
(* wallet-core (PaymentRules), then the parts that share no state, each    *)
(* with its own inductive invariant: the send panel, the holdings and      *)
(* payment checks, the account the wallet acts for, the session of the     *)
(* console, its reads, its lists, the three public pages, single sign-on   *)
(* and the linked wallet of open-trust.  The types of all, and what parts  *)
(* show together, come last.                                               *)
(***************************************************************************)
EXTENDS Clients, WorkspaceProofs

-----------------------------------------------------------------------------
(* evaluatePayment, for all facts a caller may pass *)

\* A difference was found and is the expected one exactly when the balance
\* after is the balance before and the expected amount: subBaseUnits gives no
\* difference below zero.
LEMMA BalanceMovedByDelta ==
    ASSUME NEW f \in Facts
    PROVE  BalanceMoved(f) <=>
             f.balanceAfter \in Nat /\ f.balanceAfter = f.balanceBefore + f.expectedDelta
<1>1. CASE f.balanceAfter = Unread
    BY <1>1, UnreadAssumption DEF BalanceMoved
<1>2. CASE f.balanceAfter \in Nat
    <2>1. f.balanceBefore \in Nat /\ f.expectedDelta \in Nat
        BY DEF Facts
    <2>2. CASE f.balanceAfter < f.balanceBefore
        BY <1>2, <2>1, <2>2, UnreadAssumption DEF BalanceMoved, SubBaseUnits
    <2>3. CASE ~(f.balanceAfter < f.balanceBefore)
        BY <1>2, <2>1, <2>3, UnreadAssumption DEF BalanceMoved, SubBaseUnits
    <2> QED BY <2>2, <2>3
<1> QED BY <1>1, <1>2 DEF Facts

\* No step that depends on the transaction has failed, and none waits.
LEMMA DependingSteps ==
    ASSUME NEW f \in Facts
    PROVE  /\ (\E name \in Depending : DependingState(f, name) = "failed") <=>
                ~(/\ f.receiptOk /\ f.recipientMatches
                  /\ f.tokenContractMatches /\ f.amountMatches)
           /\ DependingState(f, "confirmations") = "pending" <=>
                ~(f.confirmations >= f.requiredConfirmations)
    BY DEF Depending, DependingState, Checked, Facts

\* The decision of evaluatePayment is "verified" exactly when the transaction
\* succeeded, names the recipient, the token and the amount, is deep enough
\* and moved the balance by it: no other order of its tests would do more.
THEOREM VerifiedIsEarned == \A f \in Facts : Decision(f) = "verified" <=> Earned(f)
<1> SUFFICES ASSUME NEW f \in Facts PROVE Decision(f) = "verified" <=> Earned(f)
    OBVIOUS
<1>1. f.balanceAfter \in Nat <=> f.balanceAfter # Unread
    BY UnreadAssumption DEF Facts
<1> QED BY <1>1, BalanceMovedByDelta, DependingSteps DEF Decision, HardFail, Earned

\* A payment that is held back has a step that says why: one that failed, one
\* that was skipped for want of a transaction, or the wait for confirmations.
THEOREM HeldBackIsExplained ==
    \A f \in Facts :
        Decision(f) # "verified" =>
            \E name \in {"transaction_lookup", "balance"} \union Depending :
                StepState(f, name) # "success"
<1> SUFFICES ASSUME NEW f \in Facts, Decision(f) # "verified"
             PROVE  \E name \in {"transaction_lookup", "balance"} \union Depending :
                        StepState(f, name) # "success"
    OBVIOUS
<1>1. ~Earned(f)
    BY VerifiedIsEarned
<1>2. CASE ~f.transactionExists
    BY <1>2 DEF StepState, Checked
<1>3. CASE f.transactionExists /\ ~BalanceMoved(f)
    BY <1>3 DEF StepState, Checked, Depending
<1>4. CASE /\ f.transactionExists /\ BalanceMoved(f)
           /\ ~(/\ f.receiptOk /\ f.recipientMatches /\ f.tokenContractMatches
                /\ f.amountMatches /\ f.confirmations >= f.requiredConfirmations)
    BY <1>4 DEF StepState, DependingState, Checked, Depending
<1> QED BY <1>1, <1>2, <1>3, <1>4, BalanceMovedByDelta DEF Earned

-----------------------------------------------------------------------------
(* The send panel: one review sends one transaction *)

SentFrom(n) == {s \in Sends : send[s].panel = n}

ClickTyped ==
    /\ panel \in Nat \ {0} /\ walletKind \in WalletKinds /\ phase \in Phases
    /\ send \in [Sends -> [stage : SendStages, panel : Nat]]
    /\ chain \in [Sends -> {"none", "broadcast"} \union Ends]

Succeeded == {"success", "replaced"}

\* What holds of every click, of panels that are gone too.
ClickInv ==
    /\ \A s \in Sends :
        /\ send[s].panel <= panel
        /\ send[s].stage = "unused" => send[s].panel = 0
        /\ send[s].stage \in {"unused", "switching", "sending"} => chain[s] = "none"
        /\ send[s].stage = "switching" => walletKind = "remote"
    /\ phase = "review" => walletKind # "watch"
    /\ twice => walletKind = "remote"

\* A panel whose button was pressed once shows that one click.
SingleClickInv ==
    \/ twice
    \/ /\ \A s, t \in SentFrom(panel) : s = t
       /\ phase \in {"form", "review"} =>
            \A s \in SentFrom(panel) : send[s].stage = "switching"
       /\ \A s \in SentFrom(panel) : send[s].stage = "waiting" => hash = s
       /\ phase = "included" =>
            /\ hash \in SentFrom(panel) /\ send[hash].stage = "over"
            /\ chain[hash] \in Succeeded

SendInv == ClickTyped /\ ClickInv /\ SingleClickInv

LEMMA SendInitInv == SendInit => SendInv
<1> SUFFICES ASSUME SendInit PROVE SendInv
    OBVIOUS
<1> USE DEF SendInit
<1>1. ClickTyped
    BY DEF ClickTyped, Phases, SendStages
<1>2. ClickInv
    BY DEF ClickInv
<1>3. SentFrom(panel) = {}
    BY DEF SentFrom
<1>4. SingleClickInv
    BY <1>3 DEF SingleClickInv
<1> QED BY <1>1, <1>2, <1>4 DEF SendInv

\* The first click of a panel finds none under way; a second one is noted.
LEMMA ClickKeepsInv ==
    ASSUME SendInv, NEW c \in Sends, Click(c) PROVE SendInv'
<1> DEFINE new == [stage |-> IF walletKind = "local" THEN "sending" ELSE "switching",
                   panel |-> panel]
<1>1. /\ phase = "review" /\ send[c].stage = "unused" /\ send' = [send EXCEPT ![c] = new]
      /\ phase' = IF walletKind = "local" THEN "signed" ELSE phase
      /\ twice' = (twice \/ UnderWay # {})
      /\ UNCHANGED <<walletKind, panel, chain, hash>>
    BY DEF Click
<1>2. ClickTyped'
    BY <1>1 DEF SendInv, ClickTyped, SendStages, Phases
<1>3. walletKind \in {"local", "remote"}
    BY <1>1 DEF SendInv, ClickTyped, ClickInv, WalletKinds
<1>4. \A s \in Sends : send'[s] = IF s = c THEN new ELSE send[s]
    BY <1>1 DEF SendInv, ClickTyped
<1>5. ~twice => \A s \in SentFrom(panel) : s \in UnderWay /\ walletKind = "remote"
    BY <1>1 DEF SendInv, SingleClickInv, ClickInv, SentFrom, UnderWay
<1>6. ClickInv'
    <2>1. \A s \in Sends :
            /\ send'[s].panel <= panel
            /\ send'[s].stage = "unused" => send'[s].panel = 0
            /\ send'[s].stage \in {"unused", "switching", "sending"} => chain[s] = "none"
            /\ send'[s].stage = "switching" => walletKind = "remote"
        BY <1>1, <1>3, <1>4 DEF SendInv, ClickTyped, ClickInv
    <2>2. UnderWay # {} /\ ~twice => walletKind = "remote"
        BY <1>5 DEF UnderWay, SentFrom, SendInv, SingleClickInv
    <2> QED BY <1>1, <2>1, <2>2 DEF ClickInv, SendInv
<1>7. SingleClickInv'
    <2>1. CASE twice'
        BY <2>1 DEF SingleClickInv
    <2>2. CASE ~twice'
        <3>1. SentFrom(panel) = {}
            BY <1>1, <1>5, <2>2
        <3>2. SentFrom(panel)' = {c}
            BY <1>1, <1>4, <3>1 DEF SentFrom
        <3> QED BY <1>1, <1>3, <1>4, <3>2 DEF SingleClickInv, SentFrom
    <2> QED BY <2>1, <2>2
<1> QED BY <1>2, <1>6, <1>7 DEF SendInv

\* A click goes on to its next stage; the panel hears of it while it is there.
LEMMA StageKeepsInv ==
    ASSUME SendInv, NEW c \in Sends, NEW next \in SendStages, NEW p \in Phases,
           Step(c, next), Report(c, p), UNCHANGED <<walletKind, panel, twice>>,
           send[c].stage # "unused", next \notin {"unused", "switching"},
           p \notin {"form", "review"},
           chain' = [chain EXCEPT ![c] = chain'[c]],
           chain'[c] \in {"none", "broadcast"} \union Ends,
           next = "sending" => chain'[c] = "none",
           hash' = IF next = "waiting" /\ send[c].panel = panel THEN c ELSE hash,
           p = "included" => send[c].stage = "waiting" /\ next = "over"
                             /\ chain'[c] \in Succeeded
    PROVE  SendInv'
<1>1. send' = [send EXCEPT ![c].stage = next]
    BY DEF Step
<1>2. /\ \A s \in Sends : s # c => send'[s] = send[s] /\ chain'[s] = chain[s]
      /\ send'[c].stage = next /\ send'[c].panel = send[c].panel
    BY <1>1 DEF SendInv, ClickTyped
<1>3. phase' = IF send[c].panel = panel THEN p ELSE phase
    BY DEF Report
<1>4. ClickTyped'
    BY <1>1, <1>3 DEF SendInv, ClickTyped
<1>5. ClickInv'
    BY <1>2, <1>3 DEF SendInv, ClickInv
<1>6. SentFrom(panel)' = SentFrom(panel)
    BY <1>2 DEF SentFrom
<1>7. SingleClickInv'
    <2>1. CASE twice
        BY <2>1 DEF SingleClickInv
    <2>2. CASE ~twice /\ c \notin SentFrom(panel)
        BY <1>2, <1>3, <1>6, <2>2 DEF SendInv, SingleClickInv, SentFrom
    <2>3. CASE ~twice /\ c \in SentFrom(panel)
        <3>1. \A s \in SentFrom(panel) : s = c
            BY <2>3 DEF SendInv, SingleClickInv
        <3>2. phase' = p /\ send[c].panel = panel
            BY <1>3, <2>3 DEF SentFrom
        <3>3. p = "included" => hash = c /\ hash' = c
            BY <2>3 DEF SendInv, SingleClickInv
        <3> QED BY <1>2, <1>6, <2>3, <3>1, <3>2, <3>3 DEF SingleClickInv
    <2> QED BY <2>1, <2>2, <2>3
<1> QED BY <1>4, <1>5, <1>7 DEF SendInv

LEMMA SendInvInductive == SendInv /\ [SendNext]_sendVars => SendInv'
<1> SUFFICES ASSUME SendInv, [SendNext]_sendVars PROVE SendInv'
    OBVIOUS
<1> USE DEF Untouched
<1>1. CASE Review \/ Tick
    BY <1>1 DEF Review, Tick, SendInv, ClickTyped, ClickInv, SingleClickInv, SentFrom, Phases
<1>2. CASE LeavePanel
    <2>1. panel \in Nat /\ panel' = panel + 1 /\ UNCHANGED <<walletKind, send, chain>>
          /\ phase' = "form" /\ ~twice'
        BY <1>2 DEF LeavePanel, SendInv, ClickTyped
    <2>2. \A s \in Sends : send[s].panel \in Nat /\ send[s].panel <= panel
        BY DEF SendInv, ClickTyped, ClickInv
    <2>3. SentFrom(panel)' = {}
        BY <2>1, <2>2 DEF SentFrom
    <2>4. ClickTyped' /\ ClickInv'
        BY <2>1, <2>2 DEF SendInv, ClickTyped, ClickInv, Phases
    <2> QED BY <2>1, <2>3, <2>4 DEF SendInv, SingleClickInv
<1>3. ASSUME NEW s \in Sends, Click(s) PROVE SendInv'
    BY <1>3, ClickKeepsInv
<1>4. ASSUME NEW s \in Sends, NetworkSwitched(s) PROVE SendInv'
    <2>1. chain' = [chain EXCEPT ![s] = chain'[s]] /\ chain'[s] = "none"
        BY <1>4 DEF NetworkSwitched, SendInv, ClickTyped, ClickInv
    <2> QED BY <1>4, <2>1, StageKeepsInv DEF NetworkSwitched, SendStages, Phases
<1>5. ASSUME NEW s \in Sends, Broadcast(s) PROVE SendInv'
    <2>1. chain' = [chain EXCEPT ![s] = chain'[s]] /\ chain'[s] = "broadcast"
        BY <1>5 DEF Broadcast, SendInv, ClickTyped
    <2> QED BY <1>5, <2>1, StageKeepsInv DEF Broadcast, SendStages, Phases
<1>6. ASSUME NEW s \in Sends, Receipt(s) PROVE SendInv'
    <2>1. chain' = [chain EXCEPT ![s] = chain'[s]]
          /\ chain'[s] = chain[s] /\ chain[s] \in Ends
        BY <1>6 DEF Receipt, SendInv, ClickTyped
    <2> QED BY <1>6, <2>1, StageKeepsInv DEF Receipt, SendStages, Phases, Succeeded
<1>7. ASSUME NEW s \in Sends, SendFails(s) PROVE SendInv'
    <2>1. chain' = [chain EXCEPT ![s] = chain'[s]]
          /\ chain'[s] \in {"none", "broadcast"} \union Ends
        BY <1>7 DEF SendFails, SendInv, ClickTyped
    <2> QED BY <1>7, <2>1, StageKeepsInv DEF SendFails, SendStages, Phases
<1>8. ASSUME NEW s \in Sends, NEW end \in Ends, Mined(s, end)
      PROVE  SendInv'
    <2>1. /\ chain[s] = "broadcast" /\ chain' = [chain EXCEPT ![s] = end]
          /\ UNCHANGED <<walletKind, panel, phase, twice, hash, send>>
        BY <1>8 DEF Mined
    <2>2. ClickTyped' /\ ClickInv'
        BY <2>1 DEF SendInv, ClickTyped, ClickInv
    <2>3. \A t \in Sends : chain[t] \in Succeeded => chain'[t] = chain[t]
        BY <2>1 DEF SendInv, ClickTyped, Succeeded
    <2>4. SingleClickInv'
        BY <2>1, <2>3 DEF SendInv, SingleClickInv, SentFrom
    <2> QED BY <2>2, <2>4 DEF SendInv
<1>9. CASE UNCHANGED sendVars
    BY <1>9 DEF sendVars, SendInv, ClickTyped, ClickInv, SingleClickInv, SentFrom
<1> QED BY <1>1, <1>2, <1>3, <1>4, <1>5, <1>6, <1>7, <1>8, <1>9 DEF SendNext

\* signAndSend of the send panel: with any number of clicks and panels, a panel
\* that is not pressed while a click is under way sends at most one transaction,
\* and says "included" only once the nonce of the one whose hash it shows was
\* spent with success, by it or by what replaced it in the wallet.
THEOREM OneReviewOneSend == SendSpec => []OneSendPerReview
<1>1. SendInv => OneSendPerReview
    <2> SUFFICES ASSUME SendInv, ~twice
                 PROVE  /\ Cardinality({s \in Sends : send[s].panel = panel
                                                      /\ chain[s] # "none"}) <= 1
                        /\ phase = "included" => hash # NoSend /\ chain[hash] \in Succeeded
        BY DEF SendInv, ClickInv, OneSendPerReview, Succeeded
    <2> DEFINE mine == {s \in Sends : send[s].panel = panel /\ chain[s] # "none"}
    <2>1. \A s, t \in mine : s = t
        BY DEF SendInv, SingleClickInv, SentFrom
    <2>2. mine = {} \/ \E s \in mine : mine = {s}
        BY <2>1
    <2>3. Cardinality(mine) <= 1
        <3>1. CASE mine = {}
            BY <3>1, FS_EmptySet
        <3>2. ASSUME NEW s \in mine, mine = {s} PROVE Cardinality(mine) <= 1
            <4>1. Cardinality({s}) = 1
                BY FS_Singleton
            <4> HIDE DEF mine
            <4>2. Cardinality(mine) = 1
                BY <3>2, <4>1
            <4> QED BY <4>2
        <3> QED BY <2>2, <3>1, <3>2
    <2>4. phase = "included" => hash \in Sends /\ chain[hash] \in Succeeded
        BY DEF SendInv, SingleClickInv, SentFrom
    <2> QED BY <2>3, <2>4, SendAssumption
<1> QED BY <1>1, SendInitInv, SendInvInductive, PTL DEF SendSpec

-----------------------------------------------------------------------------
(* The session of the page *)

\* AuthProvider writes the token to localStorage and to the state of the page in
\* the same turn, in every handler but that of a cancelled me() which fails: a
\* reload finds the session the page has, whatever answers come in which order.
THEOREM ReloadFindsSession == BrowserSpec => []ReloadKeepsSession
<1>1. BrowserInit => ReloadKeepsSession
    BY DEF BrowserInit, ReloadKeepsSession
<1>2. ReloadKeepsSession /\ [BrowserNext]_browserVars => ReloadKeepsSession'
    <2> SUFFICES ASSUME ReloadKeepsSession, [BrowserNext]_browserVars
                 PROVE  ReloadKeepsSession'
        OBVIOUS
    <2> USE DEF ReloadKeepsSession
    <2>1. CASE ConnectionChanged \/ SendLogin \/ SendLogout \/ ReloadPage
        BY <2>1 DEF ConnectionChanged, SendLogin, SendLogout, ReloadPage
    <2>2. ASSUME NEW x \in asking, MeAnswers(x) PROVE ReloadKeepsSession'
        <3>1. UNCHANGED lostLate
            BY <2>2 DEF MeAnswers
        <3>2. CASE x.cancelled
            BY <2>2, <3>2 DEF MeAnswers
        <3>3. CASE ~x.cancelled
            <4> DEFINE t == IF x.token = NoToken THEN cookie ELSE x.token
            <4>1. /\ sessionToken' = t
                  /\ storedToken' = IF t = sessionToken THEN storedToken ELSE t
                BY <2>2, <3>3 DEF MeAnswers, SetToken
            <4> HIDE DEF t
            <4> QED BY <3>1, <4>1
        <3> QED BY <3>2, <3>3
    <2>3. ASSUME NEW x \in asking, MeFails(x) PROVE ReloadKeepsSession'
        <3>1. CASE x.cancelled
            BY <2>3, <3>1 DEF MeFails
        <3>2. CASE ~x.cancelled
            BY <2>3, <3>2 DEF MeFails, SetToken
        <3> QED BY <3>1, <3>2
    <2>4. ASSUME NEW x \in asking, LoginFails(x) \/ LogoutEnds(x) PROVE ReloadKeepsSession'
        BY <2>4 DEF LoginFails, LogoutEnds, SetToken
    <2>5. ASSUME NEW x \in asking, NEW t \in Tokens, LoginAnswers(x, t)
          PROVE  ReloadKeepsSession'
        BY <2>5 DEF LoginAnswers, SetToken
    <2>6. CASE UNCHANGED browserVars
        BY <2>6 DEF browserVars
    <2> QED BY <2>1, <2>2, <2>3, <2>4, <2>5, <2>6 DEF BrowserNext
<1> QED BY <1>1, <1>2, PTL DEF BrowserSpec

-----------------------------------------------------------------------------
(* Holdings and payment checks *)

BalancesTyped ==
    /\ context \in Contexts
    /\ started \in Nat /\ answered \in Nat /\ answered <= started
    /\ inFlight \subseteq [number : 1 .. started, of : Contexts]
    /\ asked \in Nat
    /\ checking \subseteq [number : 1 .. asked, next : {"verdict", "balance"}]
    /\ verdict \in Nat /\ note \in Nat

\* The newest refresh reads what is on screen, and what it wrote as verified is
\* of that; of checks that never met at most one is open, the last that was asked.
RefreshInv ==
    /\ \A x \in inFlight : x.number = started => x.of = context
    /\ answered = started =>
         \A row \in holdings : row.state = "verified" => row.of = context

CheckInv ==
    ~checksMet =>
        /\ \A x, y \in checking : x = y
        /\ \A x \in checking : /\ x.number = asked
                               /\ x.next = "verdict" => note = 0
                               /\ x.next = "balance" => verdict = asked
        /\ note # 0 => note = verdict

BalancesInv == BalancesTyped /\ RefreshInv /\ CheckInv

\* A new refresh has a number of its own, so that no answer under way is its.
LEMMA RefreshStarts ==
    ASSUME BalancesInv, NEW c \in Contexts, StartRefresh(c), context' = c,
           UNCHANGED checkVars
    PROVE  BalancesInv'
<1>1. /\ started' = started + 1 /\ UNCHANGED <<holdings, answered>>
      /\ inFlight' = inFlight \union {[number |-> started + 1, of |-> c]}
    BY DEF StartRefresh
<1>2. /\ started \in Nat /\ answered \in Nat /\ answered <= started
      /\ inFlight \subseteq [number : 1 .. started, of : Contexts]
    BY DEF BalancesInv, BalancesTyped
<1>3. inFlight' \subseteq [number : 1 .. started', of : Contexts]
    <2>1. \A x \in inFlight : x \in [number : 1 .. started + 1, of : Contexts]
        BY <1>2
    <2>2. [number |-> started + 1, of |-> c] \in [number : 1 .. started + 1, of : Contexts]
        BY <1>2
    <2> QED BY <1>1, <2>1, <2>2
<1>4. BalancesTyped'
    BY <1>1, <1>2, <1>3 DEF BalancesInv, BalancesTyped, checkVars
<1>5. \A x \in inFlight : x.number # started + 1
    BY <1>2
<1>6. RefreshInv'
    BY <1>1, <1>2, <1>5 DEF RefreshInv
<1>7. CheckInv'
    BY DEF BalancesInv, CheckInv, checkVars
<1> QED BY <1>4, <1>6, <1>7 DEF BalancesInv

\* Merge calls a row verified only if it was just read.
LEMMA RefreshEnds ==
    ASSUME BalancesInv, NEW x \in inFlight,
           NEW results \in [AssetIds(x.of) -> ReadResults], Refreshed(x, results)
    PROVE  BalancesInv'
<1> DEFINE next == {[asset |-> a, state |-> results[a], of |-> x.of] : a \in AssetIds(x.of)}
<1>1. /\ holdings' = {Merge(row, holdings) : row \in next}
      /\ answered' = x.number /\ inFlight' = inFlight \ {x}
      /\ UNCHANGED <<context, started, checkVars>>
    BY DEF Refreshed
<1>2. x.number \in 1 .. started /\ started \in Nat
    BY DEF BalancesInv, BalancesTyped
<1>3. BalancesTyped'
    BY <1>1, <1>2 DEF BalancesInv, BalancesTyped, checkVars
<1>4. \A row \in next : Merge(row, holdings).state = "verified" =>
                            Merge(row, holdings).of = x.of
    <2> SUFFICES ASSUME NEW row \in next, Merge(row, holdings).state = "verified"
                 PROVE  Merge(row, holdings).of = x.of
        OBVIOUS
    <2>1. CASE row.state # "unavailable" \/ Merge(row, holdings) = row
        <3>1. Merge(row, holdings) = row
            BY <2>1 DEF Merge
        <3> QED BY <3>1
    <2>2. CASE /\ row.state = "unavailable"
               /\ \E old \in holdings : old.asset = row.asset /\ old.state = "verified"
        <3> DEFINE old == CHOOSE o \in holdings : o.asset = row.asset /\ o.state = "verified"
        <3>1. Merge(row, holdings) = [old EXCEPT !.state = "stale"]
            BY <2>2 DEF Merge
        <3> QED BY <3>1
    <2> QED BY <2>1, <2>2 DEF Merge
<1>5. RefreshInv'
    <2>1. \A y \in inFlight' : y.number = started' => y.of = context'
        BY <1>1 DEF BalancesInv, RefreshInv
    <2>2. answered' = started' => x.of = context'
        BY <1>1 DEF BalancesInv, RefreshInv
    <2> QED BY <1>1, <1>4, <2>1, <2>2 DEF RefreshInv
<1>6. CheckInv'
    BY <1>1 DEF BalancesInv, CheckInv, checkVars
<1> QED BY <1>3, <1>5, <1>6 DEF BalancesInv

LEMMA BalancesInvInductive ==
    BalancesInv /\ [BalancesNext]_<<balanceVars, checkVars>> => BalancesInv'
<1> SUFFICES ASSUME BalancesInv, [BalancesNext]_<<balanceVars, checkVars>>
             PROVE  BalancesInv'
    OBVIOUS
<1>1. ASSUME NEW c \in Contexts, SwitchTo(c) PROVE BalancesInv'
    BY <1>1, RefreshStarts DEF SwitchTo
<1>2. CASE RefreshAgain
    <2>1. context \in Contexts /\ StartRefresh(context) /\ context' = context
          /\ UNCHANGED checkVars
        BY <1>2 DEF RefreshAgain, BalancesInv, BalancesTyped
    <2> QED BY <2>1, RefreshStarts
<1>3. ASSUME NEW x \in inFlight, NEW results \in [AssetIds(x.of) -> ReadResults],
             Refreshed(x, results)
      PROVE  BalancesInv'
    BY <1>3, RefreshEnds
<1>4. ASSUME NEW x \in inFlight, RefreshFails(x) PROVE BalancesInv'
    BY <1>4 DEF RefreshFails, BalancesInv, BalancesTyped, RefreshInv, CheckInv, checkVars
<1>5. CASE StartCheck
    <2>1. /\ asked' = asked + 1 /\ verdict' = 0 /\ note' = 0
          /\ checking' = checking \union {[number |-> asked + 1, next |-> "verdict"]}
          /\ checksMet' = (checksMet \/ checking # {})
          /\ UNCHANGED <<context, holdings, started, inFlight, answered>>
        BY <1>5 DEF StartCheck, balanceVars
    <2>2. \A x \in checking : x \in [number : 1 .. asked + 1, next : {"verdict", "balance"}]
        BY DEF BalancesInv, BalancesTyped
    <2>3. BalancesTyped'
        BY <2>1, <2>2 DEF BalancesInv, BalancesTyped
    <2>4. RefreshInv'
        BY <2>1 DEF BalancesInv, RefreshInv
    <2>5. ~checksMet' => checking' = {[number |-> asked + 1, next |-> "verdict"]}
        BY <2>1
    <2>6. CheckInv'
        BY <2>1, <2>5 DEF CheckInv
    <2> QED BY <2>3, <2>4, <2>6 DEF BalancesInv
<1>6. ASSUME NEW x \in checking, VerdictArrives(x) \/ BalanceArrives(x) \/ CheckFails(x)
      PROVE  BalancesInv'
    <2>1. UNCHANGED <<context, holdings, started, inFlight, answered, asked, checksMet>>
        BY <1>6 DEF VerdictArrives, BalanceArrives, CheckFails, balanceVars
    <2>2. RefreshInv'
        BY <2>1 DEF BalancesInv, RefreshInv
    <2>3. x \in [number : 1 .. asked, next : {"verdict", "balance"}]
        BY DEF BalancesInv, BalancesTyped
    <2>4. BalancesTyped'
        BY <1>6, <2>1, <2>3 DEF VerdictArrives, BalanceArrives, CheckFails,
           BalancesInv, BalancesTyped
    <2>5. CheckInv'
        BY <1>6, <2>1, <2>3 DEF VerdictArrives, BalanceArrives, CheckFails,
           BalancesInv, BalancesTyped, CheckInv
    <2> QED BY <2>2, <2>4, <2>5 DEF BalancesInv
<1>7. CASE UNCHANGED <<balanceVars, checkVars>>
    BY <1>7 DEF balanceVars, checkVars, BalancesInv, BalancesTyped, RefreshInv, CheckInv
<1> QED BY <1>1, <1>2, <1>3, <1>4, <1>5, <1>6, <1>7 DEF BalancesNext

\* Whatever order the reads of the wallet page are answered in, what it calls
\* verified after the newest refresh is of the account and network on screen, and a
\* verdict stands beside the balance of its own check unless two checks overlapped.
THEOREM BalancesBelong == BalancesSpec => []ShownTogetherBelongs
<1>1. BalancesInit => BalancesInv
    BY DEF BalancesInit, BalancesInv, BalancesTyped, RefreshInv, CheckInv
<1>2. BalancesInv => ShownTogetherBelongs
    BY DEF BalancesInv, RefreshInv, CheckInv, ShownTogetherBelongs
<1> QED BY <1>1, <1>2, BalancesInvInductive, PTL DEF BalancesSpec

-----------------------------------------------------------------------------
(* The account the wallet acts for *)

JobRecord == [kind : Kinds, stage : Stages, page : Nat, ticket : Nat, result : Sessions]

LinkTyped ==
    /\ page \in Nat /\ generation \in Nat /\ session \in Sessions
    /\ provider \in Jobs \union {NoJob} /\ listening \in Jobs \union {NoJob}
    /\ account \in [Jobs -> Links \union {NoLink}] /\ kept \in Links \union {NoLink}
    /\ unlocked \in Phrases \union {NoPhrase} /\ vault \in Phrases \union {NoPhrase}
    /\ crossed \in BOOLEAN /\ job \in [Jobs -> JobRecord]

\* What an attempt may still open a session with.
ResultInv ==
    \A j \in Jobs :
        /\ job[j].stage = "deriving" => \E p \in Phrases : job[j].result = Local(p)
        /\ job[j].stage = "asking" => job[j].result.kind \in {"injected", "metamask"}
        /\ job[j].stage = "connecting" => job[j].kind = "pair"

\* An attempt whose ticket still counts.
Current(j) == /\ job[j].stage \in {"leaving", "creating", "connecting"}
              /\ job[j].ticket = generation

\* No two attempts of the page on screen hold the ticket that counts, a pairing of
\* this page shares it with nobody, and once it connects the provider is its own.
TicketInv ==
    /\ \A j \in Jobs : job[j].page <= page /\ job[j].ticket <= generation
    /\ \A i, j \in Jobs :
        Current(i) /\ Current(j) /\ job[i].page = page
            /\ (job[j].page = page \/ job[i].kind = "pair") => i = j
    /\ \A j \in Jobs :
        job[j].stage = "connecting" /\ job[j].ticket = generation /\ job[j].page = page
            => provider = j

\* A linked session hears the provider that signs for it, and no attempt of its
\* page will replace that one.
SessionInv ==
    /\ session.kind = "walletconnect" <=> listening # NoJob
    /\ session.kind = "walletconnect" /\ ~crossed =>
        /\ listening = provider /\ account[provider] = session.of
        /\ \A j \in Jobs : Current(j) => job[j].page # page \/ job[j].stage = "connecting"

LinkInv == LinkTyped /\ ResultInv /\ TicketInv /\ SessionInv /\ PhraseIsOnScreen

LEMMA SessionKinds ==
    /\ NoSession \in Sessions /\ NoSession.kind = "none"
    /\ \A p \in Phrases : Local(p) \in Sessions /\ Local(p).kind = "local" /\ Local(p).of = p
    /\ \A l \in Links : /\ Linked(l) \in Sessions /\ Linked(l).kind = "walletconnect"
                        /\ Linked(l).of = l
    /\ \A k \in {"injected", "metamask", "watch"} : Other(k) \in Sessions /\ Other(k).kind = k
<1>1. NoSession \in Sessions /\ NoSession.kind = "none"
    BY DEF Sessions, NoSession
<1>2. ASSUME NEW p \in Phrases
      PROVE  Local(p) \in Sessions /\ Local(p).kind = "local" /\ Local(p).of = p
    BY DEF Sessions, Local
<1>3. ASSUME NEW l \in Links
      PROVE  Linked(l) \in Sessions /\ Linked(l).kind = "walletconnect" /\ Linked(l).of = l
    BY DEF Sessions, Linked
<1>4. ASSUME NEW k \in {"injected", "metamask", "watch"}
      PROVE  Other(k) \in Sessions /\ Other(k).kind = k
    BY DEF Sessions, Other
<1> QED BY <1>1, <1>2, <1>3, <1>4

\* An action that leaves the jobs, the page and the tickets alone.
LEMMA SameTickets ==
    ASSUME LinkInv, UNCHANGED <<job, page, generation, provider>>
    PROVE  TicketInv' /\ ResultInv' /\ \A j \in Jobs : Current(j)' <=> Current(j)
    BY DEF LinkInv, TicketInv, ResultInv, Current

\* A session of another kind has no listener, and no phrase but its own.
LEMMA UnlinkedSession ==
    ASSUME LinkInv, session.kind # "walletconnect" PROVE listening = NoJob
    BY DEF LinkInv, SessionInv

\* An attempt goes on or ends: it gains no ticket by that.
LEMMA AdvanceKeepsTickets ==
    ASSUME LinkInv, NEW j \in Jobs, NEW s \in Stages, Advance(j, s),
           UNCHANGED <<page, generation>>,
           s \notin {"unused", "deriving", "asking"},
           s # "over" => Current(j),
           s = "connecting" => job[j].kind = "pair" /\ provider' = j,
           provider' # provider => Current(j) /\ provider' = j /\ job[j].stage = "creating"
    PROVE  /\ TicketInv' /\ ResultInv' /\ job' \in [Jobs -> JobRecord]
           /\ \A i \in Jobs : Current(i)' => Current(i)
           /\ \A i \in Jobs : Current(i)' => job'[i].page = job[i].page
           /\ \A i \in Jobs \ {j} : job'[i] = job[i]
           /\ job'[j].stage = s
<1>1. /\ job' = [job EXCEPT ![j] = IF s = "over" THEN Ended ELSE [job[j] EXCEPT !.stage = s]]
      /\ job \in [Jobs -> JobRecord] /\ page \in Nat /\ generation \in Nat
    BY DEF Advance, LinkInv, LinkTyped
<1>2. /\ \A i \in Jobs \ {j} : job'[i] = job[i]
      /\ job'[j].stage = s /\ job' \in [Jobs -> JobRecord]
      /\ job'[j].page <= page /\ job'[j].ticket <= generation
      /\ s # "over" => /\ job'[j].page = job[j].page /\ job'[j].kind = job[j].kind
                       /\ job'[j].ticket = job[j].ticket /\ job'[j].result = job[j].result
    <2>1. CASE s = "over"
        <3>1. Ended \in JobRecord /\ Ended.stage = "over" /\ Ended.page = 0 /\ Ended.ticket = 0
            BY SessionKinds DEF NewJob, Ended, JobRecord, Kinds, Stages
        <3>2. job'[j] = Ended /\ \A i \in Jobs \ {j} : job'[i] = job[i]
            BY <1>1, <2>1
        <3>3. job' \in [Jobs -> JobRecord]
            BY <1>1, <2>1, <3>1
        <3> QED BY <1>1, <2>1, <3>1, <3>2, <3>3
    <2>2. CASE s # "over"
        <3>1. job' = [job EXCEPT ![j].stage = s]
            BY <1>1, <2>2
        <3>2. /\ \A i \in Jobs \ {j} : job'[i] = job[i]
              /\ job'[j].stage = s /\ job'[j].page = job[j].page /\ job'[j].kind = job[j].kind
              /\ job'[j].ticket = job[j].ticket /\ job'[j].result = job[j].result
              /\ job' \in [Jobs -> JobRecord]
            BY <1>1, <3>1 DEF JobRecord
        <3>3. job[j].page <= page /\ job[j].ticket <= generation
            BY DEF LinkInv, TicketInv
        <3> QED BY <3>2, <3>3
    <2> QED BY <2>1, <2>2
<1>3. \A i \in Jobs : Current(i)' => Current(i) /\ job'[i].page = job[i].page
    BY <1>2 DEF Current
<1>4. ResultInv'
    BY <1>2 DEF LinkInv, ResultInv
<1>5. ASSUME NEW i \in Jobs, job'[i].stage = "connecting", job'[i].ticket = generation,
             job'[i].page = page
      PROVE  provider' = i
    <2>1. CASE i = j
        BY <1>2, <1>5, <2>1
    <2>2. CASE i # j
        <3>1. job'[i] = job[i] /\ job[i].kind = "pair" /\ Current(i) /\ provider = i
            BY <1>2, <1>5, <2>2 DEF LinkInv, ResultInv, TicketInv, Current
        <3>2. ~Current(j)
            BY <1>2, <1>5, <2>2, <3>1 DEF LinkInv, TicketInv
        <3> QED BY <3>1, <3>2
    <2> QED BY <2>1, <2>2
<1>6. TicketInv'
    <2>1. \A i \in Jobs : job'[i].page <= page' /\ job'[i].ticket <= generation'
        BY <1>2 DEF LinkInv, TicketInv
    <2>2. \A i \in Jobs : Current(i)' => Current(i) /\ job'[i].page = job[i].page
                                       /\ job'[i].kind = job[i].kind
        BY <1>2 DEF Current
    <2>3. \A i, k \in Jobs :
            Current(i)' /\ Current(k)' /\ job'[i].page = page'
                /\ (job'[k].page = page' \/ job'[i].kind = "pair") => i = k
        BY <2>2 DEF LinkInv, TicketInv
    <2> QED BY <2>1, <2>3, <1>5 DEF TicketInv
<1> QED BY <1>2, <1>3, <1>4, <1>6

\* A new generation: no attempt holds its ticket yet.
LEMMA NewGeneration ==
    ASSUME LinkInv, generation' = generation + 1, UNCHANGED <<job, page>>
    PROVE  TicketInv' /\ ResultInv' /\ \A j \in Jobs : ~Current(j)'
<1>1. \A j \in Jobs : /\ job[j].ticket \in Nat /\ job[j].ticket <= generation
                      /\ generation \in Nat
    BY DEF LinkInv, LinkTyped, JobRecord, TicketInv
<1>2. \A j \in Jobs : job'[j].ticket # generation' /\ job'[j].ticket <= generation'
    BY <1>1
<1> QED BY <1>2 DEF LinkInv, TicketInv, ResultInv, Current

\* An attempt that opens a session of no provider.
LEMMA UnlinkedKeepsSessionInv ==
    ASSUME LinkInv, NEW j \in Jobs, NEW s, SetSession(j, s), s.kind # "walletconnect",
           UNCHANGED <<page, generation, provider, account>>,
           \A i \in Jobs : Current(i)' => Current(i) /\ job'[i] = job[i]
    PROVE  SessionInv'
<1>1. CASE job[j].page = page
    <2>1. session' = s /\ listening' = NoJob
        BY <1>1 DEF SetSession
    <2> QED BY <2>1 DEF SessionInv
<1>2. CASE job[j].page # page
    <2>1. session' = session /\ listening' = listening /\ crossed'
        BY <1>2 DEF SetSession
    <2> QED BY <2>1 DEF LinkInv, SessionInv
<1> QED BY <1>1, <1>2

\* An attempt that opens a linked session is the provider's own, and the only one
\* of its page that counts.
LEMMA LinkedKeepsSessionInv ==
    ASSUME LinkInv, NEW j \in Jobs, NEW l \in Links, SetSession(j, Linked(l)),
           UNCHANGED <<page, generation>>, provider' = j, account'[j] = l,
           NoJob \notin Jobs, Current(j),
           \A i \in Jobs : Current(i)' => job'[i].page = job[i].page,
           \A i \in Jobs : Current(i)' => Current(i) /\ i # j
    PROVE  SessionInv'
<1>1. CASE job[j].page = page
    <2>1. session' = Linked(l) /\ listening' = j
        BY <1>1, SessionKinds DEF SetSession
    <2>2. \A i \in Jobs : Current(i)' => job'[i].page # page
        BY <1>1 DEF LinkInv, TicketInv
    <2> QED BY <2>1, <2>2, SessionKinds DEF SessionInv
<1>2. CASE job[j].page # page
    <2>1. session' = session /\ listening' = listening /\ crossed'
        BY <1>2 DEF SetSession
    <2> QED BY <2>1 DEF LinkInv, SessionInv
<1> QED BY <1>1, <1>2

\* A linked session put by an attempt comes over no other, or is noted.
LEMMA SetSessionKeepsPhrase ==
    ASSUME LinkInv, NEW j \in Jobs, NEW s, SetSession(j, s), unlocked' = unlocked
    PROVE  PhraseIsOnScreen'
<1>1. CASE crossed'
    BY <1>1 DEF PhraseIsOnScreen
<1>2. CASE ~crossed'
    <2>1. ~crossed /\ session = NoSession
        BY <1>2 DEF SetSession
    <2>2. session # Local(unlocked)
        BY <2>1 DEF NoSession, Local
    <2> QED BY <2>1, <2>2 DEF LinkInv, PhraseIsOnScreen
<1> QED BY <1>1, <1>2

LEMMA KeyDerivedKeepsInv ==
    ASSUME LinkInv, NEW j \in Jobs, KeyDerived(j) PROVE LinkInv'
<1>1. /\ job[j].stage = "deriving" /\ unlocked' = job[j].result.of
      /\ vault' = IF job[j].kind = "seal" THEN job[j].result.of ELSE vault
      /\ SetSession(j, job[j].result) /\ Advance(j, "over")
      /\ UNCHANGED <<page, provider, generation, account, kept>>
    BY DEF KeyDerived
<1>2. PICK p \in Phrases : job[j].result = Local(p)
    BY <1>1 DEF LinkInv, ResultInv
<1>3. job[j].result.of = p /\ job[j].result.kind = "local" /\ job[j].result \in Sessions
    BY <1>2, SessionKinds
<1>4. /\ TicketInv' /\ ResultInv' /\ job' \in [Jobs -> JobRecord]
      /\ \A i \in Jobs : Current(i)' => Current(i)
      /\ \A i \in Jobs \ {j} : job'[i] = job[i]
      /\ job'[j].stage = "over"
    BY <1>1, AdvanceKeepsTickets DEF Stages
<1>5. \A i \in Jobs : Current(i)' => Current(i) /\ job'[i] = job[i]
    BY <1>4 DEF Current
<1>6. SessionInv'
    BY <1>1, <1>3, <1>5, UnlinkedKeepsSessionInv
<1>7. LinkTyped'
    <2>1. session' \in Sessions /\ crossed' \in BOOLEAN
        BY <1>1, <1>3 DEF SetSession, LinkInv, LinkTyped
    <2>2. listening' \in Jobs \union {NoJob}
        BY <1>1, <1>3 DEF SetSession, LinkInv, LinkTyped
    <2> QED BY <1>1, <1>3, <1>4, <2>1, <2>2 DEF LinkInv, LinkTyped
<1>8. PhraseIsOnScreen'
    BY <1>1, <1>2, <1>3 DEF SetSession, PhraseIsOnScreen
<1> QED BY <1>4, <1>6, <1>7, <1>8 DEF LinkInv

LEMMA WalletAnswersKeepsInv ==
    ASSUME LinkInv, NEW j \in Jobs, WalletAnswers(j) PROVE LinkInv'
<1>1. /\ job[j].stage = "asking" /\ SetSession(j, job[j].result) /\ Advance(j, "over")
      /\ UNCHANGED <<page, vault, unlocked, provider, generation, account, kept>>
    BY DEF WalletAnswers, memory
<1>2. /\ job[j].result.kind # "walletconnect" /\ job[j].result \in Sessions
    BY <1>1 DEF LinkInv, ResultInv, LinkTyped, JobRecord
<1>4. /\ TicketInv' /\ ResultInv' /\ job' \in [Jobs -> JobRecord]
      /\ \A i \in Jobs : Current(i)' => Current(i)
      /\ \A i \in Jobs \ {j} : job'[i] = job[i]
      /\ job'[j].stage = "over"
    BY <1>1, AdvanceKeepsTickets DEF Stages
<1>5. \A i \in Jobs : Current(i)' => Current(i) /\ job'[i] = job[i]
    BY <1>4 DEF Current
<1>6. SessionInv'
    BY <1>1, <1>2, <1>5, UnlinkedKeepsSessionInv
<1>7. LinkTyped'
    <2>1. session' \in Sessions /\ crossed' \in BOOLEAN
        BY <1>1, <1>2 DEF SetSession, LinkInv, LinkTyped
    <2>2. listening' \in Jobs \union {NoJob}
        BY <1>1, <1>2 DEF SetSession, LinkInv, LinkTyped
    <2> QED BY <1>1, <1>4, <2>1, <2>2 DEF LinkInv, LinkTyped
<1> QED BY <1>1, <1>4, <1>6, <1>7, SetSessionKeepsPhrase DEF LinkInv

\* The session on screen stays, and so do those that could replace its provider.
LEMMA SessionStands ==
    ASSUME LinkInv, UNCHANGED <<page, session, listening, provider, account>>,
           crossed => crossed',
           \A j \in Jobs : Current(j)' =>
               /\ Current(j) /\ job'[j].page = job[j].page
               /\ job'[j].stage # "connecting" => job[j].stage # "connecting"
    PROVE  SessionInv'
    BY DEF LinkInv, SessionInv

\* An attempt that needs no ticket.
LEMMA BeginKeepsInv ==
    ASSUME LinkInv, NEW j \in Jobs, NEW kind \in Kinds, NEW stage \in {"deriving", "asking"},
           NEW gained \in Sessions, Begin(j, kind, stage, generation, gained),
           stage = "deriving" => \E p \in Phrases : gained = Local(p),
           stage = "asking" => gained.kind \in {"injected", "metamask"},
           UNCHANGED <<page, onPage, vault, memory, kept, crossed>>
    PROVE  LinkInv'
<1> DEFINE new == [kind |-> kind, stage |-> stage, page |-> page,
                   ticket |-> generation, result |-> gained]
<1>1. job' = [job EXCEPT ![j] = new] /\ job[j].stage = "unused"
      /\ UNCHANGED <<page, session, listening, vault, unlocked, provider, generation,
                     account, kept, crossed>>
    BY DEF Begin, onPage, memory
<1>2. LinkTyped
    BY DEF LinkInv
<1>3. new \in JobRecord
    BY <1>2 DEF JobRecord, LinkTyped, Stages
<1>4. job'[j] = new /\ \A i \in Jobs \ {j} : job'[i] = job[i]
    BY <1>1, <1>2 DEF LinkTyped
<1>5. \A i \in Jobs : Current(i)' => Current(i) /\ job'[i] = job[i]
    BY <1>1, <1>4 DEF Current
<1>6. LinkTyped'
    BY <1>1, <1>2, <1>3 DEF LinkTyped
<1>7. ResultInv'
    BY <1>4 DEF LinkInv, ResultInv
<1>8. TicketInv'
    <2>1. \A i \in Jobs : job'[i].page <= page /\ job'[i].ticket <= generation
        BY <1>2, <1>4 DEF LinkInv, TicketInv, LinkTyped
    <2>2. \A i \in Jobs : job'[i].stage = "connecting" => job'[i] = job[i]
        BY <1>4
    <2> QED BY <1>1, <1>5, <2>1, <2>2 DEF LinkInv, TicketInv
<1>9. SessionInv'
    BY <1>1, <1>5, SessionStands
<1>10. PhraseIsOnScreen'
    BY <1>1 DEF LinkInv, PhraseIsOnScreen
<1> QED BY <1>6, <1>7, <1>8, <1>9, <1>10 DEF LinkInv

LEMMA DropTyped ==
    ASSUME LinkTyped
    PROVE  /\ Kept(provider) \in Links \union {NoLink}
           /\ Without(provider) \in [Jobs -> Links \union {NoLink}]
    BY DEF LinkTyped, Kept, Without

\* Whatever closes the session leaves no listener and no ticket that is new.
LEMMA ClosingKeepsInv ==
    ASSUME LinkInv, session' = NoSession, listening' = NoJob, UNCHANGED <<page, vault, job>>,
           DropProvider \/ (/\ UNCHANGED <<generation, provider>>
                            /\ account' \in [Jobs -> Links \union {NoLink}]
                            /\ kept' \in Links \union {NoLink}),
           crossed' \in BOOLEAN,
           unlocked' = NoPhrase
               \/ (unlocked' = unlocked /\ crossed' = crossed /\ session.kind # "local")
    PROVE  LinkInv'
<1>1. LinkTyped
    BY DEF LinkInv
<1>2. LinkTyped'
    BY <1>1, DropTyped, SessionKinds DEF LinkTyped, DropProvider
<1>3. TicketInv' /\ ResultInv'
    <2>1. CASE DropProvider
        BY <2>1, NewGeneration DEF DropProvider
    <2>2. CASE UNCHANGED <<generation, provider>>
        BY <2>2, SameTickets
    <2> QED BY <2>1, <2>2
<1>4. SessionInv'
    BY SessionKinds DEF SessionInv
<1>5. PhraseIsOnScreen'
    <2>1. CASE unlocked' = NoPhrase
        BY <2>1 DEF PhraseIsOnScreen
    <2>2. CASE unlocked' = unlocked /\ crossed' = crossed /\ session.kind # "local"
        <3>1. session # Local(unlocked)
            BY <2>2 DEF Local
        <3> QED BY <2>2, <3>1 DEF LinkInv, PhraseIsOnScreen
    <2> QED BY <2>1, <2>2
<1> QED BY <1>2, <1>3, <1>4, <1>5 DEF LinkInv

LEMMA StartPairingKeepsInv ==
    ASSUME LinkInv, NEW j \in Jobs, StartPairing(j) PROVE LinkInv'
<1> DEFINE stage == IF provider = NoJob THEN "creating" ELSE "leaving"
           new == [kind |-> "pair", stage |-> stage, page |-> page,
                   ticket |-> generation + 1, result |-> NoSession]
<1>1. /\ generation' = generation + 1 /\ provider' = NoJob /\ session = NoSession
      /\ job' = [job EXCEPT ![j] = new]
      /\ kept' = Kept(provider) /\ account' = Without(provider)
      /\ UNCHANGED <<page, session, listening, vault, unlocked, crossed>>
    BY DEF StartPairing, Begin
<1>2. LinkTyped
    BY DEF LinkInv
<1>3. new \in JobRecord
    BY <1>2, SessionKinds DEF JobRecord, LinkTyped, Stages, Kinds
<1>4. job'[j] = new /\ \A i \in Jobs \ {j} : job'[i] = job[i]
    BY <1>1, <1>2 DEF LinkTyped
<1>5. LinkTyped'
    BY <1>1, <1>2, <1>3, DropTyped DEF LinkTyped
<1>6. ResultInv'
    BY <1>4 DEF LinkInv, ResultInv
<1>7. \A i \in Jobs \ {j} : job'[i].ticket # generation' /\ job'[i].ticket <= generation'
    <2>1. \A i \in Jobs : /\ job[i].ticket \in Nat /\ job[i].ticket <= generation
                          /\ generation \in Nat
        BY <1>2 DEF LinkInv, LinkTyped, JobRecord, TicketInv
    <2> QED BY <1>1, <1>4, <2>1
<1>8. TicketInv'
    <2>1. \A i \in Jobs : job'[i].page <= page /\ job'[i].ticket <= generation'
        BY <1>1, <1>2, <1>4, <1>7 DEF LinkInv, TicketInv, LinkTyped
    <2>2. \A i \in Jobs : Current(i)' => i = j
        BY <1>7 DEF Current
    <2>3. \A i \in Jobs : job'[i].ticket = generation' => job'[i].stage # "connecting"
        BY <1>4, <1>7
    <2> QED BY <1>1, <2>1, <2>2, <2>3 DEF TicketInv
<1>9. SessionInv'
    BY <1>1, SessionKinds DEF LinkInv, SessionInv
<1>10. PhraseIsOnScreen'
    BY <1>1 DEF LinkInv, PhraseIsOnScreen
<1> QED BY <1>5, <1>6, <1>8, <1>9, <1>10 DEF LinkInv

\* A new page begins before any attempt of it, and asks at most one to restore.
LEMMA NewPageKeepsInv ==
    ASSUME LinkInv, NEW j \in Jobs, NEW q \in [Jobs -> JobRecord], NEW configured,
           provider' = NoJob \/ (provider' = provider /\ account' = account),
           page' = page + 1, generation' \in Nat,
           account' \in [Jobs -> Links \union {NoLink}],
           Restore(j, provider', q, configured),
           \A i \in Jobs : q[i].page <= page /\ q[i].ticket <= generation'
                           /\ (q[i].stage = "unused" \/ q[i].stage = "over" \/ q[i] = job[i]),
           UNCHANGED <<vault, kept>>, unlocked' \in {NoPhrase, unlocked},
           crossed' \in BOOLEAN, unlocked' # NoPhrase => crossed'
    PROVE  LinkInv'
<1> DEFINE approved == provider' # NoJob /\ account[provider'] # NoLink /\ configured
           new == [kind |-> "restore", stage |-> "creating", page |-> page',
                   ticket |-> generation', result |-> NoSession]
<1>1. LinkTyped /\ page' \in Nat
    BY DEF LinkInv, LinkTyped
<1>2. approved => /\ session' = Linked(account[provider']) /\ listening' = provider'
                /\ provider' = provider /\ provider' \in Jobs /\ account[provider'] \in Links
                /\ account' = account /\ job' = q
    BY <1>1 DEF Restore, LinkTyped
<1>3. ~approved => session' = NoSession /\ listening' = NoJob
    BY DEF Restore
<1>4. job' = q \/ job' = [q EXCEPT ![j] = new]
    BY DEF Restore
<1>5. new \in JobRecord
    BY <1>1, SessionKinds DEF JobRecord, Stages, Kinds
<1>6. \A i \in Jobs : job'[i] = q[i] \/ (i = j /\ job'[i] = new /\ ~approved)
    <2>1. approved => job' = q
        BY DEF Restore
    <2> QED BY <1>4, <2>1
<1>7. session' \in Sessions /\ listening' \in Jobs \union {NoJob}
    BY <1>1, <1>2, <1>3, SessionKinds DEF LinkTyped
<1>8. LinkTyped'
    BY <1>1, <1>4, <1>5, <1>7 DEF LinkTyped
<1>9. ResultInv'
    <2>1. ASSUME NEW i \in Jobs
          PROVE  /\ job'[i].stage = "deriving" => \E p \in Phrases : job'[i].result = Local(p)
                 /\ job'[i].stage = "asking" => job'[i].result.kind \in {"injected", "metamask"}
                 /\ job'[i].stage = "connecting" => job'[i].kind = "pair"
        <3>1. CASE job'[i] = job[i]
            BY <3>1 DEF LinkInv, ResultInv
        <3>2. CASE job'[i].stage \in {"unused", "over", "creating"}
            BY <3>2
        <3> QED BY <1>6, <3>1, <3>2
    <2> QED BY <2>1 DEF ResultInv
<1>10. \A i \in Jobs : job'[i].page = page' => i = j /\ job'[i] = new /\ ~approved
    <2>1. \A i \in Jobs : q[i].page \in Nat /\ page \in Nat /\ q[i].page # page + 1
        BY <1>1 DEF LinkTyped, JobRecord
    <2> QED BY <1>6, <2>1
<1>11. TicketInv'
    <2>1. \A i \in Jobs : job'[i].page <= page' /\ job'[i].ticket <= generation'
        <3>1. \A i \in Jobs : /\ q[i].page \in Nat /\ page \in Nat /\ q[i].page <= page + 1
                              /\ q[i].ticket <= generation'
            BY <1>1 DEF LinkTyped, JobRecord
        <3> QED BY <1>6, <3>1
    <2> QED BY <1>10, <2>1 DEF TicketInv
<1>12. SessionInv'
    <2>1. CASE approved
        <3>1. \A i \in Jobs : job'[i].page # page'
            BY <1>10, <2>1
        <3> QED BY <1>2, <2>1, <3>1, SessionKinds DEF SessionInv
    <2>2. CASE ~approved
        BY <1>3, <2>2, SessionKinds DEF SessionInv
    <2> QED BY <2>1, <2>2
<1>13. PhraseIsOnScreen'
    BY DEF PhraseIsOnScreen
<1> QED BY <1>8, <1>9, <1>11, <1>12, <1>13 DEF LinkInv

LEMMA OpenKeepsInv ==
    ASSUME LinkInv, NEW j \in Jobs, Open(j) \/ Reload(j) PROVE LinkInv'
<1>1. CASE Open(j)
    <2>1. /\ page' = page + 1 /\ generation' = generation
          /\ Restore(j, provider, job, config = "known")
          /\ crossed' = (crossed \/ unlocked # NoPhrase)
          /\ UNCHANGED <<vault, unlocked, provider, account, kept>>
        BY <1>1 DEF Open
    <2>2. Restore(j, provider', job, config = "known")
        BY <2>1
    <2>3. /\ job \in [Jobs -> JobRecord] /\ generation' \in Nat
          /\ account' \in [Jobs -> Links \union {NoLink}]
        BY <2>1 DEF LinkInv, LinkTyped
    <2>4. \A i \in Jobs : job[i].page <= page /\ job[i].ticket <= generation'
        BY <2>1 DEF LinkInv, TicketInv
    <2> QED BY <2>1, <2>2, <2>3, <2>4, NewPageKeepsInv
<1>2. CASE Reload(j)
    <2> DEFINE q == [i \in Jobs |-> IF job[i].stage = "unused" THEN NewJob ELSE Ended]
    <2>1. /\ page' = page + 1 /\ generation' = 0 /\ provider' = NoJob
          /\ unlocked' = NoPhrase /\ account' = [i \in Jobs |-> NoLink]
          /\ Restore(j, NoJob, q, built) /\ crossed' = FALSE
          /\ UNCHANGED <<vault, kept>>
        BY <1>2 DEF Reload
    <2>2. Restore(j, provider', q, built)
        BY <2>1
    <2>3. NewJob \in JobRecord /\ Ended \in JobRecord
        BY SessionKinds DEF NewJob, Ended, JobRecord, Kinds, Stages
    <2>4. q \in [Jobs -> JobRecord]
        BY <2>3
    <2>5. \A i \in Jobs : q[i].page = 0 /\ q[i].ticket = 0 /\ q[i].stage \in {"unused", "over"}
        BY DEF NewJob, Ended
    <2>6. page \in Nat
        BY DEF LinkInv, LinkTyped
    <2>7. \A i \in Jobs : q[i].page <= page /\ q[i].ticket <= generation'
                          /\ (q[i].stage = "unused" \/ q[i].stage = "over" \/ q[i] = job[i])
        BY <2>1, <2>5, <2>6
    <2>8. generation' \in Nat /\ account' \in [Jobs -> Links \union {NoLink}]
          /\ crossed' \in BOOLEAN
        BY <2>1
    <2> HIDE DEF q
    <2> QED BY <2>1, <2>2, <2>4, <2>7, <2>8, NewPageKeepsInv
<1> QED BY <1>1, <1>2

\* An attempt that goes on or ends without the session.
LEMMA QuietAttemptKeepsInv ==
    ASSUME LinkInv, NEW j \in Jobs, PreviousLeft(j) \/ PairingFails(j) \/ AttemptFails(j)
    PROVE  LinkInv'
<1>1. /\ UNCHANGED <<page, session, listening, vault, unlocked, provider, generation,
                     account, kept, crossed>>
      /\ \/ Advance(j, "over")
         \/ Advance(j, "creating") /\ Current(j) /\ job[j].stage = "leaving"
    BY DEF PreviousLeft, PairingFails, AttemptFails, onPage, memory, Current
<1>2. PICK s \in {"over", "creating"} :
        Advance(j, s) /\ (s = "creating" => Current(j) /\ job[j].stage = "leaving")
    BY <1>1
<1>3. /\ TicketInv' /\ ResultInv' /\ job' \in [Jobs -> JobRecord]
      /\ \A i \in Jobs : Current(i)' => Current(i)
      /\ \A i \in Jobs : Current(i)' => job'[i].page = job[i].page
      /\ \A i \in Jobs \ {j} : job'[i] = job[i]
      /\ job'[j].stage = s
    BY <1>1, <1>2, AdvanceKeepsTickets DEF Stages
<1>4. \A i \in Jobs : Current(i)' /\ job'[i].stage # "connecting" => job[i].stage # "connecting"
    BY <1>2, <1>3 DEF Current
<1>5. SessionInv'
    BY <1>1, <1>3, <1>4, SessionStands
<1>6. LinkTyped' /\ PhraseIsOnScreen'
    BY <1>1, <1>3 DEF LinkInv, LinkTyped, PhraseIsOnScreen
<1> QED BY <1>3, <1>5, <1>6 DEF LinkInv

\* A provider that is created with the kept link restores its session.
LEMMA ProviderCreatedKeepsInv ==
    ASSUME LinkInv, NEW j \in Jobs, ProviderCreated(j) PROVE LinkInv'
<1>1. LinkTyped /\ NoJob \notin Jobs /\ NoLink \notin Links
    BY NamesAssumption DEF LinkInv
<1>2. CASE job[j].ticket # generation
    <2>1. /\ kept' = NoLink /\ Advance(j, "over")
          /\ UNCHANGED <<page, session, listening, vault, unlocked, provider, generation,
                         account, crossed>>
        BY <1>2 DEF ProviderCreated
    <2>2. /\ TicketInv' /\ ResultInv' /\ job' \in [Jobs -> JobRecord]
          /\ \A i \in Jobs : Current(i)' => Current(i)
          /\ \A i \in Jobs : Current(i)' => job'[i].page = job[i].page
          /\ \A i \in Jobs \ {j} : job'[i] = job[i]
          /\ job'[j].stage = "over"
        BY <2>1, AdvanceKeepsTickets DEF Stages
    <2>3. \A i \in Jobs : Current(i)' /\ job'[i].stage # "connecting" => job[i].stage # "connecting"
        BY <2>2 DEF Current
    <2>4. SessionInv'
        BY <2>1, <2>2, <2>3, SessionStands
    <2>5. LinkTyped' /\ PhraseIsOnScreen'
        BY <1>1, <2>1, <2>2 DEF LinkInv, LinkTyped, PhraseIsOnScreen
    <2> QED BY <2>2, <2>4, <2>5 DEF LinkInv
<1>3. CASE job[j].ticket = generation
    <2> DEFINE next == IF job[j].kind = "pair" THEN "connecting" ELSE "over"
    <2>1. /\ job[j].stage = "creating" /\ provider' = j
          /\ account' = [account EXCEPT ![j] = kept] /\ Advance(j, next)
          /\ IF job[j].kind = "restore" /\ kept # NoLink THEN SetSession(j, Linked(kept))
             ELSE crossed' = (crossed \/ job[j].page # page) /\ UNCHANGED <<session, listening>>
          /\ UNCHANGED <<page, vault, unlocked, generation, kept>>
        BY <1>3 DEF ProviderCreated
    <2>2. Current(j)
        BY <1>3, <2>1 DEF Current
    <2>3. /\ TicketInv' /\ ResultInv' /\ job' \in [Jobs -> JobRecord]
          /\ \A i \in Jobs : Current(i)' => Current(i)
          /\ \A i \in Jobs : Current(i)' => job'[i].page = job[i].page
          /\ \A i \in Jobs \ {j} : job'[i] = job[i]
          /\ job'[j].stage = next
        BY <2>1, <2>2, AdvanceKeepsTickets DEF Stages
    <2>4. account' \in [Jobs -> Links \union {NoLink}] /\ account'[j] = kept
        BY <1>1, <2>1 DEF LinkTyped
    <2>5. CASE job[j].kind = "restore" /\ kept # NoLink
        <3>1. kept \in Links /\ SetSession(j, Linked(kept))
            BY <1>1, <2>1, <2>5 DEF LinkTyped
        <3>2. \A i \in Jobs : Current(i)' => Current(i) /\ i # j
            BY <2>3, <2>5 DEF Current
        <3>3. SessionInv'
            BY <1>1, <2>1, <2>2, <2>3, <2>4, <3>1, <3>2, LinkedKeepsSessionInv
        <3>4. PhraseIsOnScreen'
            BY <2>1, <3>1, SetSessionKeepsPhrase
        <3>5. session' \in Sessions /\ listening' \in Jobs \union {NoJob} /\ crossed' \in BOOLEAN
            BY <1>1, <2>1, <3>1, SessionKinds DEF SetSession, LinkTyped
        <3> QED BY <1>1, <2>1, <2>3, <2>4, <3>3, <3>4, <3>5 DEF LinkInv, LinkTyped
    <2>6. CASE ~(job[j].kind = "restore" /\ kept # NoLink)
        <3>1. crossed' = (crossed \/ job[j].page # page) /\ UNCHANGED <<session, listening>>
            BY <2>1, <2>6
        <3>2. SessionInv'
            <4>1. CASE crossed' \/ session.kind # "walletconnect"
                BY <3>1, <4>1 DEF LinkInv, SessionInv
            <4>2. CASE ~crossed' /\ session.kind = "walletconnect"
                BY <2>1, <2>2, <3>1, <4>2 DEF LinkInv, SessionInv
            <4> QED BY <4>1, <4>2
        <3>3. PhraseIsOnScreen' /\ crossed' \in BOOLEAN
            BY <1>1, <2>1, <3>1 DEF LinkInv, PhraseIsOnScreen, LinkTyped
        <3> QED BY <1>1, <2>1, <2>3, <2>4, <3>1, <3>2, <3>3 DEF LinkInv, LinkTyped
    <2> QED BY <2>5, <2>6
<1> QED BY <1>2, <1>3

\* The phone's answer opens a session only through the provider that will sign.
LEMMA PhoneApprovesKeepsInv ==
    ASSUME LinkInv, NEW j \in Jobs, NEW l \in Links, PhoneApproves(j, l) PROVE LinkInv'
<1>1. LinkTyped /\ NoJob \notin Jobs
    BY NamesAssumption DEF LinkInv
<1>2. /\ job[j].stage = "connecting" /\ kept' = l /\ account' = [account EXCEPT ![j] = l]
      /\ Advance(j, "over")
      /\ UNCHANGED <<page, vault, unlocked, provider, generation>>
    BY DEF PhoneApproves
<1>3. /\ TicketInv' /\ ResultInv' /\ job' \in [Jobs -> JobRecord]
      /\ \A i \in Jobs : Current(i)' => Current(i)
      /\ \A i \in Jobs : Current(i)' => job'[i].page = job[i].page
      /\ \A i \in Jobs \ {j} : job'[i] = job[i]
      /\ job'[j].stage = "over"
    BY <1>2, AdvanceKeepsTickets DEF Stages
<1>4. account' \in [Jobs -> Links \union {NoLink}] /\ account'[j] = l
      /\ \A i \in Jobs \ {j} : account'[i] = account[i]
    BY <1>1, <1>2 DEF LinkTyped
<1>5. CASE job[j].ticket = generation /\ job[j].page = page
    <2>1. SetSession(j, Linked(l)) /\ Current(j) /\ provider' = j
        BY <1>2, <1>5 DEF PhoneApproves, Current, LinkInv, TicketInv
    <2>2. \A i \in Jobs : Current(i)' => Current(i) /\ i # j
        BY <1>3 DEF Current
    <2>3. SessionInv'
        BY <1>1, <1>2, <1>3, <1>4, <2>1, <2>2, LinkedKeepsSessionInv
    <2>4. PhraseIsOnScreen'
        BY <1>2, <2>1, SetSessionKeepsPhrase
    <2>5. session' \in Sessions /\ listening' \in Jobs \union {NoJob} /\ crossed' \in BOOLEAN
        BY <1>1, <2>1, SessionKinds DEF SetSession, LinkTyped
    <2> QED BY <1>1, <1>2, <1>3, <1>4, <2>3, <2>4, <2>5 DEF LinkInv, LinkTyped
<1>6. CASE ~(job[j].ticket = generation /\ job[j].page = page)
    <2>1. /\ session' = IF listening = j THEN Linked(l) ELSE session
          /\ UNCHANGED <<listening, crossed>>
        BY <1>6 DEF PhoneApproves
    <2>2. listening = j => session.kind = "walletconnect"
        BY <1>1 DEF LinkInv, SessionInv
    <2>3. \A i \in Jobs : Current(i)' /\ job'[i].stage # "connecting" =>
                              Current(i) /\ job[i].stage # "connecting"
        BY <1>3 DEF Current
    <2>4. SessionInv'
        <3>1. CASE listening = j
            BY <1>2, <1>3, <1>4, <2>1, <2>2, <2>3, <3>1, SessionKinds DEF LinkInv, SessionInv
        <3>2. CASE listening # j
            BY <1>2, <1>3, <1>4, <2>1, <2>3, <3>2 DEF LinkInv, SessionInv, LinkTyped
        <3> QED BY <3>1, <3>2
    <2>5. PhraseIsOnScreen'
        <3>1. session.kind = "walletconnect" => session # Local(unlocked)
            BY DEF Local
        <3> QED BY <1>2, <2>1, <2>2, <3>1 DEF LinkInv, PhraseIsOnScreen
    <2>6. session' \in Sessions
        BY <1>1, <2>1, SessionKinds DEF LinkTyped
    <2> QED BY <1>1, <1>2, <1>3, <1>4, <2>1, <2>4, <2>5, <2>6 DEF LinkInv, LinkTyped
<1> QED BY <1>5, <1>6

\* What the phone does to a link it has, and what needs no attempt.
LEMMA OthersKeepInv ==
    ASSUME LinkInv,
           \/ ProjectIdArrives \/ AddWatch \/ SwitchAccount \/ CancelPairing
           \/ Lock \/ AutoLock \/ Unlink \/ PhoneDisconnects
           \/ \E l \in Links : AccountsChanged(l)
           \/ UNCHANGED linkVars
    PROVE  LinkInv'
<1>1. LinkTyped /\ NoJob \notin Jobs
    BY NamesAssumption DEF LinkInv
<1>2. CASE ProjectIdArrives \/ UNCHANGED linkVars
    <2>1. UNCHANGED <<page, session, listening, vault, unlocked, provider, generation,
                      account, kept, job, crossed>>
        BY <1>2 DEF ProjectIdArrives, linkVars, onPage, memory
    <2> QED BY <2>1 DEF LinkInv, LinkTyped, ResultInv, TicketInv, Current, SessionInv,
               PhraseIsOnScreen
<1>3. CASE AddWatch
    <2>1. /\ session = NoSession /\ session' = Other("watch")
          /\ UNCHANGED <<page, listening, vault, unlocked, provider, generation,
                         account, kept, job, crossed>>
        BY <1>3 DEF AddWatch, memory
    <2>2. listening = NoJob /\ session # Local(unlocked)
        BY <2>1, UnlinkedSession DEF NoSession, Local
    <2>3. SessionInv' /\ PhraseIsOnScreen'
        BY <2>1, <2>2, SessionKinds DEF LinkInv, SessionInv, PhraseIsOnScreen
    <2> QED BY <1>1, <2>1, <2>3, SameTickets, SessionKinds DEF LinkInv, LinkTyped
<1>4. CASE SwitchAccount
    <2>1. /\ session.kind = "local" /\ unlocked # NoPhrase /\ session' = Local(unlocked)
          /\ UNCHANGED <<page, listening, vault, unlocked, provider, generation,
                         account, kept, job, crossed>>
        BY <1>4 DEF SwitchAccount, memory
    <2>2. listening = NoJob /\ unlocked \in Phrases
        BY <1>1, <2>1, UnlinkedSession DEF LinkTyped
    <2>3. SessionInv' /\ PhraseIsOnScreen'
        BY <2>1, <2>2, SessionKinds DEF SessionInv, PhraseIsOnScreen
    <2> QED BY <1>1, <2>1, <2>2, <2>3, SameTickets, SessionKinds DEF LinkInv, LinkTyped
<1>5. CASE CancelPairing
    <2>1. /\ session = NoSession /\ DropProvider /\ generation' = generation + 1
          /\ UNCHANGED <<page, session, listening, vault, unlocked, job, crossed>>
        BY <1>5 DEF CancelPairing, DropProvider
    <2>2. listening = NoJob
        BY <2>1, UnlinkedSession, SessionKinds
    <2>3. SessionInv' /\ PhraseIsOnScreen'
        BY <2>1, <2>2, SessionKinds DEF LinkInv, SessionInv, PhraseIsOnScreen
    <2>4. LinkTyped'
        BY <1>1, <2>1, DropTyped DEF LinkTyped, DropProvider
    <2> QED BY <2>1, <2>3, <2>4, NewGeneration DEF LinkInv
<1>6. CASE Lock
    <2>1. account \in [Jobs -> Links \union {NoLink}] /\ kept \in Links \union {NoLink}
        BY <1>1 DEF LinkTyped
    <2> QED BY <1>6, <2>1, ClosingKeepsInv DEF Lock
<1>7. CASE AutoLock
    <2>1. account \in [Jobs -> Links \union {NoLink}] /\ kept \in Links \union {NoLink}
        BY <1>1 DEF LinkTyped
    <2>2. listening = NoJob
        BY <1>7, UnlinkedSession DEF AutoLock
    <2> QED BY <1>7, <2>1, <2>2, ClosingKeepsInv DEF AutoLock
<1>8. CASE Unlink
    BY <1>1, <1>8, ClosingKeepsInv DEF Unlink, LinkTyped
<1>9. CASE PhoneDisconnects
    <2>1. session.kind = "walletconnect"
        BY <1>9 DEF PhoneDisconnects, LinkInv, SessionInv
    <2>2. account' \in [Jobs -> Links \union {NoLink}]
        BY <1>1, <1>9 DEF PhoneDisconnects, LinkTyped
    <2> QED BY <1>1, <1>9, <2>1, <2>2, ClosingKeepsInv DEF PhoneDisconnects, LinkTyped
<1>10. ASSUME NEW l \in Links, AccountsChanged(l) PROVE LinkInv'
    <2>1. /\ listening # NoJob /\ session' = Linked(l) /\ kept' = l
          /\ account' = [i \in Jobs |-> IF account[i] = account[listening] THEN l
                                        ELSE account[i]]
          /\ UNCHANGED <<page, listening, vault, unlocked, provider, generation, job, crossed>>
        BY <1>10 DEF AccountsChanged
    <2>2. session.kind = "walletconnect" /\ listening \in Jobs
        BY <1>1, <2>1 DEF LinkInv, SessionInv, LinkTyped
    <2>3. account'[listening] = l
        BY <2>1, <2>2
    <2>4. SessionInv'
        BY <2>1, <2>2, <2>3, SessionKinds, SameTickets DEF LinkInv, SessionInv
    <2>5. session # Local(unlocked)
        BY <2>2 DEF Local
    <2>6. PhraseIsOnScreen'
        BY <2>1, <2>5 DEF LinkInv, PhraseIsOnScreen
    <2>7. LinkTyped'
        BY <1>1, <2>1, SessionKinds DEF LinkTyped
    <2> QED BY <2>1, <2>4, <2>6, <2>7, SameTickets DEF LinkInv
<1> QED BY <1>2, <1>3, <1>4, <1>5, <1>6, <1>7, <1>8, <1>9, <1>10

LEMMA LinkInvInductive == LinkInv /\ [LinkNext]_linkVars => LinkInv'
<1> SUFFICES ASSUME LinkInv, [LinkNext]_linkVars PROVE LinkInv'
    OBVIOUS
<1>1. ASSUME NEW j \in Jobs, StartUnlock(j) PROVE LinkInv'
    <2>1. vault \in Phrases
        BY <1>1 DEF StartUnlock, LinkInv, LinkTyped
    <2> QED BY <1>1, <2>1, BeginKeepsInv, SessionKinds DEF StartUnlock, Kinds
<1>2. ASSUME NEW j \in Jobs, NEW p \in Phrases, StartSeal(j, p) PROVE LinkInv'
    BY <1>2, BeginKeepsInv, SessionKinds DEF StartSeal, Kinds
<1>3. ASSUME NEW j \in Jobs, NEW kind \in {"injected", "metamask"}, StartAsking(j, kind)
      PROVE  LinkInv'
    BY <1>3, BeginKeepsInv, SessionKinds DEF StartAsking, Kinds
<1>4. ASSUME NEW j \in Jobs,
             \/ Open(j) \/ Reload(j) \/ StartPairing(j) \/ KeyDerived(j) \/ WalletAnswers(j)
             \/ AttemptFails(j) \/ PreviousLeft(j) \/ ProviderCreated(j) \/ PairingFails(j)
             \/ \E l \in Links : PhoneApproves(j, l)
      PROVE  LinkInv'
    BY <1>4, OpenKeepsInv, StartPairingKeepsInv, KeyDerivedKeepsInv, WalletAnswersKeepsInv,
       QuietAttemptKeepsInv, ProviderCreatedKeepsInv, PhoneApprovesKeepsInv
<1> QED BY <1>1, <1>2, <1>3, <1>4, OthersKeepInv DEF LinkNext

LEMMA LinkInitInv == LinkInit => LinkInv
<1> SUFFICES ASSUME LinkInit PROVE LinkInv
    OBVIOUS
<1>1. NewJob \in JobRecord
    BY SessionKinds DEF NewJob, JobRecord, Kinds, Stages
<1>2. \A j \in Jobs : job[j] = NewJob
    BY DEF LinkInit
<1>3. LinkTyped
    BY <1>1, SessionKinds DEF LinkInit, LinkTyped
<1>4. ResultInv /\ TicketInv
    BY <1>2 DEF NewJob, ResultInv, TicketInv, Current, LinkInit
<1>5. SessionInv /\ PhraseIsOnScreen
    BY SessionKinds DEF LinkInit, SessionInv, PhraseIsOnScreen
<1> QED BY <1>3, <1>4, <1>5 DEF LinkInv

\* The phrase in memory is that of the session on screen, for any number of attempts
\* to open a session and any order in which they end.
THEOREM PhraseFollowsSession == LinkSpec => []PhraseIsOnScreen
<1>1. LinkInv => PhraseIsOnScreen
    BY DEF LinkInv
<1> QED BY <1>1, LinkInitInv, LinkInvInductive, PTL DEF LinkSpec

\* The generation count of wallet-connect.ts does its work: no cancelled, overtaken or
\* disconnected pairing leaves a linked session without the provider that signs for it.
THEOREM TicketsGuardProvider == LinkSpec => []LinkedSessionSigns
<1>1. LinkInv => LinkedSessionSigns
    <2> SUFFICES ASSUME LinkInv, session.kind = "walletconnect", ~crossed
                 PROVE  provider # NoJob /\ account[provider] = session.of
        BY DEF LinkedSessionSigns
    <2> QED BY DEF LinkInv, SessionInv
<1> QED BY <1>1, LinkInitInv, LinkInvInductive, PTL DEF LinkSpec

-----------------------------------------------------------------------------
(* DashboardReads: the read asked for last *)

ReadRecords ==
    [n : 1 .. MaxReads, of : 1 .. MaxClients, what : Queries, from : 0 .. MaxMade,
     again : BOOLEAN, cancelled : BOOLEAN]

Creations ==
    [click : 1 .. MaxMade, of : 1 .. MaxClients, what : Queries, thing : 0 .. MaxMade]

\* Reads are numbered as they are asked for, and where a page cancels, all but the
\* last have been cancelled: none overtakes another.  The last is never cancelled.
LastRead ==
    /\ onScreen.n <= numbered /\ refused <= numbered
    /\ \A r \in reads : /\ r.n <= numbered
                        /\ r.cancelled => r.n # numbered
                        /\ readPage \in Cancelling /\ ~r.cancelled => r.n = numbered
    /\ readPage \in Cancelling => "overtaken" \notin mixedUp

\* The last read is still to be answered, or was answered or refused.
LastAccounted ==
    \/ \E r \in reads : r.n = numbered
    \/ onScreen.n = numbered \/ refused = numbered \/ "overtaken" \in mixedUp

\* Nothing is told of before it is made, and a page that cancels creates nothing.
MadeInOrder ==
    /\ creating # {} => readPage \in Creating
    /\ told <= made /\ \A c \in creating : c.thing <= made

\* The last read was asked for after all that has been told of, by this connection
\* unless it follows a creation of a former one.
LastIsCurrent ==
    /\ \A r \in reads : r.n = numbered => /\ r.from >= told
                                          /\ "former" \in mixedUp \/ r.of = client
    /\ onScreen.n = numbered => /\ onScreen.seen >= told
                                /\ "former" \in mixedUp \/ onScreen.of = client

ReadsInv == ReadsTypeOK /\ LastRead /\ LastAccounted /\ MadeInOrder /\ LastIsCurrent

LEMMA PagesApart == Cancelling \intersect Creating = {} /\ "verifications" \notin Cancelling
    BY DEF Cancelling, Creating

LEMMA ReadsTyped ==
    ASSUME ReadsTypeOK
    PROVE  /\ numbered \in Nat /\ made \in Nat /\ client \in Nat /\ told \in Nat
           /\ refused \in Nat /\ onScreen.n \in Nat /\ onScreen.seen \in Nat
           /\ \A r \in reads : /\ r.n \in Nat /\ r.of \in 1 .. MaxClients /\ r.from \in Nat
                               /\ r.n \in 1 .. MaxReads /\ r.from \in 0 .. MaxMade
                               /\ r.what \in Queries /\ r.cancelled \in BOOLEAN
           /\ \A c \in creating : /\ c.of \in 1 .. MaxClients /\ c.thing \in 0 .. MaxMade
                                  /\ c.thing \in Nat /\ c.what \in Queries
    BY ReadsAssumption DEF ReadsTypeOK

\* Another read, whatever asks for it, and whichever of the older ones it cancels: of
\* this connection unless it is said to be a former one's.
LEMMA AskingKeepsInv ==
    ASSUME ReadsInv, numbered < MaxReads, numbered' = numbered + 1,
           NEW c \in 1 .. MaxClients, NEW what \in Queries, NEW again \in BOOLEAN,
           NEW old \in SUBSET ReadRecords,
           \A r \in old : r.n <= numbered,
           readPage \in Cancelling => \A r \in old : r.cancelled,
           reads' = old \union {Read(c, what, again)},
           client' \in 1 .. MaxClients, creating' \subseteq creating,
           mixedUp' \subseteq mixedUp \union {"former"},
           "former" \notin mixedUp' => c = client',
           told' \in 0 .. MaxMade, told' <= made,
           UNCHANGED <<readPage, query, clicks, made, refused, onScreen>>
    PROVE  ReadsInv'
<1>1. ReadsTypeOK /\ LastRead /\ MadeInOrder
    BY DEF ReadsInv
<1>2. /\ numbered \in Nat /\ numbered' \in 0 .. MaxReads /\ numbered + 1 \in 1 .. MaxReads
      /\ onScreen.n \in Nat /\ refused \in Nat /\ made \in 0 .. MaxMade /\ made \in Nat
    BY <1>1, ReadsTyped, ReadsAssumption DEF ReadsTypeOK
<1> DEFINE fresh == Read(c, what, again)
<1>3. /\ fresh \in ReadRecords
      /\ fresh.n = numbered' /\ fresh.of = c /\ fresh.from = made
      /\ fresh.cancelled = FALSE
    BY <1>2 DEF Read, ReadRecords
<1> HIDE DEF fresh
<1>4. reads' = old \union {fresh}
    BY DEF fresh
<1>5. \A r \in old : r.n \in Nat /\ r.n # numbered'
    BY <1>2 DEF ReadRecords
<1>6. ReadsTypeOK'
    <2>1. mixedUp' \subseteq {"overtaken", "former"}
        BY <1>1 DEF ReadsTypeOK
    <2>2. creating' \subseteq Creations
        BY <1>1 DEF ReadsTypeOK, Creations
    <2> QED BY <1>1, <1>2, <1>3, <1>4, <2>1, <2>2 DEF ReadsTypeOK, ReadRecords, Creations
<1>7. LastRead'
    BY <1>1, <1>2, <1>3, <1>4, <1>5 DEF LastRead
<1>8. MadeInOrder' /\ LastAccounted'
    BY <1>1, <1>3, <1>4 DEF MadeInOrder, LastAccounted
<1>9. LastIsCurrent'
    <2>1. onScreen.n # numbered'
        BY <1>1, <1>2 DEF LastRead
    <2>2. made >= told'
        BY <1>2
    <2> QED BY <1>3, <1>4, <1>5, <2>1, <2>2 DEF LastIsCurrent
<1> QED BY <1>6, <1>7, <1>8, <1>9 DEF ReadsInv

LEMMA AnswerKeepsInv ==
    ASSUME ReadsInv, NEW r \in reads, NEW seen \in r.from .. made, ReadAnswered(r, seen)
    PROVE  ReadsInv'
<1>1. ReadsTypeOK /\ LastRead /\ LastAccounted /\ MadeInOrder /\ LastIsCurrent
    BY DEF ReadsInv
<1>2. /\ reads' = reads \ {r}
      /\ UNCHANGED <<readPage, client, query, clicks, made, creating, numbered, refused, told>>
    BY DEF ReadAnswered
<1>3. CASE r.cancelled
    <2>1. UNCHANGED <<onScreen, mixedUp>> /\ r.n # numbered
        BY <1>1, <1>3 DEF ReadAnswered, LastRead
    <2>2. LastAccounted'
        BY <1>1, <1>2, <2>1 DEF LastAccounted
    <2> QED BY <1>1, <1>2, <2>1, <2>2
            DEF ReadsInv, ReadsTypeOK, LastRead, MadeInOrder, LastIsCurrent
<1>4. CASE ~r.cancelled
    <2>1. /\ onScreen' = [n |-> r.n, of |-> r.of, what |-> r.what, seen |-> seen]
          /\ mixedUp' = mixedUp \union {h \in {"overtaken"} : r.n < onScreen.n}
        BY <1>4 DEF ReadAnswered
    <2>2. /\ r.n \in 1 .. MaxReads /\ r.of \in 1 .. MaxClients /\ r.from \in Nat
          /\ r.what \in Queries /\ r.n <= numbered
          /\ made \in 0 .. MaxMade /\ numbered \in Nat /\ onScreen.n \in Nat
          /\ told \in Nat /\ onScreen.n <= numbered
        BY <1>1, ReadsTyped DEF ReadsTypeOK, LastRead
    <2>3. seen \in 0 .. MaxMade /\ seen >= r.from /\ r.n \in 0 .. MaxReads
        BY <2>2, ReadsAssumption
    <2>4. onScreen' \in [n : 0 .. MaxReads, of : 1 .. MaxClients, what : Queries,
                         seen : 0 .. MaxMade]
        BY <2>1, <2>2, <2>3
    <2>5. onScreen'.n = r.n /\ onScreen'.of = r.of /\ onScreen'.seen = seen
        BY <2>1
    <2>6. mixedUp' \subseteq {"overtaken", "former"}
        BY <1>1, <2>1 DEF ReadsTypeOK
    <2>7. ReadsTypeOK'
        BY <1>1, <1>2, <2>4, <2>6 DEF ReadsTypeOK
    <2>8. readPage \in Cancelling => mixedUp' = mixedUp
        BY <1>1, <1>4, <2>1, <2>2 DEF LastRead
    <2>9. LastRead'
        BY <1>1, <1>2, <2>5, <2>8 DEF LastRead
    <2>10. LastIsCurrent'
        BY <1>1, <1>2, <2>1, <2>2, <2>3, <2>5 DEF LastIsCurrent
    <2>11. LastAccounted'
        <3>1. CASE r.n = numbered
            BY <1>2, <2>5, <3>1 DEF LastAccounted
        <3>2. CASE r.n # numbered /\ onScreen.n = numbered
            BY <2>1, <2>2, <3>2 DEF LastAccounted
        <3>3. CASE r.n # numbered /\ onScreen.n # numbered
            BY <1>1, <1>2, <2>1, <3>3 DEF LastAccounted
        <3> QED BY <3>1, <3>2, <3>3
    <2> QED BY <1>1, <1>2, <2>7, <2>9, <2>10, <2>11 DEF ReadsInv, MadeInOrder
<1> QED BY <1>3, <1>4

LEMMA RefusalKeepsInv ==
    ASSUME ReadsInv, NEW r \in reads, ReadRefused(r)
    PROVE  ReadsInv'
<1>1. ReadsTypeOK /\ LastRead /\ LastAccounted /\ MadeInOrder /\ LastIsCurrent
    BY DEF ReadsInv
<1>2. /\ reads' = reads \ {r}
      /\ refused' = IF r.n > refused THEN r.n ELSE refused
      /\ UNCHANGED <<readPage, client, query, clicks, made, creating, numbered, onScreen,
                     told, mixedUp>>
    BY DEF ReadRefused
<1>3. /\ r.n \in 1 .. MaxReads /\ r.n \in Nat /\ refused \in Nat /\ numbered \in Nat
      /\ refused \in 0 .. MaxReads /\ r.n <= numbered /\ refused <= numbered
    BY <1>1, ReadsTyped DEF ReadsTypeOK, LastRead
<1>4. refused' \in 0 .. MaxReads /\ refused' <= numbered
    BY <1>2, <1>3
<1>5. ReadsTypeOK'
    BY <1>1, <1>2, <1>4 DEF ReadsTypeOK
<1>6. (refused = numbered => refused' = numbered) /\ (r.n = numbered => refused' = numbered)
    BY <1>2, <1>3
<1>7. LastAccounted'
    BY <1>1, <1>2, <1>6 DEF LastAccounted
<1> QED BY <1>1, <1>2, <1>4, <1>5, <1>7 DEF ReadsInv, LastRead, MadeInOrder, LastIsCurrent

LEMMA ReadsInvInductive == ReadsInv /\ [ReadsNext]_readVars => ReadsInv'
<1> SUFFICES ASSUME ReadsInv, [ReadsNext]_readVars PROVE ReadsInv'
    OBVIOUS
<1>1. /\ ReadsTypeOK /\ LastRead /\ MadeInOrder
      /\ reads \in SUBSET ReadRecords
      /\ made \in 0 .. MaxMade /\ client \in 1 .. MaxClients /\ query \in Queries
      /\ told \in 0 .. MaxMade /\ told <= made
      /\ \A r \in reads : r.n <= numbered
    BY DEF ReadsInv, ReadsTypeOK, ReadRecords, LastRead, MadeInOrder
<1>2. CASE Reconnect
    <2>1. /\ client < MaxClients /\ numbered < MaxReads
          /\ client' = client + 1 /\ numbered' = numbered + 1
          /\ reads' = Cleanup \union {Read(client', "all", FALSE)}
          /\ mixedUp' = mixedUp \ {"former"}
          /\ UNCHANGED <<readPage, query, clicks, made, creating, refused, onScreen, told>>
        BY <1>2 DEF Reconnect
    <2>2. client' \in 1 .. MaxClients
        BY <1>1, <2>1, ReadsAssumption
    <2>3. /\ Cleanup \in SUBSET ReadRecords
          /\ \A r \in Cleanup : r.n <= numbered
          /\ readPage \in Cancelling => \A r \in Cleanup : r.cancelled
        BY <1>1 DEF Cleanup, ReadRecords
    <2>4. "all" \in Queries /\ FALSE \in BOOLEAN
        BY DEF Queries
    <2> QED BY <1>1, <2>1, <2>2, <2>3, <2>4, AskingKeepsInv
<1>3. CASE Search
    <2>1. /\ numbered < MaxReads /\ numbered' = numbered + 1
          /\ reads' = reads \union {Read(client, query, FALSE)}
          /\ mixedUp' = mixedUp \ {"former"}
          /\ UNCHANGED <<readPage, client, query, clicks, made, creating, refused, onScreen,
                         told>>
        BY <1>3 DEF Search
    <2>2. readPage \notin Cancelling
        BY <1>3, PagesApart DEF Search
    <2> QED BY <1>1, <2>1, <2>2, AskingKeepsInv
<1>4. ASSUME NEW c \in creating, Created(c) PROVE ReadsInv'
    <2>1. /\ numbered < MaxReads /\ creating' = creating \ {c} /\ numbered' = numbered + 1
          /\ reads' = reads \union {Read(c.of, c.what, TRUE)}
          /\ told' = IF c.thing > told THEN c.thing ELSE told
          /\ mixedUp' = (mixedUp \ {"former"}) \union {h \in {"former"} : c.of # client}
          /\ UNCHANGED <<readPage, client, query, clicks, made, refused, onScreen>>
        BY <1>4 DEF Created
    <2>2. readPage \notin Cancelling
        BY <1>1, PagesApart DEF MadeInOrder
    <2>3. /\ c.of \in 1 .. MaxClients /\ c.thing \in 0 .. MaxMade /\ c.what \in Queries
          /\ c.thing <= made
        BY <1>1, ReadsTyped DEF MadeInOrder
    <2>4. told' \in 0 .. MaxMade /\ told' <= made
        BY <1>1, <2>1, <2>3
    <2>5. "former" \notin mixedUp' => c.of = client'
        BY <2>1
    <2>6. mixedUp' \subseteq mixedUp \union {"former"}
        BY <2>1
    <2> QED BY <1>1, <2>1, <2>2, <2>3, <2>4, <2>5, <2>6, AskingKeepsInv
<1>5. ASSUME NEW r \in reads, NEW seen \in r.from .. made, ReadAnswered(r, seen)
      PROVE  ReadsInv'
    BY <1>5, AnswerKeepsInv
<1>6. ASSUME NEW r \in reads, ReadRefused(r) PROVE ReadsInv'
    BY <1>6, RefusalKeepsInv
<1>7. CASE Create
    <2> DEFINE new == [click |-> clicks', of |-> client, what |-> query, thing |-> 0]
    <2>1. /\ readPage \in Creating /\ clicks < MaxMade /\ clicks' = clicks + 1
          /\ creating' = creating \union {new}
          /\ UNCHANGED <<readPage, client, query, made, reads, numbered, refused, onScreen,
                         told, mixedUp>>
        BY <1>7 DEF Create
    <2>2. clicks' \in 1 .. MaxMade /\ clicks' \in 0 .. MaxMade /\ 0 \in 0 .. MaxMade
        BY <1>1, <2>1, ReadsAssumption DEF ReadsTypeOK
    <2>3. new \in Creations /\ new.thing = 0
        BY <1>1, <2>2 DEF Creations
    <2> HIDE DEF new
    <2>4. ReadsTypeOK'
        BY <1>1, <2>1, <2>2, <2>3 DEF ReadsTypeOK, Creations
    <2>5. MadeInOrder'
        BY <1>1, <2>1, <2>3, ReadsTyped DEF MadeInOrder
    <2> QED BY <2>1, <2>4, <2>5 DEF ReadsInv, LastRead, LastAccounted, LastIsCurrent
<1>8. ASSUME NEW c \in creating, Made(c) PROVE ReadsInv'
    <2> DEFINE new == [c EXCEPT !.thing = made']
    <2>1. /\ made < MaxMade /\ made' = made + 1 /\ creating' = (creating \ {c}) \union {new}
          /\ UNCHANGED <<readPage, client, query, clicks, reads, numbered, refused, onScreen,
                         told, mixedUp>>
        BY <1>8 DEF Made
    <2>2. made \in Nat /\ made' \in 0 .. MaxMade
        BY <1>1, <2>1, ReadsAssumption
    <2>3. creating \subseteq Creations
        BY <1>1 DEF ReadsTypeOK, Creations
    <2>4. new \in Creations /\ new.thing = made'
        BY <2>2, <2>3 DEF Creations
    <2> HIDE DEF new
    <2>5. ReadsTypeOK'
        BY <1>1, <2>1, <2>2, <2>3, <2>4 DEF ReadsTypeOK, Creations
    <2>6. MadeInOrder'
        BY <1>1, <2>1, <2>2, <2>4, ReadsTyped DEF MadeInOrder
    <2> QED BY <2>1, <2>5, <2>6 DEF ReadsInv, LastRead, LastAccounted, LastIsCurrent
<1>9. ASSUME NEW c \in creating, CreationRefused(c) PROVE ReadsInv'
    BY <1>9 DEF CreationRefused, ReadsInv, ReadsTypeOK, LastRead, LastAccounted, MadeInOrder,
                LastIsCurrent
<1>10. CASE TypeQuery
    BY <1>10 DEF TypeQuery, ReadsInv, ReadsTypeOK, LastRead, LastAccounted, MadeInOrder,
                 LastIsCurrent
<1>11. CASE UNCHANGED readVars
    BY <1>11 DEF readVars, ReadsInv, ReadsTypeOK, LastRead, LastAccounted, MadeInOrder,
                 LastIsCurrent
<1> QED BY <1>2, <1>3, <1>4, <1>5, <1>6, <1>7, <1>8, <1>9, <1>10, <1>11 DEF ReadsNext

LEMMA ReadsInitInv == ReadsInit => ReadsInv
<1> SUFFICES ASSUME ReadsInit PROVE ReadsInv
    OBVIOUS
<1>1. /\ 1 \in 0 .. MaxReads /\ 1 \in 1 .. MaxReads /\ 0 \in 0 .. MaxReads
      /\ 1 \in 1 .. MaxClients /\ 0 \in 0 .. MaxMade /\ "all" \in Queries
    BY ReadsAssumption DEF Queries
<1>2. onScreen \in [n : 0 .. MaxReads, of : 1 .. MaxClients, what : Queries,
                    seen : 0 .. MaxMade]
    BY <1>1 DEF ReadsInit, Blank
<1>3. reads \subseteq [n : 1 .. MaxReads, of : 1 .. MaxClients, what : Queries,
                       from : 0 .. MaxMade, again : BOOLEAN, cancelled : BOOLEAN]
    BY <1>1 DEF ReadsInit
<1>4. ReadsTypeOK
    BY <1>1, <1>2, <1>3 DEF ReadsInit, ReadsTypeOK
<1>5. LastRead /\ LastAccounted /\ MadeInOrder /\ LastIsCurrent
    BY DEF ReadsInit, Blank, LastRead, LastAccounted, MadeInOrder, LastIsCurrent
<1> QED BY <1>4, <1>5 DEF ReadsInv

\* What a page shows of the read asked for last is this connection's, unless a creation
\* clicked under a former one asked, and lists all that is known to have been created,
\* unless it is a search; with nothing awaited it is the last read's, unless that was
\* refused or overtaken, which no page that cancels allows: for any number of reads,
\* connections and creations under way at once.
THEOREM LastReadIsShown == ReadsSpec => []LastAskedIsShown
<1>1. ReadsInv => LastAskedIsShown
    BY DEF ReadsInv, LastRead, LastAccounted, LastIsCurrent, LastAskedIsShown
<1> QED BY <1>1, ReadsInitInv, ReadsInvInductive, PTL DEF ReadsSpec

-----------------------------------------------------------------------------
(* AdminLists: what is saved, what is on screen and what a request carries *)

Requests == [what : {"role", "usage"}, tab : Tabs, of : Scopes, seats : Lists,
             mounted : BOOLEAN, who : Entries \union {"nobody"}, mark : Marks]

\* What a list holds beyond what a page puts there by itself.
Own(list) == {i \in list : i[1] \in Entries}
OwnLists == SUBSET (Entries \X Marks)

\* A request after the page of tab t is left.
LeftAlone(t, q) == IF q.tab = t THEN [q EXCEPT !.mounted = FALSE] ELSE q

\* An answer shows itself only on the page that asked, and a role is an entry's.
AskersShown ==
    \A q \in awaited :
        /\ q.mounted => opened[q.tab] = IF q.what = "role" THEN "seats" ELSE "notices"
        /\ q.what = "role" => q.who \in Entries

\* As long as nothing has clashed, storage, the open pages and the seats a request
\* carries hold what was saved, no list is open twice, one role is asked for at a time
\* in a scope, and only by the page that shows its seats.
Settled ==
    /\ \A s \in Scopes, k \in ListKinds : Own(stored[s][k]) = saved[s][k]
    /\ \A t \in Tabs : opened[t] # "none" => Own(copy[t]) = saved[scope[t]][opened[t]]
    /\ \A t, u \in Tabs : t # u /\ opened[t] # "none" /\ scope[t] = scope[u]
                             => opened[u] \notin Touching(opened[t])
    /\ \A q \in awaited : q.mounted => scope[q.tab] = q.of
    /\ \A q \in awaited : q.what = "role" =>
        /\ Own(q.seats) = saved[q.of]["seats"]
        /\ \A t \in Tabs : opened[t] = "seats" /\ scope[t] = q.of => q.mounted /\ q.tab = t
        /\ \A p \in awaited : p.what = "role" /\ p.of = q.of => p = q

ListsInv == ListsTypeOK /\ AskersShown /\ (~clashed => Settled)

LEMMA TouchingIsMutual ==
    /\ \A j, k \in ListKinds : j \in Touching(k) <=> k \in Touching(j)
    /\ \A k \in ListKinds : k \in Touching(k) /\ ("seats" \in Touching(k) <=> k = "seats")
    /\ \A k \in ListKinds : "none" \notin Touching(k)
    BY DEF ListKinds, Touching

LEMMA ListsTyped ==
    ASSUME ListsTypeOK
    PROVE  /\ \A s \in Scopes, k \in ListKinds : stored[s][k] \in Lists /\ saved[s][k] \in OwnLists
           /\ \A t \in Tabs : /\ scope[t] \in Scopes /\ copy[t] \in Lists
                              /\ opened[t] \in ListKinds \union {"none"}
           /\ awaited \in SUBSET Requests
    BY DEF ListsTypeOK, Requests, OwnLists

\* An entry put into a list, taken out of it or read is so in what is its own.
LEMMA EntryPut ==
    ASSUME NEW e \in Entries, NEW m \in Marks, NEW list
    PROVE  /\ Own(PutIn(list, e, m)) = PutIn(Own(list), e, m)
           /\ list \in Lists => PutIn(list, e, m) \in Lists
           /\ list \in OwnLists => PutIn(list, e, m) \in OwnLists
<1>1. <<e, m>>[1] = e /\ <<e, m>> \in Entries \X Marks
    OBVIOUS
<1>2. Own(PutIn(list, e, m)) = PutIn(Own(list), e, m)
    BY <1>1 DEF Own, PutIn, TakenOut
<1>3. list \in Lists => PutIn(list, e, m) \in Lists
    BY DEF PutIn, TakenOut, Lists
<1>4. list \in OwnLists => PutIn(list, e, m) \in OwnLists
    BY DEF PutIn, TakenOut, OwnLists
<1> QED BY <1>2, <1>3, <1>4

LEMMA EntryTakenOut ==
    ASSUME NEW e \in Entries, NEW list
    PROVE  /\ Own(TakenOut(list, e)) = TakenOut(Own(list), e)
           /\ list \in Lists => TakenOut(list, e) \in Lists
           /\ list \in OwnLists => TakenOut(list, e) \in OwnLists
    BY DEF Own, TakenOut, Lists, OwnLists

LEMMA EntriesRead ==
    ASSUME NEW read, NEW list
    PROVE  /\ Own(ReadAll(list, read)) = ReadAll(Own(list), read)
           /\ list \in Lists => ReadAll(list, read) \in Lists
           /\ list \in OwnLists => ReadAll(list, read) \in OwnLists
<1> DEFINE Noted(i) == IF i[1] \in read THEN <<i[1], "changed">> ELSE i
<1>1. \A i : Noted(i)[1] = i[1]
    OBVIOUS
<1>2. \A l : ReadAll(l, read) = {Noted(i) : i \in l}
    BY DEF ReadAll
<1>3. ASSUME NEW names, list \in SUBSET (names \X Marks)
      PROVE  ReadAll(list, read) \in SUBSET (names \X Marks)
    <2>1. \A i \in names \X Marks : i[1] \in names /\ Noted(i) \in names \X Marks
        BY DEF Marks
    <2> HIDE DEF Noted
    <2> QED BY <1>2, <1>3, <2>1
<1>4. Own(ReadAll(list, read)) = ReadAll(Own(list), read)
    <2> HIDE DEF Noted
    <2> QED BY <1>1, <1>2 DEF Own
<1> QED BY <1>3, <1>4 DEF Lists, OwnLists

\* One list of all is written.
LEMMA OneListWritten ==
    ASSUME NEW S, NEW f \in [Scopes -> [ListKinds -> S]], NEW s0 \in Scopes,
           NEW k0 \in ListKinds, NEW list \in S
    PROVE  /\ [f EXCEPT ![s0][k0] = list] \in [Scopes -> [ListKinds -> S]]
           /\ \A s \in Scopes, k \in ListKinds :
                [f EXCEPT ![s0][k0] = list][s][k] = IF s = s0 /\ k = k0 THEN list ELSE f[s][k]
<1> HIDE DEF ListKinds
<1> QED OBVIOUS

\* Storage, the pages and the requests hold what they held, up to the seeds.
LEMMA SameIsSettled ==
    ASSUME ListsTypeOK, Settled, UNCHANGED <<scope, opened, saved>>,
           \A s \in Scopes, k \in ListKinds : Own(stored'[s][k]) = Own(stored[s][k]),
           \A t \in Tabs : opened[t] # "none" => Own(copy'[t]) = Own(copy[t]),
           awaited' \subseteq awaited
    PROVE  Settled'
<1> HIDE DEF Own, ListKinds
<1> QED BY DEF Settled

\* A page saves its own list, and what it knows of the others open stays true.
LEMMA SavingIsSettled ==
    ASSUME ListsTypeOK, Settled, NEW t \in Tabs, opened[t] \in ListKinds,
           opened[t] = "seats" => ~RoleAwaited(scope[t]),
           UNCHANGED <<scope, opened, awaited>>,
           \A u \in Tabs \ {t} : copy'[u] = copy[u],
           Own(copy'[t]) = saved'[scope[t]][opened[t]],
           \A s \in Scopes, k \in ListKinds :
               s # scope[t] \/ k \notin Touching(opened[t]) => saved'[s][k] = saved[s][k],
           \A s \in Scopes, k \in ListKinds : Own(stored'[s][k]) = saved'[s][k]
    PROVE  Settled'
<1>1. /\ \A u \in Tabs : scope[u] \in Scopes /\ opened[u] \in ListKinds \union {"none"}
      /\ \A q \in awaited : q.of \in Scopes
    BY ListsTyped DEF Requests
<1>2. "seats" \in ListKinds
    BY DEF ListKinds
<1>3. ASSUME NEW u \in Tabs, opened[u] # "none"
      PROVE  Own(copy'[u]) = saved'[scope[u]][opened[u]]
    <2>1. CASE u = t
        BY <2>1
    <2>2. CASE u # t
        <3>1. opened[u] \in ListKinds /\ Own(copy[u]) = saved[scope[u]][opened[u]]
            BY <1>1, <1>3 DEF Settled
        <3>2. scope[t] = scope[u] => opened[u] \notin Touching(opened[t])
            BY <1>1, <2>2, TouchingIsMutual DEF Settled
        <3>3. saved'[scope[u]][opened[u]] = saved[scope[u]][opened[u]]
            BY <1>1, <3>1, <3>2
        <3> QED BY <2>2, <3>1, <3>3
    <2> QED BY <2>1, <2>2
<1>4. ASSUME NEW q \in awaited, q.what = "role"
      PROVE  Own(q.seats) = saved'[q.of]["seats"]
    <2>1. q.of # scope[t] \/ "seats" \notin Touching(opened[t])
        BY <1>4, TouchingIsMutual DEF RoleAwaited
    <2>2. saved'[q.of]["seats"] = saved[q.of]["seats"]
        BY <1>1, <1>2, <2>1
    <2> QED BY <1>4, <2>2 DEF Settled
<1> HIDE DEF Own, ListKinds
<1> QED BY <1>3, <1>4 DEF Settled

\* The page of a tab is left: its requests go on, with nothing to show themselves on.
LEMMA LeftKeepsRequests ==
    ASSUME ListsTypeOK, NEW t \in Tabs
    PROVE  /\ Left(t) \in SUBSET Requests
           /\ \A q \in Left(t) : \E p \in awaited :
                /\ q = LeftAlone(t, p)
                /\ q.what = p.what /\ q.tab = p.tab /\ q.of = p.of /\ q.seats = p.seats
                /\ q.who = p.who
                /\ q.mounted => p.mounted /\ q.tab # t
                /\ p.tab # t => q.mounted = p.mounted
<1>1. ASSUME NEW p \in awaited
      PROVE  LET q == LeftAlone(t, p)
             IN  /\ q \in Requests
                 /\ q.what = p.what /\ q.tab = p.tab /\ q.of = p.of /\ q.seats = p.seats
                 /\ q.who = p.who
                 /\ q.mounted => p.mounted /\ q.tab # t
                 /\ p.tab # t => q.mounted = p.mounted
    <2>1. p \in Requests
        BY ListsTyped
    <2> HIDE DEF Lists, Marks
    <2> QED BY <2>1 DEF Requests, LeftAlone
<1>2. Left(t) = {LeftAlone(t, p) : p \in awaited}
    BY Zenon DEF Left, LeftAlone
<1> HIDE DEF LeftAlone
<1> QED BY <1>1, <1>2

\* The requests of a page that is left fit what was saved as they did.
LEMMA LeftIsSettled ==
    ASSUME ListsTypeOK, Settled, NEW t \in Tabs, NEW q \in Left(t)
    PROVE  /\ q.mounted => scope[q.tab] = q.of /\ q.tab # t
           /\ q.what = "role" =>
                /\ Own(q.seats) = saved[q.of]["seats"]
                /\ \A u \in Tabs \ {t} :
                     opened[u] = "seats" /\ scope[u] = q.of => q.mounted /\ q.tab = u
                /\ \A p \in Left(t) : p.what = "role" /\ p.of = q.of => p = q
<1>1. PICK r \in awaited :
        /\ q = LeftAlone(t, r)
        /\ q.what = r.what /\ q.tab = r.tab /\ q.of = r.of /\ q.seats = r.seats
        /\ q.mounted => r.mounted /\ q.tab # t
        /\ r.tab # t => q.mounted = r.mounted
    BY LeftKeepsRequests
<1>2. q.mounted => scope[q.tab] = q.of /\ q.tab # t
    BY <1>1 DEF Settled
<1>3. ASSUME q.what = "role"
      PROVE  /\ Own(q.seats) = saved[q.of]["seats"]
             /\ \A u \in Tabs \ {t} :
                  opened[u] = "seats" /\ scope[u] = q.of => q.mounted /\ q.tab = u
    <2>1. /\ Own(r.seats) = saved[r.of]["seats"]
          /\ \A u \in Tabs : opened[u] = "seats" /\ scope[u] = r.of => r.mounted /\ r.tab = u
        BY <1>1, <1>3 DEF Settled
    <2>2. ASSUME NEW u \in Tabs \ {t}, opened[u] = "seats", scope[u] = q.of
          PROVE  q.mounted /\ q.tab = u
        <3>1. r.mounted /\ r.tab = u
            BY <1>1, <2>1, <2>2
        <3> QED BY <1>1, <3>1
    <2> QED BY <1>1, <2>1, <2>2
<1>4. ASSUME q.what = "role", NEW p \in Left(t), p.what = "role", p.of = q.of
      PROVE  p = q
    <2>1. PICK x \in awaited : p = LeftAlone(t, x) /\ p.what = x.what /\ p.of = x.of
        BY LeftKeepsRequests
    <2>2. r.what = "role" /\ x.what = "role" /\ x.of = r.of
        BY <1>1, <1>4, <2>1
    <2>3. x = r
        BY <2>2 DEF Settled
    <2> QED BY <1>1, <2>1, <2>3
<1> QED BY <1>2, <1>3, <1>4

LEMMA UsageTyped ==
    ASSUME NEW t \in Tabs, NEW s \in Scopes
    PROVE  /\ AskUsage(t, s) \in Requests /\ AskUsage(t, s).what = "usage"
           /\ AskUsage(t, s).tab = t /\ AskUsage(t, s).of = s
<1>1. {} \in Lists /\ "new" \in Marks
    BY DEF Lists, Marks
<1> HIDE DEF Lists, Marks
<1> QED BY <1>1 DEF AskUsage, Requests

LEMMA OpenPageKeepsInv ==
    ASSUME ListsInv, NEW t \in Tabs, NEW k \in ListKinds, OpenPage(t, k)
    PROVE  ListsInv'
<1> DEFINE fresh == IF k = "notices" THEN {AskUsage(t, scope[t])} ELSE {}
           loaded == Loaded(scope[t], k)
<1>1. /\ visits < MaxVisits /\ visits' = visits + 1
      /\ opened' = [opened EXCEPT ![t] = k]
      /\ copy' = [copy EXCEPT ![t] = loaded]
      /\ stored' = IF k = "seats" THEN [stored EXCEPT ![scope[t]][k] = loaded] ELSE stored
      /\ awaited' = Left(t) \union fresh
      /\ UNCHANGED <<scope, saved, saves>>
    BY DEF OpenPage
<1>2. /\ ListsTypeOK /\ AskersShown /\ scope[t] \in Scopes
      /\ stored[scope[t]][k] \in Lists
      /\ stored \in [Scopes -> [ListKinds -> Lists]]
    BY ListsTyped DEF ListsInv, ListsTypeOK
<1>3. loaded \in Lists /\ Own(loaded) = Own(stored[scope[t]][k])
    <2>1. <<"owner", "changed">>[1] = "owner" /\ "owner" \notin Entries
        BY SeedAssumption
    <2>2. {<<"owner", "changed">>} \in Lists /\ Own({<<"owner", "changed">>}) = Own({})
        BY <2>1 DEF Lists, Seeds, Marks, Own
    <2> QED BY <1>2, <2>2 DEF Loaded
<1>4. /\ fresh \subseteq Requests
      /\ \A q \in fresh : q.what = "usage" /\ q.tab = t /\ q.of = scope[t] /\ k = "notices"
    <2>1. fresh = IF k = "notices" THEN {AskUsage(t, scope[t])} ELSE {}
        OBVIOUS
    <2> HIDE DEF fresh
    <2> QED BY <1>2, <2>1, UsageTyped
<1> HIDE DEF loaded, fresh
<1>5. /\ stored' \in [Scopes -> [ListKinds -> Lists]]
      /\ \A s \in Scopes, j \in ListKinds :
            stored'[s][j] = stored[s][j] \/ (s = scope[t] /\ j = k /\ stored'[s][j] = loaded)
    <2>1. CASE k = "seats"
        BY <1>1, <1>2, <1>3, <2>1, OneListWritten
    <2>2. CASE k # "seats"
        BY <1>1, <1>2, <2>2
    <2> QED BY <2>1, <2>2
<1>6. \A s \in Scopes, j \in ListKinds : Own(stored'[s][j]) = Own(stored[s][j])
    BY <1>3, <1>5
<1>7. clashed' \in BOOLEAN
    BY Zenon DEF OpenPage
<1>8. visits' \in 0 .. MaxVisits
    BY <1>1, <1>2, ListsAssumption DEF ListsTypeOK
<1>9. Left(t) \in SUBSET Requests
    BY <1>2, LeftKeepsRequests
<1>10. opened \in [Tabs -> ListKinds \union {"none"}] /\ copy \in [Tabs -> Lists]
    BY <1>2 DEF ListsTypeOK
<1>11. /\ opened'[t] = k /\ copy'[t] = loaded
       /\ \A u \in Tabs \ {t} : opened'[u] = opened[u] /\ copy'[u] = copy[u]
    BY <1>1, <1>10
<1>12. opened' \in [Tabs -> ListKinds \union {"none"}] /\ copy' \in [Tabs -> Lists]
    BY <1>1, <1>3, <1>10
<1>13. ListsTypeOK'
    <2>1. awaited' \subseteq Requests
        BY <1>1, <1>4, <1>9
    <2> HIDE DEF ListKinds, Lists
    <2> QED BY <1>1, <1>2, <1>5, <1>7, <1>8, <1>12, <2>1 DEF ListsTypeOK, Requests
<1>14. AskersShown'
    <2> SUFFICES ASSUME NEW q \in awaited'
                 PROVE  /\ q.mounted => opened'[q.tab] = IF q.what = "role" THEN "seats" ELSE "notices"
                        /\ q.what = "role" => q.who \in Entries
        BY DEF AskersShown
    <2>1. CASE q \in fresh
        BY <1>4, <1>11, <2>1
    <2>2. CASE q \in Left(t)
        <3>1. PICK p \in awaited : /\ q.what = p.what /\ q.tab = p.tab /\ q.who = p.who
                                   /\ q.mounted => p.mounted /\ q.tab # t
            BY <1>2, <2>2, LeftKeepsRequests
        <3>2. q.tab \in Tabs
            BY <1>9, <2>2 DEF Requests
        <3> QED BY <1>2, <1>11, <3>1, <3>2 DEF AskersShown
    <2> QED BY <1>1, <2>1, <2>2
<1>15. ASSUME ~clashed' PROVE Settled'
    <2>1. /\ ~clashed /\ (k = "seats" => ~RoleAwaited(scope[t]))
          /\ \A u \in Tabs \ {t} : ~(opened[u] \in Touching(k) /\ scope[u] = scope[t])
        BY <1>15 DEF OpenPage
    <2>2. Settled
        BY <2>1 DEF ListsInv
    <2>3. \A s \in Scopes, j \in ListKinds : Own(stored'[s][j]) = saved'[s][j]
        BY <1>1, <1>6, <2>2 DEF Settled
    <2>4. \A u \in Tabs : opened'[u] # "none" => Own(copy'[u]) = saved'[scope'[u]][opened'[u]]
        <3> SUFFICES ASSUME NEW u \in Tabs, opened'[u] # "none"
                     PROVE  Own(copy'[u]) = saved[scope[u]][opened'[u]]
            BY <1>1
        <3>1. CASE u = t
            BY <1>2, <1>3, <1>11, <2>2, <3>1 DEF Settled
        <3>2. CASE u # t
            BY <1>11, <2>2, <3>2 DEF Settled
        <3> QED BY <3>1, <3>2
    <2>5. \A u, v \in Tabs : u # v /\ opened'[u] # "none" /\ scope'[u] = scope'[v]
                                => opened'[v] \notin Touching(opened'[u])
        <3> SUFFICES ASSUME NEW u \in Tabs, NEW v \in Tabs, u # v, opened'[u] # "none",
                            scope[u] = scope[v], opened'[v] \in Touching(opened'[u])
                     PROVE  FALSE
            BY <1>1
        <3>1. opened'[u] \in ListKinds /\ opened'[v] \in ListKinds
            BY <1>12, TouchingIsMutual
        <3>2. CASE u = t
            BY <1>11, <2>1, <3>2
        <3>3. CASE v = t
            BY <1>11, <2>1, <3>1, <3>3, TouchingIsMutual
        <3>4. CASE u # t /\ v # t
            BY <1>11, <2>2, <3>4 DEF Settled
        <3> QED BY <3>2, <3>3, <3>4
    <2>6. \A q \in awaited' : q.mounted => scope'[q.tab] = q.of
        BY <1>1, <1>2, <1>4, <2>2, LeftIsSettled
    <2>7. ASSUME NEW q \in awaited', q.what = "role"
          PROVE  /\ q \in Left(t) /\ Own(q.seats) = saved'[q.of]["seats"]
                 /\ \A u \in Tabs : opened'[u] = "seats" /\ scope'[u] = q.of
                                      => q.mounted /\ q.tab = u
                 /\ \A p \in awaited' : p.what = "role" /\ p.of = q.of => p = q
        <3>1. \A p \in awaited' : p.what = "role" => p \in Left(t)
            BY <1>1, <1>4
        <3>2. k = "seats" => q.of # scope[t]
            <4>1. PICK p \in awaited : q.what = p.what /\ q.of = p.of
                BY <1>2, <2>7, <3>1, LeftKeepsRequests
            <4> QED BY <2>1, <2>7, <4>1 DEF RoleAwaited
        <3> QED BY <1>1, <1>2, <1>11, <2>2, <2>7, <3>1, <3>2, LeftIsSettled
    <2> HIDE DEF Own
    <2> QED BY <2>3, <2>4, <2>5, <2>6, <2>7 DEF Settled
<1> QED BY <1>13, <1>14, <1>15 DEF ListsInv

LEMMA ClosePageKeepsInv ==
    ASSUME ListsInv, NEW t \in Tabs, ClosePage(t)
    PROVE  ListsInv'
<1>1. /\ opened' = [opened EXCEPT ![t] = "none"] /\ copy' = [copy EXCEPT ![t] = {}]
      /\ awaited' = Left(t)
      /\ UNCHANGED <<stored, scope, saved, clashed, saves, visits>>
    BY DEF ClosePage
<1>2. ListsTypeOK /\ AskersShown
    BY DEF ListsInv
<1>3. /\ opened \in [Tabs -> ListKinds \union {"none"}] /\ copy \in [Tabs -> Lists]
      /\ {} \in Lists
    BY <1>2 DEF ListsTypeOK, Lists
<1>4. /\ opened'[t] = "none"
      /\ \A u \in Tabs \ {t} : opened'[u] = opened[u] /\ copy'[u] = copy[u]
      /\ opened' \in [Tabs -> ListKinds \union {"none"}]
    BY <1>1, <1>3
<1>5. copy' \in [Tabs -> Lists]
    BY <1>1, <1>3
<1>6. awaited' \in SUBSET Requests
    BY <1>1, <1>2, LeftKeepsRequests
<1>7. ListsTypeOK'
    <2> HIDE DEF ListKinds, Lists
    <2> QED BY <1>1, <1>2, <1>4, <1>5, <1>6 DEF ListsTypeOK, Requests
<1>8. AskersShown'
    <2> SUFFICES ASSUME NEW q \in awaited'
                 PROVE  /\ q.mounted => opened'[q.tab] = IF q.what = "role" THEN "seats" ELSE "notices"
                        /\ q.what = "role" => q.who \in Entries
        BY DEF AskersShown
    <2>1. PICK p \in awaited : /\ q.what = p.what /\ q.tab = p.tab /\ q.who = p.who
                               /\ q.mounted => p.mounted /\ q.tab # t
        BY <1>1, <1>2, LeftKeepsRequests
    <2>2. q.tab \in Tabs
        BY <1>6 DEF Requests
    <2> QED BY <1>2, <1>4, <2>1, <2>2 DEF AskersShown
<1>9. ASSUME ~clashed' PROVE Settled'
    <2>1. Settled
        BY <1>1, <1>9 DEF ListsInv
    <2>2. \A u \in Tabs : opened'[u] # "none" =>
            /\ u # t /\ Own(copy'[u]) = saved[scope[u]][opened'[u]]
            /\ \A v \in Tabs : v # u /\ scope[u] = scope[v]
                                 => opened'[v] \notin Touching(opened'[u])
        <3> SUFFICES ASSUME NEW u \in Tabs, opened'[u] # "none"
                     PROVE  /\ u # t /\ Own(copy'[u]) = saved[scope[u]][opened'[u]]
                            /\ \A v \in Tabs : v # u /\ scope[u] = scope[v]
                                                 => opened'[v] \notin Touching(opened'[u])
            OBVIOUS
        <3>1. u # t /\ opened'[u] = opened[u] /\ copy'[u] = copy[u] /\ opened[u] \in ListKinds
            BY <1>4
        <3>2. "none" \notin Touching(opened[u])
            BY <3>1, TouchingIsMutual
        <3> QED BY <1>4, <2>1, <3>1, <3>2 DEF Settled
    <2>3. ASSUME NEW q \in awaited'
          PROVE  /\ q.mounted => scope[q.tab] = q.of
                 /\ q.what = "role" =>
                      /\ Own(q.seats) = saved[q.of]["seats"]
                      /\ \A u \in Tabs : opened'[u] = "seats" /\ scope[u] = q.of
                                           => q.mounted /\ q.tab = u
                      /\ \A p \in awaited' : p.what = "role" /\ p.of = q.of => p = q
        BY <1>1, <1>2, <1>4, <2>1, LeftIsSettled
    <2> HIDE DEF Own
    <2> QED BY <1>1, <2>1, <2>2, <2>3 DEF Settled
<1> QED BY <1>7, <1>8, <1>9 DEF ListsInv

LEMMA ChangeScopeKeepsInv ==
    ASSUME ListsInv, NEW t \in Tabs, NEW s \in Scopes, ChangeScope(t, s)
    PROVE  ListsInv'
<1> DEFINE fresh == IF opened[t] = "notices" THEN {AskUsage(t, s)} ELSE {}
<1>1. /\ visits < MaxVisits /\ visits' = visits + 1
      /\ scope' = [scope EXCEPT ![t] = s]
      /\ awaited' = awaited \union fresh
      /\ UNCHANGED <<stored, opened, copy, saved, saves>>
    BY DEF ChangeScope
<1>2. ListsTypeOK /\ AskersShown
    BY DEF ListsInv
<1>3. /\ fresh \subseteq Requests
      /\ \A q \in fresh : q.what = "usage" /\ q.tab = t /\ opened[t] = "notices"
    <2>1. fresh = IF opened[t] = "notices" THEN {AskUsage(t, s)} ELSE {}
        OBVIOUS
    <2> HIDE DEF fresh
    <2> QED BY <2>1, UsageTyped
<1> HIDE DEF fresh
<1>4. scope \in [Tabs -> Scopes]
    BY <1>2 DEF ListsTypeOK
<1>5. scope' \in [Tabs -> Scopes] /\ \A u \in Tabs \ {t} : scope'[u] = scope[u]
    BY <1>1, <1>4
<1>6. clashed' \in BOOLEAN /\ visits' \in 0 .. MaxVisits
    <2>1. clashed' \in BOOLEAN
        BY Zenon DEF ChangeScope
    <2> QED BY <1>1, <1>2, <2>1, ListsAssumption DEF ListsTypeOK
<1>7. ListsTypeOK'
    <2> HIDE DEF ListKinds, Lists
    <2> QED BY <1>1, <1>2, <1>3, <1>5, <1>6 DEF ListsTypeOK, Requests
<1>8. AskersShown'
    BY <1>1, <1>2, <1>3 DEF AskersShown
<1>9. ASSUME ~clashed' PROVE Settled'
    <2>1. ~clashed /\ opened[t] = "none"
        BY <1>9 DEF ChangeScope
    <2>2. Settled /\ awaited' = awaited
        BY <1>1, <1>3, <2>1 DEF ListsInv
    <2>3. \A u \in Tabs : opened[u] # "none" => u # t /\ scope'[u] = scope[u]
        BY <1>5, <2>1
    <2>4. \A q \in awaited : q.mounted => scope'[q.tab] = q.of
        <3> SUFFICES ASSUME NEW q \in awaited, q.mounted PROVE scope'[q.tab] = q.of
            OBVIOUS
        <3>1. q.tab \in Tabs /\ opened[q.tab] # "none"
            BY <1>2, ListsTyped DEF AskersShown, Requests
        <3> QED BY <2>2, <2>3, <3>1 DEF Settled
    <2>5. \A u \in Tabs : opened[u] # "none" =>
            \A v \in Tabs : v # u /\ scope'[u] = scope'[v] => opened[v] \notin Touching(opened[u])
        <3> SUFFICES ASSUME NEW u \in Tabs, opened[u] # "none", NEW v \in Tabs, v # u,
                            scope'[u] = scope'[v], opened[v] \in Touching(opened[u])
                     PROVE  FALSE
            OBVIOUS
        <3>1. opened[u] \in ListKinds
            BY <1>2, ListsTyped
        <3>2. opened[v] # "none"
            BY <3>1, TouchingIsMutual
        <3> QED BY <2>2, <2>3, <3>2 DEF Settled
    <2> HIDE DEF Own
    <2> QED BY <1>1, <2>2, <2>3, <2>4, <2>5 DEF Settled
<1> QED BY <1>7, <1>8, <1>9 DEF ListsInv

\* What all saves of a page have in common.
LEMMA PersistTyped ==
    ASSUME ListsInv, NEW t \in Tabs, opened[t] \in ListKinds, NEW list \in Lists,
           Persist(t, list), stored' \in [Scopes -> [ListKinds -> Lists]],
           saved' \in [Scopes -> [ListKinds -> OwnLists]], clashed' \in BOOLEAN,
           UNCHANGED <<scope, opened, awaited, visits>>
    PROVE  /\ ListsTypeOK' /\ AskersShown'
           /\ copy'[t] = list /\ \A u \in Tabs \ {t} : copy'[u] = copy[u]
<1>1. /\ ListsTypeOK /\ AskersShown /\ copy \in [Tabs -> Lists]
      /\ saves < MaxSaves /\ saves' = saves + 1 /\ copy' = [copy EXCEPT ![t] = list]
    BY DEF ListsInv, ListsTypeOK, Persist
<1>2. saves' \in 0 .. MaxSaves
    BY <1>1, ListsAssumption DEF ListsTypeOK
<1> HIDE DEF Lists, ListKinds
<1>3. ListsTypeOK'
    BY <1>1, <1>2 DEF ListsTypeOK, OwnLists
<1> QED BY <1>1, <1>3 DEF AskersShown

\* A change of the list on screen, whichever: what is its own is changed alike.
LEMMA EditKeepsInv ==
    ASSUME ListsInv, NEW t \in Tabs, NEW k \in ListKinds, opened[t] = k,
           NEW list \in Lists, NEW mine \in OwnLists, Persist(t, list),
           stored' = [stored EXCEPT ![scope[t]][k] = list],
           saved' = [saved EXCEPT ![scope[t]][k] = mine],
           Own(copy[t]) = saved[scope[t]][k] => Own(list) = mine,
           clashed' \in BOOLEAN, clashed => clashed',
           k = "seats" /\ ~clashed' => ~RoleAwaited(scope[t]),
           UNCHANGED <<scope, opened, awaited, visits>>
    PROVE  ListsInv'
<1>1. /\ ListsTypeOK /\ scope[t] \in Scopes
      /\ stored \in [Scopes -> [ListKinds -> Lists]]
      /\ saved \in [Scopes -> [ListKinds -> OwnLists]]
    BY ListsTyped DEF ListsInv, ListsTypeOK, OwnLists
<1>2. /\ stored' \in [Scopes -> [ListKinds -> Lists]]
      /\ \A s \in Scopes, j \in ListKinds :
            stored'[s][j] = IF s = scope[t] /\ j = k THEN list ELSE stored[s][j]
    BY <1>1, OneListWritten
<1>3. /\ saved' \in [Scopes -> [ListKinds -> OwnLists]]
      /\ \A s \in Scopes, j \in ListKinds :
            saved'[s][j] = IF s = scope[t] /\ j = k THEN mine ELSE saved[s][j]
    BY <1>1, OneListWritten
<1>4. /\ ListsTypeOK' /\ AskersShown'
      /\ copy'[t] = list /\ \A u \in Tabs \ {t} : copy'[u] = copy[u]
    BY <1>2, <1>3, PersistTyped
<1>5. ASSUME ~clashed' PROVE Settled'
    <2>1. Settled
        BY <1>5 DEF ListsInv
    <2>2. k # "none" /\ k \in Touching(k)
        BY TouchingIsMutual DEF ListKinds
    <2>3. Own(list) = mine
        BY <2>1, <2>2 DEF Settled
    <2>4. \A s \in Scopes, j \in ListKinds : Own(stored'[s][j]) = saved'[s][j]
        BY <1>2, <1>3, <2>1, <2>3 DEF Settled
    <2>5. \A s \in Scopes, j \in ListKinds :
            s # scope[t] \/ j \notin Touching(opened[t]) => saved'[s][j] = saved[s][j]
        BY <1>3, <2>2
    <2>6. Own(copy'[t]) = saved'[scope[t]][opened[t]]
        BY <1>1, <1>3, <1>4, <2>3
    <2>7. opened[t] = "seats" => ~RoleAwaited(scope[t])
        BY <1>5
    <2> QED BY <1>1, <1>4, <2>1, <2>4, <2>5, <2>6, <2>7, SavingIsSettled
<1> QED BY <1>4, <1>5 DEF ListsInv

LEMMA OpenTicketKeepsInv ==
    ASSUME ListsInv, NEW t \in Tabs, NEW e \in Entries, OpenTicket(t, e)
    PROVE  ListsInv'
<1> DEFINE list == PutIn(copy[t], e, "new")
           here == scope[t]
           theirs == PutIn(stored[here]["notices"], e, "new")
           mine(k) == PutIn(saved[here][k], e, "new")
<1>1. /\ opened[t] = "tickets" /\ Persist(t, list) /\ copy' = [copy EXCEPT ![t] = list]
      /\ stored' = [stored EXCEPT ![here]["tickets"] = copy'[t],
                                  ![here]["notices"] = PutIn(@, e, "new")]
      /\ saved' = [saved EXCEPT ![here]["tickets"] = PutIn(@, e, "new"),
                                ![here]["notices"] = PutIn(@, e, "new")]
      /\ UNCHANGED <<scope, opened, awaited, clashed, visits>>
    BY DEF OpenTicket, Persist
<1>2. /\ ListsTypeOK /\ here \in Scopes /\ copy[t] \in Lists /\ copy \in [Tabs -> Lists]
      /\ stored \in [Scopes -> [ListKinds -> Lists]]
      /\ saved \in [Scopes -> [ListKinds -> OwnLists]]
    BY ListsTyped DEF ListsInv, ListsTypeOK, OwnLists
<1>3. "tickets" \in ListKinds /\ "notices" \in ListKinds /\ "new" \in Marks
    BY DEF ListKinds, Marks
<1>4. copy'[t] = list
    BY <1>1, <1>2
<1>5. /\ list \in Lists /\ theirs \in Lists
      /\ \A k \in ListKinds : mine(k) \in OwnLists
      /\ Own(list) = PutIn(Own(copy[t]), e, "new")
      /\ Own(theirs) = PutIn(Own(stored[here]["notices"]), e, "new")
    BY <1>2, <1>3, EntryPut
<1>6. /\ stored' \in [Scopes -> [ListKinds -> Lists]]
      /\ \A s \in Scopes, j \in ListKinds :
            stored'[s][j] = IF s = here /\ j = "tickets" THEN list
                            ELSE IF s = here /\ j = "notices" THEN theirs ELSE stored[s][j]
    <2> HIDE DEF Lists, ListKinds, list
    <2> QED BY <1>1, <1>2, <1>3, <1>4, <1>5
<1>7. /\ saved' \in [Scopes -> [ListKinds -> OwnLists]]
      /\ \A s \in Scopes, j \in ListKinds :
            saved'[s][j] = IF s = here /\ j \in {"tickets", "notices"} THEN mine(j) ELSE saved[s][j]
    <2> HIDE DEF OwnLists, ListKinds
    <2> QED BY <1>1, <1>2, <1>3, <1>5
<1> HIDE DEF list, here, theirs
<1>8. clashed' \in BOOLEAN
    BY <1>1, <1>2 DEF ListsTypeOK
<1>9. /\ ListsTypeOK' /\ AskersShown' /\ \A u \in Tabs \ {t} : copy'[u] = copy[u]
    BY <1>1, <1>3, <1>5, <1>6, <1>7, <1>8, PersistTyped
<1>10. ASSUME ~clashed' PROVE Settled'
    <2>1. Settled
        BY <1>1, <1>10 DEF ListsInv
    <2>2. Own(copy[t]) = saved[here]["tickets"]
        BY <1>1, <2>1 DEF Settled, here
    <2>3. Own(list) = mine("tickets") /\ Own(theirs) = mine("notices")
        BY <1>2, <1>3, <1>5, <2>1, <2>2 DEF Settled
    <2>4. \A s \in Scopes, j \in ListKinds : Own(stored'[s][j]) = saved'[s][j]
        <3> HIDE DEF mine, Own
        <3> QED BY <1>6, <1>7, <2>1, <2>3 DEF Settled
    <2>5. \A s \in Scopes, j \in ListKinds :
            s # scope[t] \/ j \notin Touching(opened[t]) => saved'[s][j] = saved[s][j]
        BY <1>1, <1>7 DEF here, Touching
    <2>6. Own(copy'[t]) = saved'[scope[t]][opened[t]]
        BY <1>1, <1>2, <1>3, <1>4, <1>7, <2>3 DEF here
    <2>7. opened[t] \in ListKinds /\ (opened[t] = "seats" => ~RoleAwaited(scope[t]))
        BY <1>1, <1>3
    <2> QED BY <1>1, <1>2, <1>9, <2>1, <2>4, <2>5, <2>6, <2>7, SavingIsSettled
<1> QED BY <1>9, <1>10 DEF ListsInv

LEMMA AskRoleKeepsInv ==
    ASSUME ListsInv, NEW t \in Tabs, NEW e \in Entries, NEW m \in Marks, AskRole(t, e, m)
    PROVE  ListsInv'
<1> DEFINE fresh == [what |-> "role", tab |-> t, of |-> scope[t], seats |-> copy[t],
                     mounted |-> TRUE, who |-> e, mark |-> m]
<1>1. /\ opened[t] = "seats" /\ awaited' = awaited \union {fresh}
      /\ saves < MaxSaves /\ saves' = saves + 1
      /\ UNCHANGED <<stored, scope, opened, copy, saved, visits>>
    BY DEF AskRole
<1>2. ListsTypeOK /\ AskersShown /\ scope[t] \in Scopes /\ copy[t] \in Lists
    BY ListsTyped DEF ListsInv
<1>3. /\ fresh \in Requests /\ fresh.what = "role" /\ fresh.tab = t /\ fresh.mounted
      /\ fresh.of = scope[t] /\ fresh.seats = copy[t] /\ fresh.who = e
    <2> HIDE DEF Lists, Marks
    <2> QED BY <1>2 DEF Requests
<1> HIDE DEF fresh
<1>4. clashed' \in BOOLEAN /\ (~clashed' => ~clashed /\ ~RoleAwaited(scope[t]))
    BY Zenon DEF AskRole
<1>5. saves' \in 0 .. MaxSaves
    BY <1>1, <1>2, ListsAssumption DEF ListsTypeOK
<1>6. ListsTypeOK'
    <2>1. awaited' \in SUBSET Requests
        BY <1>1, <1>2, <1>3, ListsTyped
    <2> HIDE DEF Lists, ListKinds, Marks
    <2> QED BY <1>1, <1>2, <1>4, <1>5, <2>1 DEF ListsTypeOK, Requests
<1>7. AskersShown'
    BY <1>1, <1>2, <1>3 DEF AskersShown
<1>8. ASSUME ~clashed' PROVE Settled'
    <2>1. Settled /\ \A q \in awaited : q.what = "role" => q.of # scope[t]
        BY <1>4, <1>8 DEF ListsInv, RoleAwaited
    <2>2. /\ Own(fresh.seats) = saved[fresh.of]["seats"]
          /\ scope[fresh.tab] = fresh.of
        BY <1>1, <1>3, <2>1 DEF Settled
    <2>3. "seats" \in Touching("seats")
        BY TouchingIsMutual DEF ListKinds
    <2>4. \A u \in Tabs : opened[u] = "seats" /\ scope[u] = fresh.of => u = t
        BY <1>1, <1>3, <2>1, <2>3 DEF Settled
    <2> HIDE DEF Own
    <2> QED BY <1>1, <1>3, <2>1, <2>2, <2>4 DEF Settled
<1> QED BY <1>6, <1>7, <1>8 DEF ListsInv

\* The answer of a role brings the seats of the click, which are still those stored, and
\* the role; the page that shows them is the one that asked.
LEMMA RoleAnsweredKeepsInv ==
    ASSUME ListsInv, NEW q \in awaited, RoleAnswered(q)
    PROVE  ListsInv'
<1> DEFINE next == PutIn(q.seats, q.who, q.mark)
           mine == PutIn(saved[q.of]["seats"], q.who, q.mark)
<1>1. /\ q.what = "role" /\ awaited' = awaited \ {q}
      /\ stored' = [stored EXCEPT ![q.of]["seats"] = next]
      /\ copy' = IF q.mounted THEN [copy EXCEPT ![q.tab] = next] ELSE copy
      /\ saved' = [saved EXCEPT ![q.of]["seats"] = mine]
      /\ UNCHANGED <<scope, opened, clashed, saves, visits>>
    BY DEF RoleAnswered
<1>2. /\ ListsTypeOK /\ AskersShown /\ q \in Requests
      /\ stored \in [Scopes -> [ListKinds -> Lists]] /\ copy \in [Tabs -> Lists]
      /\ saved \in [Scopes -> [ListKinds -> OwnLists]]
    BY ListsTyped DEF ListsInv, ListsTypeOK, OwnLists
<1>3. /\ q.tab \in Tabs /\ q.of \in Scopes /\ q.seats \in Lists /\ q.mark \in Marks
      /\ "seats" \in ListKinds
    BY <1>2 DEF Requests, ListKinds
<1>4. q.who \in Entries /\ (q.mounted => opened[q.tab] = "seats")
    BY <1>1, <1>2 DEF AskersShown
<1>5. /\ next \in Lists /\ mine \in OwnLists
      /\ Own(next) = PutIn(Own(q.seats), q.who, q.mark)
    <2>1. saved[q.of]["seats"] \in OwnLists
        BY <1>2, <1>3
    <2> QED BY <1>3, <1>4, <2>1, EntryPut
<1>6. /\ stored' \in [Scopes -> [ListKinds -> Lists]]
      /\ \A s \in Scopes, j \in ListKinds :
            stored'[s][j] = IF s = q.of /\ j = "seats" THEN next ELSE stored[s][j]
    <2> HIDE DEF next
    <2> QED BY <1>1, <1>2, <1>3, <1>5, OneListWritten
<1>7. /\ saved' \in [Scopes -> [ListKinds -> OwnLists]]
      /\ \A s \in Scopes, j \in ListKinds :
            saved'[s][j] = IF s = q.of /\ j = "seats" THEN mine ELSE saved[s][j]
    <2> HIDE DEF mine
    <2> QED BY <1>1, <1>2, <1>3, <1>5, OneListWritten
<1>8. /\ copy' \in [Tabs -> Lists]
      /\ \A u \in Tabs : copy'[u] = IF q.mounted /\ u = q.tab THEN next ELSE copy[u]
    <2> HIDE DEF next
    <2> QED BY <1>1, <1>2, <1>3, <1>5
<1>9. ListsTypeOK' /\ AskersShown'
    <2> HIDE DEF ListKinds, Lists
    <2> QED BY <1>1, <1>2, <1>6, <1>7, <1>8 DEF ListsTypeOK, AskersShown, OwnLists
<1>10. ASSUME ~clashed' PROVE Settled'
    <2>1. Settled
        BY <1>1, <1>10 DEF ListsInv
    <2>2. /\ Own(q.seats) = saved[q.of]["seats"]
          /\ \A t \in Tabs : opened[t] = "seats" /\ scope[t] = q.of => q.mounted /\ q.tab = t
          /\ \A p \in awaited : p.what = "role" /\ p.of = q.of => p = q
          /\ q.mounted => scope[q.tab] = q.of
        BY <1>1, <2>1 DEF Settled
    <2>3. Own(next) = mine
        BY <1>5, <2>2
    <2> HIDE DEF next, mine, Own
    <2>4. \A s \in Scopes, j \in ListKinds : Own(stored'[s][j]) = saved'[s][j]
        BY <1>6, <1>7, <2>1, <2>3 DEF Settled
    <2>5. ASSUME NEW u \in Tabs, opened[u] # "none"
          PROVE  Own(copy'[u]) = saved'[scope[u]][opened[u]]
        <3>1. scope[u] \in Scopes /\ opened[u] \in ListKinds
            BY <1>2, <2>5, ListsTyped
        <3>2. CASE scope[u] = q.of /\ opened[u] = "seats"
            BY <1>3, <1>7, <1>8, <2>2, <2>3, <3>2
        <3>3. CASE ~(scope[u] = q.of /\ opened[u] = "seats")
            <4>1. copy'[u] = copy[u]
                BY <1>4, <1>8, <2>2, <3>3
            <4>2. saved'[scope[u]][opened[u]] = saved[scope[u]][opened[u]]
                BY <1>7, <3>1, <3>3
            <4> QED BY <2>1, <2>5, <4>1, <4>2 DEF Settled
        <3> QED BY <3>2, <3>3
    <2>6. ASSUME NEW p \in awaited', p.what = "role"
          PROVE  Own(p.seats) = saved'[p.of]["seats"]
        <3>1. p \in awaited /\ p # q /\ p.of # q.of /\ p.of \in Scopes
            BY <1>1, <1>2, <2>2, <2>6, ListsTyped DEF Requests
        <3> QED BY <1>3, <1>7, <2>1, <2>6, <3>1 DEF Settled
    <2> QED BY <1>1, <2>1, <2>4, <2>5, <2>6 DEF Settled
<1> QED BY <1>9, <1>10 DEF ListsInv

\* The usage puts the first notices before those stored, where the page shows them.
LEMMA UsageKeepsInv ==
    ASSUME ListsInv, NEW q \in awaited, UsageAnswered(q) \/ Refused(q)
    PROVE  ListsInv'
<1>1. /\ awaited' = awaited \ {q}
      /\ UNCHANGED <<scope, opened, saved, clashed, saves, visits>>
    BY DEF UsageAnswered, Refused
<1>2. /\ ListsTypeOK /\ AskersShown /\ q \in Requests
      /\ stored \in [Scopes -> [ListKinds -> Lists]] /\ copy \in [Tabs -> Lists]
    BY ListsTyped DEF ListsInv, ListsTypeOK
<1>3. q.tab \in Tabs /\ q.of \in Scopes /\ "notices" \in ListKinds
    BY <1>2 DEF Requests, ListKinds
<1>4. AskersShown'
    BY <1>1, <1>2 DEF AskersShown
<1>5. CASE UNCHANGED <<stored, copy>>
    <2>1. ListsTypeOK'
        <3> HIDE DEF ListKinds, Lists
        <3> QED BY <1>1, <1>2, <1>5 DEF ListsTypeOK
    <2>2. ~clashed' => Settled'
        BY <1>1, <1>2, <1>5, SameIsSettled DEF ListsInv
    <2> QED BY <1>4, <2>1, <2>2 DEF ListsInv
<1>6. CASE UsageAnswered(q) /\ ~UNCHANGED <<stored, copy>>
    <2> DEFINE list == stored[q.of]["notices"] \union {<<"snapshot", "new">>}
    <2>1. /\ q.what = "usage"
          /\ stored' = [stored EXCEPT ![q.of]["notices"] = list]
          /\ copy' = IF q.mounted THEN [copy EXCEPT ![q.tab] = stored'[q.of]["notices"]]
                     ELSE copy
        BY <1>6 DEF UsageAnswered
    <2>2. list \in Lists /\ Own(list) = Own(stored[q.of]["notices"])
        <3>1. stored[q.of]["notices"] \in Lists
            BY <1>2, <1>3
        <3>2. <<"snapshot", "new">>[1] = "snapshot" /\ "snapshot" \notin Entries
            BY SeedAssumption
        <3> QED BY <3>1, <3>2 DEF Lists, Seeds, Marks, Own
    <2> HIDE DEF list
    <2>3. /\ stored' \in [Scopes -> [ListKinds -> Lists]]
          /\ \A s \in Scopes, j \in ListKinds :
                stored'[s][j] = IF s = q.of /\ j = "notices" THEN list ELSE stored[s][j]
        BY <1>2, <1>3, <2>1, <2>2, OneListWritten
    <2>4. /\ copy' \in [Tabs -> Lists]
          /\ \A u \in Tabs : copy'[u] = IF q.mounted /\ u = q.tab THEN list ELSE copy[u]
        BY <1>2, <1>3, <2>1, <2>2, <2>3
    <2>5. ListsTypeOK'
        <3> HIDE DEF ListKinds, Lists
        <3> QED BY <1>1, <1>2, <2>3, <2>4 DEF ListsTypeOK
    <2>6. ASSUME ~clashed' PROVE Settled'
        <3>1. Settled
            BY <1>1, <2>6 DEF ListsInv
        <3>2. \A s \in Scopes, j \in ListKinds : Own(stored'[s][j]) = Own(stored[s][j])
            BY <2>2, <2>3
        <3>3. \A u \in Tabs : opened[u] # "none" => Own(copy'[u]) = Own(copy[u])
            <4> SUFFICES ASSUME NEW u \in Tabs, opened[u] # "none", q.mounted, u = q.tab
                         PROVE  Own(list) = Own(copy[u])
                BY <2>4
            <4>1. scope[u] = q.of /\ opened[u] = "notices"
                BY <1>2, <2>1, <3>1 DEF Settled, AskersShown
            <4> QED BY <1>3, <2>2, <3>1, <4>1 DEF Settled
        <3> QED BY <1>1, <1>2, <3>1, <3>2, <3>3, SameIsSettled
    <2> QED BY <1>4, <2>5, <2>6 DEF ListsInv
<1> QED BY <1>5, <1>6 DEF Refused, UsageAnswered

LEMMA ListsInvInductive == ListsInv /\ [ListsNext]_listVars => ListsInv'
<1> SUFFICES ASSUME ListsInv, [ListsNext]_listVars PROVE ListsInv'
    OBVIOUS
<1>1. /\ ListsTypeOK /\ clashed \in BOOLEAN /\ copy \in [Tabs -> Lists]
      /\ \A t \in Tabs : copy[t] \in Lists /\ scope[t] \in Scopes
      /\ \A s \in Scopes, k \in ListKinds : saved[s][k] \in OwnLists
      /\ saved \in [Scopes -> [ListKinds -> OwnLists]]
    BY ListsTyped DEF ListsInv, ListsTypeOK, OwnLists
<1>2. /\ "seats" \in ListKinds /\ "prefs" \in ListKinds /\ "tickets" \in ListKinds
      /\ "notices" \in ListKinds /\ "new" \in Marks
    BY DEF ListKinds, Marks
\* Whatever an action puts in, takes out or reads, it does so on screen and in storage.
<1>3. ASSUME NEW t \in Tabs, NEW k \in ListKinds, opened[t] = k,
             NEW list, NEW mine, list \in Lists, mine \in OwnLists, Persist(t, list),
             stored' = [stored EXCEPT ![scope[t]][k] = copy'[t]],
             saved' = [saved EXCEPT ![scope[t]][k] = mine],
             Own(copy[t]) = saved[scope[t]][k] => Own(list) = mine,
             clashed' \in BOOLEAN, clashed => clashed',
             k = "seats" /\ ~clashed' => ~RoleAwaited(scope[t]),
             UNCHANGED <<scope, opened, awaited, visits>>
      PROVE  ListsInv'
    <2>1. copy'[t] = list
        BY <1>1, <1>3 DEF Persist
    <2> QED BY <1>3, <2>1, EditKeepsInv
<1>4. ASSUME NEW t \in Tabs, NEW e \in Entries, AddSeat(t, e) PROVE ListsInv'
    <2>1. /\ opened[t] = "seats" /\ Persist(t, PutIn(copy[t], e, "new"))
          /\ stored' = [stored EXCEPT ![scope[t]]["seats"] = copy'[t]]
          /\ saved' = [saved EXCEPT ![scope[t]]["seats"] = PutIn(saved[scope[t]]["seats"], e, "new")]
          /\ UNCHANGED <<scope, opened, awaited, visits>>
        BY <1>4 DEF AddSeat
    <2>2. clashed' \in BOOLEAN /\ (clashed' <=> clashed \/ RoleAwaited(scope[t]))
        BY <1>4, Zenon DEF AddSeat
    <2>3. /\ PutIn(copy[t], e, "new") \in Lists
          /\ PutIn(saved[scope[t]]["seats"], e, "new") \in OwnLists
          /\ Own(PutIn(copy[t], e, "new")) = PutIn(Own(copy[t]), e, "new")
        BY <1>1, <1>2, EntryPut
    <2> QED BY <1>2, <1>3, <2>1, <2>2, <2>3
<1>5. ASSUME NEW t \in Tabs, NEW e \in Entries, RemoveSeat(t, e) PROVE ListsInv'
    <2>1. /\ opened[t] = "seats" /\ Persist(t, TakenOut(copy[t], e))
          /\ stored' = [stored EXCEPT ![scope[t]]["seats"] = copy'[t]]
          /\ saved' = [saved EXCEPT ![scope[t]]["seats"] = TakenOut(saved[scope[t]]["seats"], e)]
          /\ UNCHANGED <<scope, opened, awaited, visits>>
        BY <1>5 DEF RemoveSeat
    <2>2. clashed' \in BOOLEAN /\ (clashed' <=> clashed \/ RoleAwaited(scope[t]))
        BY <1>5, Zenon DEF RemoveSeat
    <2> QED BY <1>1, <1>2, <1>3, <2>1, <2>2, EntryTakenOut
<1>6. ASSUME NEW t \in Tabs, NEW e \in Entries, Switch(t, e) PROVE ListsInv'
    <2> DEFINE on == e \notin Names(copy[t])
               Turned(list) == IF on THEN PutIn(list, e, "new") ELSE TakenOut(list, e)
    <2>1. /\ opened[t] = "prefs" /\ Persist(t, Turned(copy[t]))
          /\ stored' = [stored EXCEPT ![scope[t]]["prefs"] = copy'[t]]
          /\ saved' = [saved EXCEPT ![scope[t]]["prefs"] = Turned(saved[scope[t]]["prefs"])]
          /\ UNCHANGED <<scope, opened, awaited, clashed, visits>>
        BY <1>6 DEF Switch
    <2>2. \A list : /\ Own(Turned(list)) = Turned(Own(list))
                    /\ list \in Lists => Turned(list) \in Lists
                    /\ list \in OwnLists => Turned(list) \in OwnLists
        BY <1>2, EntryPut, EntryTakenOut
    <2> HIDE DEF Turned
    <2> QED BY <1>1, <1>2, <1>3, <2>1, <2>2
<1>7. ASSUME NEW t \in Tabs, NEW e \in Entries, NEW m \in Marks, MoveTicket(t, e, m)
      PROVE  ListsInv'
    <2>1. /\ opened[t] = "tickets" /\ Persist(t, PutIn(copy[t], e, m))
          /\ stored' = [stored EXCEPT ![scope[t]]["tickets"] = copy'[t]]
          /\ saved' = [saved EXCEPT ![scope[t]]["tickets"] = PutIn(saved[scope[t]]["tickets"], e, m)]
          /\ UNCHANGED <<scope, opened, awaited, clashed, visits>>
        BY <1>7 DEF MoveTicket
    <2>2. /\ PutIn(copy[t], e, m) \in Lists
          /\ PutIn(saved[scope[t]]["tickets"], e, m) \in OwnLists
          /\ Own(PutIn(copy[t], e, m)) = PutIn(Own(copy[t]), e, m)
        BY <1>1, <1>2, EntryPut
    <2>3. clashed' \in BOOLEAN /\ (clashed => clashed')
        BY <1>1, <2>1
    <2> QED BY <1>2, <1>3, <2>1, <2>2, <2>3
<1>8. ASSUME NEW t \in Tabs, NEW read, MarkRead(t, read) PROVE ListsInv'
    <2>1. /\ opened[t] = "notices" /\ Persist(t, ReadAll(copy[t], read))
          /\ stored' = [stored EXCEPT ![scope[t]]["notices"] = copy'[t]]
          /\ saved' = [saved EXCEPT ![scope[t]]["notices"] = ReadAll(saved[scope[t]]["notices"], read)]
          /\ UNCHANGED <<scope, opened, awaited, clashed, visits>>
        BY <1>8 DEF MarkRead
    <2> QED BY <1>1, <1>2, <1>3, <2>1, EntriesRead
<1>9. ASSUME NEW t \in Tabs, ClosePage(t)
                             \/ (\E k \in ListKinds : OpenPage(t, k))
                             \/ (\E s \in Scopes : ChangeScope(t, s))
                             \/ (\E e \in Entries : OpenTicket(t, e))
                             \/ (\E e \in Entries, m \in Marks : AskRole(t, e, m))
      PROVE  ListsInv'
    BY <1>9, ClosePageKeepsInv, AskRoleKeepsInv, OpenPageKeepsInv, ChangeScopeKeepsInv,
       OpenTicketKeepsInv
<1>10. ASSUME NEW q \in awaited, RoleAnswered(q) \/ UsageAnswered(q) \/ Refused(q)
       PROVE  ListsInv'
    BY <1>10, RoleAnsweredKeepsInv, UsageKeepsInv
<1>11. CASE UNCHANGED listVars
    BY <1>11 DEF listVars, ListsInv, ListsTypeOK, AskersShown, Settled
<1> QED BY <1>4, <1>5, <1>6, <1>7, <1>8, <1>9, <1>10, <1>11 DEF ListsNext

LEMMA ListsInitInv == ListsInit => ListsInv
<1> SUFFICES ASSUME ListsInit PROVE ListsInv
    OBVIOUS
<1>1. {} \in Lists /\ {} \in OwnLists
    BY DEF Lists, OwnLists
<1>2. /\ stored \in [Scopes -> [ListKinds -> Lists]] /\ copy \in [Tabs -> Lists]
      /\ saved \in [Scopes -> [ListKinds -> OwnLists]]
      /\ opened \in [Tabs -> ListKinds \union {"none"}]
    <2> HIDE DEF Lists, OwnLists, ListKinds
    <2> QED BY <1>1 DEF ListsInit
<1>3. clashed \in BOOLEAN
    BY Zenon DEF ListsInit
<1>4. ListsTypeOK
    <2>1. 0 \in 0 .. MaxSaves /\ 0 \in 0 .. MaxVisits
        BY ListsAssumption
    <2> HIDE DEF Lists, ListKinds
    <2> QED BY <1>2, <1>3, <2>1 DEF ListsInit, ListsTypeOK, OwnLists
<1>5. AskersShown
    BY DEF ListsInit, AskersShown
<1>6. Settled
    <2>1. \A s \in Scopes, k \in ListKinds : stored[s][k] = {} /\ saved[s][k] = {}
        BY DEF ListsInit
    <2>2. Own({}) = {}
        BY DEF Own
    <2>3. \A t \in Tabs : opened[t] = "none"
        BY DEF ListsInit
    <2>4. awaited = {}
        BY DEF ListsInit
    <2> QED BY <2>1, <2>2, <2>3, <2>4 DEF Settled
<1> QED BY <1>4, <1>5, <1>6 DEF ListsInv

\* The lists of the browser keep what was saved in them as it was saved, for any number
\* of tabs, workspaces and entries, as long as no list is open twice, no session changes
\* under a page and the seats are left alone while a role is asked for.
THEOREM SavedListsAreKept == ListsSpec => []ListsKeepWhatWasSaved
<1>1. ListsInv => ListsKeepWhatWasSaved
    BY DEF ListsInv, Settled, Own, ListsKeepWhatWasSaved
<1> QED BY <1>1, ListsInitInv, ListsInvInductive, PTL DEF ListsSpec

-----------------------------------------------------------------------------
(* VerdictPage: one form request at a time, and the check that follows *)

\* The button waits for the one request of the form.
OneForm ==
    /\ \A x, y \in lookups : x.by = "form" /\ y.by = "form" => x = y
    /\ loading <=> \E x \in lookups : x.by = "form"

\* Requests that never overlap: the check under way is that of the verdict shown,
\* and before a verdict has come the page is as the last request left it.
OneLookup ==
    /\ \A x, y \in lookups : x = y
    /\ \A x \in lookups : x.waits = "check" => verdictShown = x.id
    /\ (\A x \in lookups : x.waits = "verdict") /\ verdictShown # NoVerdict
         => sigValid = verdictShown

PageInv == PageTypeOK /\ OneForm /\ (unsure = {} => OneLookup)

LEMMA AskKeepsInv ==
    ASSUME PageInv, NEW v \in Verdicts, NEW origin \in Origins, AskFor(v, origin),
           \/ origin = "link" /\ UNCHANGED <<loading, notice>>
           \/ origin = "form" /\ ~loading /\ loading' = TRUE /\ notice' = FALSE
    PROVE  PageInv'
<1> DEFINE fresh == [n |-> lookedUp + 1, by |-> origin, id |-> v, waits |-> "verdict"]
<1>1. /\ lookedUp' = lookedUp + 1 /\ lookups' = lookups \union {fresh}
      /\ unsure' = unsure \union {r \in {"overlap"} : lookups # {}}
      /\ UNCHANGED <<verdictShown, sigValid>>
    BY DEF AskFor
<1>2. lookedUp + 1 \in 1 .. MaxLookups /\ lookedUp' \in 0 .. MaxLookups
    BY <1>1, LookupsAssumption DEF AskFor, PageInv, PageTypeOK
<1>3. PageTypeOK'
    <2>1. fresh \in [n : 1 .. MaxLookups, by : Origins, id : Verdicts,
                     waits : {"verdict", "check"}]
        BY <1>2
    <2>2. notice' \in BOOLEAN /\ loading' \in BOOLEAN
        BY DEF PageInv, PageTypeOK
    <2> QED BY <1>1, <1>2, <2>1, <2>2 DEF PageInv, PageTypeOK, Reasons
<1>4. fresh.by = origin /\ fresh.waits = "verdict"
    OBVIOUS
<1> HIDE DEF fresh
<1>5. OneForm'
    BY <1>1, <1>4 DEF PageInv, OneForm
<1>6. unsure' = {} => OneLookup'
    <2> SUFFICES ASSUME unsure' = {} PROVE OneLookup'
        OBVIOUS
    <2>1. unsure = {} /\ lookups = {}
        BY <1>1
    <2> QED BY <1>1, <1>4, <2>1 DEF PageInv, OneLookup
<1> QED BY <1>3, <1>5, <1>6 DEF PageInv

LEMMA ShowVerdictKeepsInv ==
    ASSUME PageInv, NEW x \in lookups, ShowVerdict(x)
    PROVE  PageInv'
<1> DEFINE shown == [x EXCEPT !.waits = "check"]
<1>1. /\ x.waits = "verdict" /\ verdictShown' = x.id
      /\ lookups' = (lookups \ {x}) \union {shown}
      /\ UNCHANGED <<sigValid, lookedUp, loading, notice, unsure>>
    BY DEF ShowVerdict
<1>2. /\ x \in [n : 1 .. MaxLookups, by : Origins, id : Verdicts, waits : {"verdict", "check"}]
      /\ shown \in [n : 1 .. MaxLookups, by : Origins, id : Verdicts,
                    waits : {"verdict", "check"}]
    BY DEF PageInv, PageTypeOK
<1>3. shown.by = x.by /\ shown.waits = "check" /\ shown.id = x.id /\ x.id \in Verdicts
    BY <1>2
<1> HIDE DEF shown
<1>4. PageTypeOK'
    BY <1>1, <1>2, <1>3 DEF PageInv, PageTypeOK, ShownVerdict
<1>5. OneForm'
    BY <1>1, <1>3 DEF PageInv, OneForm
<1>6. unsure' = {} => OneLookup'
    BY <1>1, <1>3 DEF PageInv, OneLookup
<1> QED BY <1>4, <1>5, <1>6 DEF PageInv

LEMMA FinishedKeepsForm ==
    ASSUME PageInv, NEW x \in lookups, Finished(x)
    PROVE  OneForm' /\ loading' \in BOOLEAN
    BY DEF PageInv, PageTypeOK, OneForm, Finished

LEMMA PageInvInductive == PageInv /\ [PageNext]_pageVars => PageInv'
<1> SUFFICES ASSUME PageInv, [PageNext]_pageVars PROVE PageInv'
    OBVIOUS
<1>1. ASSUME NEW v \in Verdicts, FollowLink(v) \/ SubmitForm(v) PROVE PageInv'
    BY <1>1, AskKeepsInv DEF FollowLink, SubmitForm, Origins
<1>2. ASSUME NEW x \in lookups, ShowVerdict(x) PROVE PageInv'
    BY <1>2, ShowVerdictKeepsInv
<1>3. ASSUME NEW x \in lookups, ShowCheck(x) PROVE PageInv'
    <2>1. /\ x.waits = "check" /\ sigValid' = x.id /\ Finished(x)
          /\ lookups' = lookups \ {x}
          /\ UNCHANGED <<verdictShown, lookedUp, notice, unsure>>
        BY <1>3 DEF ShowCheck, Finished
    <2>2. x.id \in Verdicts
        BY DEF PageInv, PageTypeOK
    <2>3. OneForm' /\ loading' \in BOOLEAN
        BY <2>1, FinishedKeepsForm
    <2>4. PageTypeOK'
        BY <2>1, <2>2, <2>3 DEF PageInv, PageTypeOK, ShownVerdict
    <2>5. unsure' = {} => OneLookup'
        BY <2>1 DEF PageInv, OneLookup
    <2> QED BY <2>3, <2>4, <2>5 DEF PageInv
<1>4. ASSUME NEW x \in lookups, Fail(x) PROVE PageInv'
    <2>1. /\ notice' = TRUE /\ verdictShown' = LeftAfterFailure(x) /\ Finished(x)
          /\ lookups' = lookups \ {x}
          /\ unsure' = unsure \union
                         {r \in {"link failed"} : x.by = "link" /\ x.waits = "check"}
          /\ UNCHANGED <<sigValid, lookedUp>>
        BY <1>4 DEF Fail, Finished
    <2>2. x.by \in Origins /\ x.waits \in {"verdict", "check"}
        BY DEF PageInv, PageTypeOK
    <2>3. OneForm' /\ loading' \in BOOLEAN
        BY <2>1, FinishedKeepsForm
    <2>4. PageTypeOK'
        BY <2>1, <2>3 DEF PageInv, PageTypeOK, ShownVerdict, LeftAfterFailure, Reasons
    <2>5. ASSUME unsure' = {} PROVE OneLookup'
        <3>1. unsure = {} /\ (x.by = "link" => x.waits = "verdict")
            BY <2>1, <2>2, <2>5
        <3>2. lookups' = {} /\ lookups = {x}
            BY <2>1, <3>1 DEF PageInv, OneLookup
        <3>3. CASE x.by = "form"
            BY <2>1, <3>2, <3>3 DEF OneLookup, LeftAfterFailure
        <3>4. CASE x.by = "link"
            BY <2>1, <3>1, <3>2, <3>4 DEF PageInv, OneLookup, LeftAfterFailure
        <3> QED BY <2>2, <3>3, <3>4 DEF Origins
    <2> QED BY <2>3, <2>4, <2>5 DEF PageInv
<1>5. CASE UNCHANGED pageVars
    BY <1>5 DEF pageVars, PageInv, PageTypeOK, OneForm, OneLookup
<1> QED BY <1>1, <1>2, <1>3, <1>4, <1>5 DEF PageNext

LEMMA PageInitInv == PageInit => PageInv
<1>1. PageInit => PageTypeOK
    <2>1. PageInit => loading \in BOOLEAN /\ notice \in BOOLEAN
        BY Zenon DEF PageInit
    <2>2. PageInit => lookedUp \in 0 .. MaxLookups
        BY LookupsAssumption DEF PageInit
    <2> QED BY <2>1, <2>2 DEF PageInit, PageTypeOK, ShownVerdict
<1>2. PageInit => OneForm /\ OneLookup
    BY DEF PageInit, OneForm, OneLookup
<1> QED BY <1>1, <1>2 DEF PageInv

\* "Signature valid" is about the verdict on the page, for any number of verdicts and
\* lookups, unless lookups overlapped or the check of a followed link failed, and the
\* form's button always has a request to wait for.
THEOREM CheckIsOfVerdict == PageSpec => []SignatureIsOfVerdict
<1>1. PageInv => SignatureIsOfVerdict
    BY DEF PageInv, OneForm, OneLookup, SignatureIsOfVerdict
<1> QED BY <1>1, PageInitInv, PageInvInductive, PTL DEF PageSpec

-----------------------------------------------------------------------------
(* ClaimForm: the contract in the form, and the network it stands under *)

FormInv ==
    /\ FormTypeOK
    /\ contractOf \notin {NoPlace, place} =>
        /\ stale # {}
        /\ contractOf[1] # place[1] => "list" \in stale

LEMMA PlacesTyped ==
    /\ \A c \in ChainIds : <<c, FirstNetwork>> \in Places
    /\ \A p \in Places, network \in NetworkIds :
        <<p[1], network>> \in Places /\ <<p[1], network>>[1] = p[1]
    BY FormAssumption DEF Places

\* The list of the new network is asked for.
LEMMA MoveTyped ==
    ASSUME FormInv, NEW p \in Places, MoveTo(p)
    PROVE  /\ listing' \subseteq [n : 1 .. MaxLists, of : Places]
           /\ listsAsked' \in 0 .. MaxLists
<1>1. listsAsked + 1 \in 1 .. MaxLists /\ listsAsked' \in 0 .. MaxLists
    BY FormAssumption DEF FormInv, FormTypeOK, MoveTo
<1> QED BY <1>1 DEF FormInv, FormTypeOK, MoveTo

LEMMA FormInvInductive == FormInv /\ [FormNext]_formVars => FormInv'
<1> SUFFICES ASSUME FormInv, [FormNext]_formVars PROVE FormInv'
    OBVIOUS
<1>1. ASSUME NEW c \in ChainIds, SetChain(c) PROVE FormInv'
    <2> DEFINE p == <<c, FirstNetwork>>
    <2>1. p \in Places
        BY PlacesTyped
    <2> HIDE DEF p
    <2>2. MoveTo(p) /\ contractOf' = NoPlace /\ stale' = {}
          /\ assetType' \in {"native", "auto"}
        BY <1>1 DEF SetChain, p
    <2>3. place' = p /\ UNCHANGED <<assetsOf, chainsKnown>>
        BY <2>2 DEF MoveTo
    <2> QED BY <2>1, <2>2, <2>3, MoveTyped DEF FormInv, FormTypeOK, AssetTypes
<1>2. ASSUME NEW network \in NetworkIds, SetNetwork(network) PROVE FormInv'
    <2> DEFINE p == <<place[1], network>>
    <2>1. p \in Places /\ p[1] = place[1]
        BY PlacesTyped DEF FormInv, FormTypeOK
    <2>2. MoveTo(p) /\ UNCHANGED <<assetType, contractOf>>
          /\ stale' = stale \union {h \in {"network"} : contractOf # NoPlace}
        BY <1>2 DEF SetNetwork
    <2> HIDE DEF p
    <2>3. place' = p /\ UNCHANGED <<assetsOf, chainsKnown>>
        BY <2>2 DEF MoveTo
    <2>4. FormTypeOK'
        BY <2>1, <2>2, <2>3, MoveTyped DEF FormInv, FormTypeOK
    <2>5. ASSUME contractOf' \notin {NoPlace, p}
          PROVE  stale' # {} /\ (contractOf'[1] # p[1] => "list" \in stale')
        <3>1. "network" \in stale'
            BY <2>2, <2>5
        <3>2. contractOf # place /\ contractOf[1] # place[1] => "list" \in stale
            BY <2>2, <2>5 DEF FormInv
        <3> QED BY <2>1, <2>2, <3>1, <3>2
    <2> QED BY <2>3, <2>4, <2>5 DEF FormInv
<1>3. ASSUME NEW r \in listing, AssetsAnswered(r) \/ AssetsRefused(r) PROVE FormInv'
    <2>1. r.of \in Places
        BY DEF FormInv, FormTypeOK
    <2>2. /\ listing' = listing \ {r} /\ assetsOf' \in {r.of, NoPlace}
          /\ UNCHANGED <<place, assetType, contractOf, chainsKnown, listsAsked, stale>>
        BY <1>3 DEF AssetsAnswered, AssetsRefused
    <2> QED BY <2>1, <2>2 DEF FormInv, FormTypeOK
<1>4. CASE PickToken
    <2>1. /\ assetType' = "token" /\ contractOf' = assetsOf
          /\ stale' = {h \in {"list"} : assetsOf # place}
          /\ UNCHANGED <<place, assetsOf, chainsKnown, listing, listsAsked>>
        BY <1>4 DEF PickToken
    <2>2. assetsOf # place => "list" \in stale'
        BY <2>1
    <2> QED BY <2>1, <2>2 DEF FormInv, FormTypeOK, AssetTypes
<1>5. CASE TypeContract
    BY <1>5 DEF TypeContract, FormInv, FormTypeOK
<1>6. ASSUME NEW type \in AssetTypes, PickNoToken(type) \/ SetAssetType(type)
      PROVE  FormInv'
    BY <1>6 DEF PickNoToken, SetAssetType, FormInv, FormTypeOK
<1>7. CASE ChainsAnswered
    BY <1>7 DEF ChainsAnswered, FormInv, FormTypeOK
<1>8. CASE UNCHANGED formVars
    BY <1>8 DEF formVars, FormInv, FormTypeOK
<1> QED BY <1>1, <1>2, <1>3, <1>4, <1>5, <1>6, <1>7, <1>8 DEF FormNext

LEMMA FormInitInv == FormInit => FormInv
<1> SUFFICES ASSUME NEW c \in ChainIds, place = <<c, FirstNetwork>>,
                    assetType = "auto", contractOf = NoPlace, assetsOf = NoPlace,
                    chainsKnown = FALSE, listing = {[n |-> 1, of |-> place]},
                    listsAsked = 1, stale = {}
             PROVE  FormInv
    BY DEF FormInit
<1>1. place \in Places
    BY PlacesTyped
<1>2. 1 \in 1 .. MaxLists /\ 1 \in 0 .. MaxLists
    BY FormAssumption
<1>3. listing \subseteq [n : 1 .. MaxLists, of : Places]
    BY <1>1, <1>2
<1>4. chainsKnown \in BOOLEAN
    BY Zenon
<1> QED BY <1>1, <1>2, <1>3, <1>4 DEF FormInv, FormTypeOK, AssetTypes

\* A contract under another network needs a network changed under it, and one of
\* another chain a list picked from before its network's own was there, for any
\* number of chains, networks and lists under way.
THEOREM ContractIsOfPlace == FormSpec => []ClaimNamesItsContract
<1>1. FormInv => ClaimNamesItsContract
    BY DEF FormInv, ClaimNamesItsContract, ClaimedContract
<1> QED BY <1>1, FormInitInv, FormInvInductive, PTL DEF FormSpec

-----------------------------------------------------------------------------
(* VerificationLab: the runs asked for, the timer and the verdict on screen *)

LabInv ==
    /\ LabTypeOK
    /\ ~startedOver => /\ scenario \in {scenarioId, NoScenario}
                       /\ \A x \in labRuns : x.id = scenarioId
    /\ running => ticking \/ labRuns # {}

\* Facts that agree in everything but the depth and the balance read afterwards.
AgreesButFor(f, depth, after) ==
    /\ f.transactionExists = TRUE /\ f.receiptOk = TRUE /\ f.recipientMatches = TRUE
    /\ f.tokenContractMatches = TRUE /\ f.amountMatches = TRUE
    /\ f.confirmations = depth /\ f.requiredConfirmations = 12
    /\ f.balanceBefore = 5 /\ f.balanceAfter = after /\ f.expectedDelta = 1

LEMMA OutcomeOfAgreeing ==
    ASSUME NEW f, NEW depth \in Nat, NEW after \in {5, 6}, AgreesButFor(f, depth, after)
    PROVE  Decision(f) = IF after = 5 THEN "mismatch"
                         ELSE IF depth < 12 THEN "pending" ELSE "verified"
<1>1. DependingState(f, "confirmations") = IF depth < 12 THEN "pending" ELSE "success"
    BY DEF DependingState, AgreesButFor
<1>2. ~HardFail(f)
    <2>1. \A name \in Depending : DependingState(f, name) # "failed"
        BY <1>1 DEF Depending, DependingState, Checked, AgreesButFor
    <2> QED BY <2>1 DEF HardFail, AgreesButFor
<1>3. f.balanceAfter # Unread /\ (BalanceMoved(f) <=> after = 6)
    BY UnreadAssumption DEF BalanceMoved, SubBaseUnits, AgreesButFor
<1> QED BY <1>1, <1>2, <1>3 DEF Decision

\* evaluatePayment comes to what is announced of each scenario.
LEMMA OutcomesArePromised ==
    \A id \in ScenarioIds : Decision(ScenarioFacts(id)) = Promised(id)
<1> SUFFICES ASSUME NEW id \in ScenarioIds
             PROVE  Decision(ScenarioFacts(id)) = Promised(id)
    OBVIOUS
<1>1. CASE id = "phantom_event"
    <2>1. /\ ScenarioFacts(id).transactionExists = FALSE
          /\ ScenarioFacts(id).balanceAfter = 5
        BY <1>1 DEF ScenarioFacts
    <2> QED BY <1>1, <2>1, UnreadAssumption DEF Decision, HardFail, Promised
<1>2. CASE id = "balance_mismatch"
    <2>1. AgreesButFor(ScenarioFacts(id), 20, 5)
        BY <1>2 DEF ScenarioFacts, AgreesButFor
    <2> QED BY <1>2, <2>1, OutcomeOfAgreeing DEF Promised
<1>3. CASE id = "valid_payment"
    <2>1. AgreesButFor(ScenarioFacts(id), 32, 6)
        BY <1>3 DEF ScenarioFacts, AgreesButFor
    <2> QED BY <1>3, <2>1, OutcomeOfAgreeing DEF Promised
<1>4. CASE id = "pending_payment"
    <2>1. AgreesButFor(ScenarioFacts(id), 2, 6)
        BY <1>4 DEF ScenarioFacts, AgreesButFor
    <2> QED BY <1>4, <2>1, OutcomeOfAgreeing DEF Promised
<1> QED BY <1>1, <1>2, <1>3, <1>4 DEF ScenarioIds

LEMMA FiveAreFinite ==
    ASSUME NEW a, NEW b, NEW c, NEW d, NEW e
    PROVE  IsFiniteSet({a, b, c, d, e})
<1>1. IsFiniteSet({a})
    BY FS_Singleton
<1>2. IsFiniteSet({a, b})
    <2>1. IsFiniteSet({a} \union {b})
        BY <1>1, FS_AddElement
    <2>2. {a} \union {b} = {a, b}
        OBVIOUS
    <2> QED BY <2>1, <2>2
<1>3. IsFiniteSet({a, b, c})
    <2>1. IsFiniteSet({a, b} \union {c})
        BY <1>2, FS_AddElement
    <2>2. {a, b} \union {c} = {a, b, c}
        OBVIOUS
    <2> QED BY <2>1, <2>2
<1>4. IsFiniteSet({a, b, c, d})
    <2>1. IsFiniteSet({a, b, c} \union {d})
        BY <1>3, FS_AddElement
    <2>2. {a, b, c} \union {d} = {a, b, c, d}
        OBVIOUS
    <2> QED BY <2>1, <2>2
<1> QED
    <2>1. IsFiniteSet({a, b, c, d} \union {e})
        BY <1>4, FS_AddElement
    <2>2. {a, b, c, d} \union {e} = {a, b, c, d, e}
        OBVIOUS
    <2> QED BY <2>1, <2>2

LEMMA StepsCounted == Cardinality(StepNames) \in Nat
<1> DEFINE first == {"event_detected", "payment_intent", "transaction_lookup",
                     "balance", "final_decision"}
<1>1. IsFiniteSet(first) /\ IsFiniteSet(Depending)
    BY FiveAreFinite DEF Depending
<1>2. StepNames = first \union Depending
    BY DEF StepNames
<1> HIDE DEF first
<1>3. IsFiniteSet(first \union Depending)
    BY <1>1, FS_Union
<1> QED BY <1>2, <1>3, FS_CardinalityType

LEMMA LabInvInductive == LabInv /\ [LabNext]_labVars => LabInv'
<1> SUFFICES ASSUME LabInv, [LabNext]_labVars PROVE LabInv'
    OBVIOUS
<1> DEFINE steps == Cardinality(StepNames)
<1>1. steps \in Nat
    BY StepsCounted
<1>2. LabTypeOK /\ visible \in 0 .. steps
    BY DEF LabInv, LabTypeOK
<1>3. ASSUME NEW id \in ScenarioIds, Start(id) PROVE LabInv'
    <2>1. starts + 1 \in 1 .. MaxStarts /\ starts' \in 0 .. MaxStarts
        BY <1>2, <1>3, LabAssumption DEF LabTypeOK, Start
    <2>2. startedOver' \in BOOLEAN
        BY <1>3, Zenon DEF Start
    <2>3. /\ scenarioId' = id /\ scenario' = NoScenario
          /\ visible' = 0 /\ running' = TRUE /\ ticking' = FALSE
          /\ labRuns' = labRuns \union {[n |-> starts + 1, id |-> id]}
          /\ UNCHANGED <<source, calm>>
        BY <1>3 DEF Start
    <2>4. startedOver' <=> (startedOver \/ \E x \in labRuns : x.id # id)
        BY <1>3 DEF Start
    <2>5. 0 \in 0 .. steps
        BY <1>1
    <2> HIDE DEF steps
    <2>6. LabTypeOK'
        <3>1. labRuns' \subseteq [n : 1 .. MaxStarts, id : ScenarioIds]
            BY <1>2, <2>1, <2>3 DEF LabTypeOK
        <3> QED BY <1>2, <2>1, <2>2, <2>3, <2>5, <3>1, Zenon DEF LabTypeOK, steps
    <2>7. ~startedOver' => \A x \in labRuns' : x.id = scenarioId'
        BY <2>3, <2>4
    <2> QED BY <2>3, <2>6, <2>7 DEF LabInv
<1>4. ASSUME NEW x \in labRuns, NEW from \in {"api", "browser"}, RunAnswered(x, from)
      PROVE  LabInv'
    <2>1. x.id \in ScenarioIds /\ calm \in BOOLEAN
        BY <1>2 DEF LabTypeOK
    <2>2. /\ labRuns' = labRuns \ {x} /\ scenario' = x.id /\ source' = from
          /\ visible' = IF calm THEN steps ELSE 0
          /\ running' = ~calm /\ ticking' = ~calm
          /\ UNCHANGED <<scenarioId, starts, calm, startedOver>>
        BY <1>4 DEF RunAnswered
    <2>3. visible' \in 0 .. steps
        BY <1>1, <2>2
    <2> HIDE DEF steps
    <2>4. running' \in BOOLEAN /\ ticking' \in BOOLEAN /\ (running' => ticking')
        BY <2>2, Zenon
    <2>5. LabTypeOK'
        BY <1>2, <2>1, <2>2, <2>3, <2>4 DEF LabTypeOK, steps
    <2> QED BY <2>2, <2>4, <2>5 DEF LabInv
<1>5. CASE Uncover
    <2>1. /\ IF visible >= steps
             THEN ticking' = FALSE /\ running' = FALSE /\ UNCHANGED visible
             ELSE visible' = visible + 1 /\ UNCHANGED <<running, ticking>>
          /\ UNCHANGED <<scenarioId, labRuns, starts, scenario, source, calm, startedOver>>
        BY <1>5, Zenon DEF Uncover
    <2> HIDE DEF steps
    <2>2. visible' \in 0 .. steps
        BY <1>1, <1>2, <2>1
    <2>3. \/ running' = FALSE /\ ticking' = FALSE
          \/ UNCHANGED <<running, ticking>>
        BY <2>1
    <2>4. running \in BOOLEAN /\ ticking \in BOOLEAN /\ (running => ticking \/ labRuns # {})
        BY <1>2 DEF LabTypeOK, LabInv
    <2>5. /\ running' \in BOOLEAN /\ ticking' \in BOOLEAN
          /\ running' => ticking' \/ labRuns' # {}
        <3>1. labRuns' = labRuns
            BY <2>1
        <3>2. CASE running' = FALSE /\ ticking' = FALSE
            BY <3>2, Zenon
        <3>3. CASE UNCHANGED <<running, ticking>>
            BY <2>4, <3>1, <3>3
        <3> QED BY <2>3, <3>2, <3>3
    <2>6. LabTypeOK'
        BY <1>2, <2>1, <2>2, <2>5 DEF LabTypeOK, steps
    <2> QED BY <2>1, <2>5, <2>6 DEF LabInv
<1>6. CASE Reset
    <2>1. /\ scenario' = NoScenario /\ source' = "none" /\ visible' = 0
          /\ running' = FALSE /\ ticking' = FALSE
          /\ UNCHANGED <<scenarioId, labRuns, starts, calm, startedOver>>
        BY <1>6 DEF Reset
    <2>2. 0 \in 0 .. steps
        BY <1>1
    <2> HIDE DEF steps
    <2> QED BY <1>2, <2>1, <2>2 DEF LabInv, LabTypeOK, steps
<1>7. CASE UNCHANGED labVars
    BY <1>7 DEF labVars, LabInv, LabTypeOK
<1> QED BY <1>3, <1>4, <1>5, <1>6, <1>7 DEF LabNext

LEMMA LabInitInv == LabInit => LabInv
<1> SUFFICES ASSUME LabInit PROVE LabInv
    OBVIOUS
<1>1. 0 \in 0 .. Cardinality(StepNames) /\ 0 \in 0 .. MaxStarts
    BY StepsCounted, LabAssumption
<1>2. running \in BOOLEAN /\ ticking \in BOOLEAN /\ startedOver \in BOOLEAN
    BY Zenon DEF LabInit
<1> QED BY <1>1, <1>2 DEF LabInit, LabInv, LabTypeOK, ScenarioIds

\* The outcome on screen is the one announced under the marked button until a
\* scenario is started over another one, and what the lab says it is checking is
\* asked for or being uncovered.
THEOREM LabIsHonest == LabSpec => []LabShowsItsScenario
<1>1. ASSUME LabInv PROVE LabShowsItsScenario
    <2>1. ASSUME scenario # NoScenario, ~startedOver
          PROVE  Decision(ScenarioFacts(scenario)) = Promised(scenarioId)
        <3>1. scenario = scenarioId /\ scenarioId \in ScenarioIds
            BY <1>1, <2>1 DEF LabInv, LabTypeOK
        <3> QED BY <3>1, OutcomesArePromised
    <2> QED BY <1>1, <2>1 DEF LabInv, LabShowsItsScenario
<1> QED BY <1>1, LabInitInv, LabInvInductive, PTL DEF LabSpec

-----------------------------------------------------------------------------
(* Types of the parts above *)

LEMMA SendTyped == SendTypeOK /\ [SendNext]_sendVars => SendTypeOK'
<1> SUFFICES ASSUME SendTypeOK, [SendNext]_sendVars PROVE SendTypeOK'
    OBVIOUS
<1>1. /\ panel \in 1 .. MaxPanels /\ panel \in 0 .. MaxPanels /\ MaxPanels \in Nat
      /\ send \in [Sends -> [stage : SendStages, panel : 0 .. MaxPanels]]
      /\ chain \in [Sends -> {"none", "broadcast"} \union Ends]
      /\ checked \in BOOLEAN /\ twice \in BOOLEAN
    BY SendAssumption DEF SendTypeOK
<1>2. CASE Review
    BY <1>2 DEF Review, SendTypeOK, Phases
<1>3. CASE Tick
    <2>1. checked' \in BOOLEAN
        BY <1>3, Zenon DEF Tick
    <2> QED BY <1>3, <2>1 DEF Tick, SendTypeOK
<1>4. CASE LeavePanel
    <2>1. checked' \in BOOLEAN /\ twice' \in BOOLEAN
        BY <1>4, Zenon DEF LeavePanel
    <2>2. panel' \in 1 .. MaxPanels
        BY <1>1, <1>4 DEF LeavePanel
    <2> QED BY <1>4, <2>1, <2>2 DEF LeavePanel, SendTypeOK, Phases
<1>5. ASSUME NEW s \in Sends, Click(s) PROVE SendTypeOK'
    <2> DEFINE new == [stage |-> IF walletKind = "local" THEN "sending" ELSE "switching",
                       panel |-> panel]
    <2>1. twice' \in BOOLEAN
        BY <1>5, Zenon DEF Click
    <2>2. new \in [stage : SendStages, panel : 0 .. MaxPanels]
        BY <1>1 DEF SendStages
    <2>3. send' = [send EXCEPT ![s] = new]
        BY <1>5 DEF Click
    <2> HIDE DEF new
    <2>4. send' \in [Sends -> [stage : SendStages, panel : 0 .. MaxPanels]]
        BY <1>1, <2>2, <2>3
    <2>5. phase' \in Phases
        BY <1>5 DEF Click, SendTypeOK, Phases
    <2> QED BY <1>5, <2>1, <2>4, <2>5 DEF Click, SendTypeOK
<1>6. ASSUME NEW s \in Sends, NEW stage \in SendStages, Step(s, stage)
      PROVE  send' \in [Sends -> [stage : SendStages, panel : 0 .. MaxPanels]]
    BY <1>1, <1>6 DEF Step
<1>7. ASSUME NEW s \in Sends,
             NetworkSwitched(s) \/ Broadcast(s) \/ Receipt(s) \/ SendFails(s)
      PROVE  SendTypeOK'
    <2>1. /\ UNCHANGED <<walletKind, panel, checked, twice>>
          /\ \E stage \in SendStages : Step(s, stage)
          /\ hash' \in {hash, s}
        BY <1>7 DEF NetworkSwitched, Broadcast, Receipt, SendFails, Untouched, SendStages
    <2>2. phase' \in Phases
        BY <1>7 DEF NetworkSwitched, Broadcast, Receipt, SendFails, Report, Phases, SendTypeOK
    <2>3. chain' \in [Sends -> {"none", "broadcast"} \union Ends]
        BY <1>1, <1>7 DEF NetworkSwitched, Broadcast, Receipt, SendFails
    <2>4. send' \in [Sends -> [stage : SendStages, panel : 0 .. MaxPanels]]
        BY <1>6, <2>1
    <2> QED BY <2>1, <2>2, <2>3, <2>4 DEF SendTypeOK
<1>8. ASSUME NEW s \in Sends, NEW end \in Ends, Mined(s, end)
      PROVE  SendTypeOK'
    BY <1>1, <1>8 DEF Mined, Untouched, SendTypeOK
<1>9. CASE UNCHANGED sendVars
    BY <1>9 DEF sendVars, SendTypeOK
<1> QED BY <1>2, <1>3, <1>4, <1>5, <1>7, <1>8, <1>9 DEF SendNext

LEMMA SendInitTyped == SendInit => SendTypeOK
<1> SUFFICES ASSUME SendInit PROVE SendTypeOK
    OBVIOUS
<1>1. checked \in BOOLEAN /\ twice \in BOOLEAN
    BY Zenon DEF SendInit
<1>2. 1 \in 1 .. MaxPanels /\ 0 \in 0 .. MaxPanels
    BY SendAssumption
<1>3. send \in [Sends -> [stage : SendStages, panel : 0 .. MaxPanels]]
    BY <1>2 DEF SendInit, SendStages
<1> QED BY <1>1, <1>2, <1>3 DEF SendInit, SendTypeOK, Phases

-----------------------------------------------------------------------------
\* What BalancesInv leaves out of the types: the bounds, and the rows themselves.
BalancesRest ==
    /\ holdings \subseteq Rows /\ checksMet \in BOOLEAN
    /\ started <= MaxRefreshes /\ asked <= MaxChecks
    /\ verdict <= asked /\ note <= asked

LEMMA MergedIsARow ==
    ASSUME NEW row \in Rows, NEW previous \in SUBSET Rows
    PROVE  Merge(row, previous) \in Rows
<1> DEFINE Old(old) == old.asset = row.asset /\ old.state = "verified"
<1>1. ASSUME NEW old \in previous, Old(old)
      PROVE  (CHOOSE x \in previous : Old(x)) \in Rows
    BY <1>1
<1>2. ASSUME NEW x \in Rows PROVE [x EXCEPT !.state = "stale"] \in Rows
    BY DEF Rows
<1> HIDE DEF Old
<1>3. Merge(row, previous) =
        IF row.state # "unavailable" THEN row
        ELSE IF \E old \in previous : Old(old)
             THEN [CHOOSE old \in previous : Old(old) EXCEPT !.state = "stale"] ELSE row
    BY Zenon DEF Merge, Old
<1> QED BY <1>1, <1>2, <1>3

LEMMA RefreshedRowsTyped ==
    ASSUME BalancesInv, BalancesRest, NEW x \in inFlight,
           NEW results \in [AssetIds(x.of) -> ReadResults], Refreshed(x, results)
    PROVE  holdings' \subseteq Rows
<1> DEFINE Row(a) == [asset |-> a, state |-> results[a], of |-> x.of]
           next == {Row(a) : a \in AssetIds(x.of)}
<1>1. x.of \in Contexts
    BY DEF BalancesInv, BalancesTyped
<1>2. AssetIds(x.of) \subseteq {"native"} \union Networks
    BY <1>1 DEF AssetIds, Contexts
<1>3. ASSUME NEW a \in AssetIds(x.of) PROVE Row(a) \in Rows
    <2>1. results[a] \in ReadResults
        OBVIOUS
    <2> QED BY <1>1, <1>2, <2>1 DEF Rows
<1>4. holdings' = {Merge(row, holdings) : row \in next}
    BY DEF Refreshed
<1> HIDE DEF Row
<1>5. next \subseteq Rows /\ holdings \in SUBSET Rows
    BY <1>3 DEF BalancesRest
<1> HIDE DEF next
<1> QED BY <1>4, <1>5, MergedIsARow

LEMMA BalancesRestInductive ==
    BalancesInv /\ BalancesRest /\ [BalancesNext]_<<balanceVars, checkVars>> => BalancesRest'
<1> SUFFICES ASSUME BalancesInv, BalancesRest, [BalancesNext]_<<balanceVars, checkVars>>
             PROVE  BalancesRest'
    OBVIOUS
<1>1. /\ started \in Nat /\ asked \in Nat /\ MaxRefreshes \in Nat /\ MaxChecks \in Nat
      /\ verdict \in Nat /\ note \in Nat
      /\ \A x \in checking : x.number \in 1 .. asked
    BY BalanceBounds DEF BalancesInv, BalancesTyped
<1>2. ASSUME NEW c, StartRefresh(c), UNCHANGED checkVars PROVE BalancesRest'
    BY <1>1, <1>2 DEF StartRefresh, checkVars, BalancesRest
<1>3. ASSUME NEW c \in Contexts, SwitchTo(c) PROVE BalancesRest'
    BY <1>2, <1>3 DEF SwitchTo
<1>4. CASE RefreshAgain
    BY <1>2, <1>4 DEF RefreshAgain
<1>5. ASSUME NEW x \in inFlight, NEW results \in [AssetIds(x.of) -> ReadResults],
             Refreshed(x, results)
      PROVE  BalancesRest'
    <2>1. holdings' \subseteq Rows
        BY <1>5, RefreshedRowsTyped
    <2>2. UNCHANGED <<started, checkVars>>
        BY <1>5 DEF Refreshed
    <2> QED BY <2>1, <2>2 DEF BalancesRest, checkVars
<1>6. ASSUME NEW x \in inFlight, RefreshFails(x) PROVE BalancesRest'
    BY <1>6 DEF RefreshFails, BalancesRest, checkVars
<1>7. CASE StartCheck
    <2>1. checksMet' \in BOOLEAN
        BY <1>7, Zenon DEF StartCheck
    <2>2. /\ asked < MaxChecks /\ asked' = asked + 1 /\ verdict' = 0 /\ note' = 0
          /\ UNCHANGED <<holdings, started>>
        BY <1>7 DEF StartCheck, balanceVars
    <2> QED BY <1>1, <2>1, <2>2 DEF BalancesRest
<1>8. ASSUME NEW x \in checking, VerdictArrives(x) \/ BalanceArrives(x) \/ CheckFails(x)
      PROVE  BalancesRest'
    BY <1>1, <1>8 DEF VerdictArrives, BalanceArrives, CheckFails, balanceVars, BalancesRest
<1>9. CASE UNCHANGED <<balanceVars, checkVars>>
    BY <1>9 DEF balanceVars, checkVars, BalancesRest
<1> QED BY <1>3, <1>4, <1>5, <1>6, <1>7, <1>8, <1>9 DEF BalancesNext

LEMMA BalancesInitRest == BalancesInit => BalancesRest
<1>1. BalancesInit => checksMet \in BOOLEAN
    BY Zenon DEF BalancesInit
<1> QED BY <1>1, BalanceBounds DEF BalancesInit, BalancesRest

LEMMA BalancesTypes == BalancesInv /\ BalancesRest => BalancesTypeOK
    BY BalanceBounds DEF BalancesInv, BalancesTyped, BalancesRest, BalancesTypeOK

-----------------------------------------------------------------------------
BrowserRequests ==
    [number : 1 .. MaxRequests, kind : {"me", "login", "logout"}, token : AnyToken,
     cancelled : BOOLEAN]

LEMMA RequestTyped ==
    ASSUME BrowserTypeOK, sent < MaxRequests, NEW kind \in {"me", "login", "logout"},
           NEW t \in AnyToken
    PROVE  /\ Request(sent + 1, kind, t) \in BrowserRequests
           /\ sent + 1 \in 0 .. MaxRequests
<1>1. sent + 1 \in 1 .. MaxRequests /\ sent + 1 \in 0 .. MaxRequests
    BY TokenAssumption DEF BrowserTypeOK
<1> QED BY <1>1 DEF Request, BrowserRequests

LEMMA CancelledTyped ==
    ASSUME NEW requests \in SUBSET BrowserRequests
    PROVE  Cancelled(requests) \in SUBSET BrowserRequests
<1> SUFFICES ASSUME NEW x \in requests
             PROVE  [x EXCEPT !.cancelled = x.cancelled \/ x.kind = "me"] \in BrowserRequests
    BY DEF Cancelled
<1> DEFINE over == x.cancelled \/ x.kind = "me"
<1>1. over \in BOOLEAN
    BY Zenon
<1>2. [x EXCEPT !.cancelled = over] \in BrowserRequests
    <2> HIDE DEF over
    <2> QED BY <1>1 DEF BrowserRequests
<1> QED BY <1>2

LEMMA SetTokenTyped ==
    ASSUME BrowserTypeOK, NEW t \in AnyToken, NEW others \in SUBSET BrowserRequests,
           SetToken(t, others)
    PROVE  /\ sessionToken' \in AnyToken /\ asking' \in SUBSET BrowserRequests
           /\ sent' \in 0 .. MaxRequests
<1>1. CASE t = sessionToken
    BY <1>1 DEF SetToken, BrowserTypeOK
<1>2. CASE t # sessionToken
    <2>1. sent < MaxRequests /\ sent' = sent + 1 /\ sessionToken' = t
          /\ asking' = Cancelled(others) \union {Request(sent + 1, "me", t)}
        BY <1>2 DEF SetToken
    <2> QED BY <2>1, RequestTyped, CancelledTyped
<1> QED BY <1>1, <1>2

LEMMA BrowserTyped == BrowserTypeOK /\ [BrowserNext]_browserVars => BrowserTypeOK'
<1> SUFFICES ASSUME BrowserTypeOK, [BrowserNext]_browserVars PROVE BrowserTypeOK'
    OBVIOUS
<1>1. /\ storedToken \in AnyToken /\ sessionToken \in AnyToken /\ signedInAs \in AnyToken
      /\ cookie \in AnyToken /\ NoToken \in AnyToken /\ issued \subseteq Tokens
      /\ asking \in SUBSET BrowserRequests /\ sent \in 0 .. MaxRequests
      /\ lostLate \in BOOLEAN
    BY DEF BrowserTypeOK, BrowserRequests, AnyToken
<1>2. ASSUME storedToken' \in AnyToken, sessionToken' \in AnyToken, signedInAs' \in AnyToken,
             cookie' \in AnyToken, issued' \subseteq Tokens,
             asking' \in SUBSET BrowserRequests, sent' \in 0 .. MaxRequests,
             lostLate' \in BOOLEAN
      PROVE  BrowserTypeOK'
    BY <1>2 DEF BrowserTypeOK, BrowserRequests
<1>3. \A x : asking \ {x} \in SUBSET BrowserRequests
    BY <1>1
<1>4. ASSUME NEW kind \in {"me", "login", "logout"}, NEW t \in AnyToken,
             NEW others \in SUBSET BrowserRequests,
             sent < MaxRequests, sent' = sent + 1,
             asking' = others \union {Request(sent + 1, kind, t)},
             sessionToken' \in AnyToken, signedInAs' \in AnyToken, lostLate' \in BOOLEAN,
             UNCHANGED <<storedToken, cookie, issued>>
      PROVE  BrowserTypeOK'
    BY <1>1, <1>2, <1>4, RequestTyped
<1>5. CASE ConnectionChanged
    BY <1>1, <1>4, <1>5, CancelledTyped DEF ConnectionChanged
<1>6. CASE SendLogin \/ SendLogout
    BY <1>1, <1>4, <1>6 DEF SendLogin, SendLogout
<1>7. CASE ReloadPage
    <2>1. lostLate' \in BOOLEAN
        BY <1>7, Zenon DEF ReloadPage
    <2>2. /\ sent < MaxRequests /\ sent' = sent + 1
          /\ sessionToken' = storedToken /\ signedInAs' = NoToken
          /\ asking' = {Request(sent + 1, "me", storedToken)}
          /\ UNCHANGED <<storedToken, cookie, issued>>
        BY <1>7 DEF ReloadPage
    <2>3. asking' \in SUBSET BrowserRequests /\ sent' \in 0 .. MaxRequests
        BY <1>1, <2>2, RequestTyped
    <2> QED BY <1>1, <1>2, <2>1, <2>2, <2>3
<1>8. ASSUME NEW x \in asking, MeAnswers(x) PROVE BrowserTypeOK'
    <2>1. UNCHANGED <<cookie, issued, lostLate>>
        BY <1>8 DEF MeAnswers
    <2>2. CASE x.cancelled
        BY <1>1, <1>2, <1>3, <1>8, <2>1, <2>2 DEF MeAnswers
    <2>3. CASE ~x.cancelled
        <3> DEFINE t == IF x.token = NoToken THEN cookie ELSE x.token
        <3>1. /\ signedInAs' = t /\ storedToken' = IF t = sessionToken THEN storedToken ELSE t
              /\ SetToken(t, asking \ {x})
            BY <1>8, <2>3 DEF MeAnswers
        <3>2. t \in AnyToken
            BY <1>1 DEF BrowserRequests
        <3> HIDE DEF t
        <3> QED BY <1>1, <1>2, <1>3, <2>1, <3>1, <3>2, SetTokenTyped
    <2> QED BY <2>2, <2>3
<1>9. ASSUME NEW x \in asking, MeFails(x) PROVE BrowserTypeOK'
    <2>1. storedToken' = NoToken /\ UNCHANGED <<cookie, issued>>
        BY <1>9 DEF MeFails
    <2>2. CASE x.cancelled
        <3>1. lostLate' \in BOOLEAN
            BY <1>9, <2>2, Zenon DEF MeFails
        <3> QED BY <1>1, <1>2, <1>3, <1>9, <2>1, <2>2, <3>1 DEF MeFails
    <2>3. CASE ~x.cancelled
        BY <1>1, <1>2, <1>3, <1>9, <2>1, <2>3, SetTokenTyped DEF MeFails
    <2> QED BY <2>2, <2>3
<1>10. ASSUME NEW x \in asking, LoginFails(x) PROVE BrowserTypeOK'
    BY <1>1, <1>2, <1>3, <1>10 DEF LoginFails
<1>11. ASSUME NEW x \in asking, LogoutEnds(x) PROVE BrowserTypeOK'
    BY <1>1, <1>2, <1>3, <1>11, SetTokenTyped DEF LogoutEnds
<1>12. ASSUME NEW x \in asking, NEW t \in Tokens, LoginAnswers(x, t) PROVE BrowserTypeOK'
    <2>1. t \in AnyToken
        BY DEF AnyToken
    <2> QED BY <1>1, <1>2, <1>3, <1>12, <2>1, SetTokenTyped DEF LoginAnswers
<1>13. CASE UNCHANGED browserVars
    BY <1>13 DEF browserVars, BrowserTypeOK
<1> QED BY <1>5, <1>6, <1>7, <1>8, <1>9, <1>10, <1>11, <1>12, <1>13 DEF BrowserNext

LEMMA BrowserInitTyped == BrowserInit => BrowserTypeOK
<1> SUFFICES ASSUME BrowserInit PROVE BrowserTypeOK
    OBVIOUS
<1>1. 1 \in 1 .. MaxRequests /\ 1 \in 0 .. MaxRequests
    BY TokenAssumption
<1>2. Request(1, "me", storedToken) \in [number : 1 .. MaxRequests,
          kind : {"me", "login", "logout"}, token : AnyToken, cancelled : BOOLEAN]
    BY <1>1 DEF BrowserInit, Request
<1>3. lostLate \in BOOLEAN
    BY Zenon DEF BrowserInit
<1>4. storedToken \in AnyToken /\ cookie \in AnyToken /\ NoToken \in AnyToken
      /\ issued \subseteq Tokens
    BY DEF BrowserInit, AnyToken
<1> QED BY <1>1, <1>2, <1>3, <1>4 DEF BrowserInit, BrowserTypeOK

-----------------------------------------------------------------------------
\* What LinkInv leaves out of the types.
LinkRest ==
    /\ built \in BOOLEAN /\ config \in {"absent", "loading", "known", "missing"}
    /\ page <= MaxPages /\ pairing \in Jobs \union {NoJob}

LEMMA LinkRestInductive == LinkInv /\ LinkRest /\ [LinkNext]_linkVars => LinkRest'
<1> SUFFICES ASSUME LinkInv, LinkRest, [LinkNext]_linkVars PROVE LinkRest'
    OBVIOUS
<1>1. page \in Nat /\ MaxPages \in Nat
    BY PageAssumption DEF LinkInv, LinkTyped
<1>2. ASSUME NEW j \in Jobs, Open(j) \/ Reload(j) PROVE LinkRest'
    <2>1. page' = page + 1 /\ page < MaxPages
        BY <1>1, <1>2 DEF Open, Reload
    <2>2. pairing' = NoJob /\ UNCHANGED built
          /\ config' \in {"absent", "loading", "known", "missing"}
        BY <1>2 DEF Open, Reload, LinkRest
    <2> QED BY <1>1, <2>1, <2>2 DEF LinkRest
<1>3. CASE ProjectIdArrives
    BY <1>3 DEF ProjectIdArrives, onPage, LinkRest
<1>4. CASE AddWatch \/ SwitchAccount \/ CancelPairing \/ Lock \/ AutoLock \/ Unlink
           \/ PhoneDisconnects \/ \E l \in Links : AccountsChanged(l)
    BY <1>4 DEF AddWatch, SwitchAccount, CancelPairing, Lock, AutoLock, Unlink,
                PhoneDisconnects, AccountsChanged, LinkRest
<1>5. ASSUME NEW j \in Jobs,
             \/ StartUnlock(j) \/ AttemptFails(j) \/ PreviousLeft(j)
             \/ \E p \in Phrases : StartSeal(j, p)
             \/ \E kind \in {"injected", "metamask"} : StartAsking(j, kind)
      PROVE  LinkRest'
    BY <1>5 DEF StartUnlock, AttemptFails, PreviousLeft, StartSeal, StartAsking, onPage, LinkRest
<1>6. ASSUME NEW j \in Jobs,
             \/ KeyDerived(j) \/ WalletAnswers(j) \/ StartPairing(j) \/ PairingFails(j)
             \/ ProviderCreated(j) \/ \E l \in Links : PhoneApproves(j, l)
      PROVE  LinkRest'
    BY <1>6 DEF KeyDerived, WalletAnswers, StartPairing, PairingFails, ProviderCreated,
                PhoneApproves, LinkRest
<1>7. CASE UNCHANGED linkVars
    BY <1>7 DEF linkVars, onPage, LinkRest
<1> QED BY <1>2, <1>3, <1>4, <1>5, <1>6, <1>7 DEF LinkNext

LEMMA LinkInitRest == LinkInit => LinkRest
<1>1. LinkInit => built \in BOOLEAN /\ config \in {"absent", "known"}
    BY DEF LinkInit
<1>2. LinkInit => page <= MaxPages /\ pairing \in Jobs \union {NoJob}
    BY PageAssumption DEF LinkInit
<1> QED BY <1>1, <1>2 DEF LinkRest

LEMMA LinkTypes == LinkInv /\ LinkRest => LinkTypeOK
<1> SUFFICES ASSUME LinkInv, LinkRest PROVE LinkTypeOK
    OBVIOUS
<1>1. LinkTyped /\ MaxPages \in Nat
    BY PageAssumption DEF LinkInv
<1>2. ASSUME NEW j \in Jobs
      PROVE  /\ job[j].kind \in Kinds /\ job[j].stage \in Stages
             /\ job[j].page \in 0 .. MaxPages /\ job[j].ticket \in 0 .. generation
             /\ job[j].result \in Sessions
    <2>1. job[j] \in JobRecord
        BY <1>1 DEF LinkTyped
    <2>2. /\ job[j].kind \in Kinds /\ job[j].stage \in Stages /\ job[j].result \in Sessions
          /\ job[j].page \in Nat /\ job[j].ticket \in Nat
        BY <2>1 DEF JobRecord
    <2>3. job[j].page <= page /\ job[j].ticket <= generation
        BY DEF LinkInv, TicketInv
    <2>4. page \in Nat /\ generation \in Nat /\ page <= MaxPages
        BY <1>1 DEF LinkTyped, LinkRest
    <2> QED BY <1>1, <2>2, <2>3, <2>4
<1>3. page \in 0 .. MaxPages
    BY <1>1 DEF LinkTyped, LinkRest
<1> QED BY <1>1, <1>2, <1>3 DEF LinkTyped, LinkRest, LinkTypeOK

-----------------------------------------------------------------------------
(* Single sign-on: one cookie for all tabs *)

\* An attempt that is back brings its own cookie, or another took it; what was
\* exchanged before was sent twice; who is refused has a cause.
SignOnInv ==
    /\ SsoTypeOK
    /\ \A a \in Attempts :
        /\ leg[a] = "provider" => jar = a \/ a \in displaced
        /\ leg[a] = "returning" => carried[a] = a \/ a \in displaced \union denied
        /\ leg[a] \in {"returning", "checked"} /\ a \in spent => a \in denied
        /\ leg[a] \in {"page", "asked", "provider"} => a \notin spent
        /\ offer[a] = "here" => enabled \/ (troubles > 0 /\ hosted)
    /\ RefusedForCause /\ OfferedIsConfigured

LEMMA SignOnInit == SsoInit => SignOnInv
BY AttemptAssumption DEF SsoInit, SignOnInv, SsoTypeOK, RefusedForCause, OfferedIsConfigured, Legs

LEMMA SignOnStep == SignOnInv /\ [SsoNext]_ssoVars => SignOnInv'
<1> SUFFICES ASSUME SignOnInv, [SsoNext]_ssoVars PROVE SignOnInv'
    OBVIOUS
<1> USE AttemptAssumption
        DEF SignOnInv, SsoTypeOK, RefusedForCause, OfferedIsConfigured, Reach,
            Setting, Rest, Legs, Underway, Over
<1>1. ASSUME NEW a \in Attempts, OfferLink(a) PROVE SignOnInv'
    <2>1. /\ offer' \in [Attempts -> {"unread", "none", "here", "elsewhere"}]
          /\ troubles' \in 0 .. MaxTroubles /\ troubles' >= troubles
        BY <1>1 DEF OfferLink, Trouble
    <2>2. ASSUME NEW b \in Attempts, offer'[b] = "here"
          PROVE  enabled \/ (troubles' > 0 /\ hosted)
        <3>1. CASE b # a
            <4>1. offer[b] = "here"
                BY <1>1, <2>2, <3>1 DEF OfferLink
            <4> QED BY <2>1, <4>1
        <3>2. CASE b = a
            <4>1. PICK link \in {"none", "here", "elsewhere"} :
                    /\ offer' = [offer EXCEPT ![a] = link]
                    /\ \/ enabled /\ link = "here" /\ UNCHANGED troubles
                       \/ ~enabled /\ link = "none" /\ hosted /\ UNCHANGED troubles
                       \/ ~enabled /\ link # "here" /\ ~hosted /\ UNCHANGED troubles
                       \/ Trouble /\ IF hosted THEN link = "here" ELSE link # "here"
                BY <1>1, Zenon DEF OfferLink
            <4>2. link = "here" /\ link # "none"
                BY <2>2, <3>2, <4>1
            <4>3. enabled \/ (Trouble /\ hosted)
                <5>1. CASE hosted
                    BY <4>1, <4>2, <5>1, Zenon
                <5>2. CASE ~hosted
                    BY <4>1, <4>2, <5>2, Zenon
                <5> QED BY <5>1, <5>2
            <4> QED BY <4>3 DEF Trouble
        <3> QED BY <3>1, <3>2
    <2>3. UNCHANGED <<enabled, hosted, leg, jar, carried, late, spent, displaced, denied>>
        BY <1>1 DEF OfferLink
    <2> QED BY <2>1, <2>2, <2>3
<1>2. ASSUME NEW a \in Attempts, GoToLogin(a) PROVE SignOnInv'
    BY <1>2 DEF GoToLogin
<1>3. ASSUME NEW a \in Attempts, Expire(a) PROVE SignOnInv'
    BY <1>3 DEF Expire
<1>4. ASSUME NEW a \in Attempts, LoginAnswered(a) PROVE SignOnInv'
    <2>1. \A b \in Attempts : leg[b] = "provider" /\ jar = b => b \in displaced'
        BY <1>4 DEF LoginAnswered, Waiting
    <2>2. displaced \subseteq displaced' /\ displaced' \subseteq Attempts
        BY <1>4 DEF LoginAnswered, Waiting
    <2> QED BY <1>4, <2>1, <2>2 DEF LoginAnswered
<1>5. ASSUME NEW a \in Attempts, NoEndpoints(a) PROVE SignOnInv'
    BY <1>5 DEF NoEndpoints, Trouble
<1>6. ASSUME NEW a \in Attempts, Authenticate(a) PROVE SignOnInv'
    BY <1>6 DEF Authenticate
<1>7. ASSUME NEW a \in Attempts, ProviderDenies(a) PROVE SignOnInv'
    BY <1>7 DEF ProviderDenies
<1>8. ASSUME NEW a \in Attempts, CheckState(a) PROVE SignOnInv'
    <2>1. CASE Recognised(a)
        BY <1>8, <2>1 DEF CheckState, Recognised
    <2>2. CASE ~Recognised(a)
        <3>1. a \in late \union denied \union displaced
            BY <1>8, <2>2 DEF CheckState, Recognised
        <3> QED BY <1>8, <2>2, <3>1 DEF CheckState
    <2> QED BY <2>1, <2>2
<1>9. ASSUME NEW a \in Attempts, ExchangeCode(a) PROVE SignOnInv'
    BY <1>9 DEF ExchangeCode
<1>10. ASSUME NEW a \in Attempts, CallbackFails(a) PROVE SignOnInv'
    <2>1. /\ \A b \in Attempts : leg[b] = "provider" /\ jar = b => jar' = b \/ b \in displaced'
          /\ displaced \subseteq displaced' /\ displaced' \subseteq Attempts
          /\ spent' \subseteq spent \union {a} /\ jar' \in Attempts \union {NoAttempt}
        BY <1>10 DEF CallbackFails, Waiting
    <2>2. /\ leg' = [leg EXCEPT ![a] = "refused"] /\ denied' = denied \union {a}
          /\ leg[a] # "provider" /\ UNCHANGED <<enabled, hosted, offer, carried, late>>
          /\ troubles' \in 0 .. MaxTroubles /\ troubles' >= troubles
        BY <1>10 DEF CallbackFails, Trouble
    <2> QED BY <2>1, <2>2
<1>11. ASSUME NEW a \in Attempts, CallbackAnswered(a) PROVE SignOnInv'
    BY <1>11 DEF CallbackAnswered, Waiting
<1>12. ASSUME NEW a \in Attempts, SendAgain(a) PROVE SignOnInv'
    BY <1>12 DEF SendAgain, Trouble
<1>13. CASE UNCHANGED ssoVars
    BY <1>13 DEF ssoVars
<1> QED BY <1>1, <1>2, <1>3, <1>4, <1>5, <1>6, <1>7, <1>8, <1>9, <1>10, <1>11, <1>12, <1>13
        DEF SsoNext

\* While nobody was late or denied: once an attempt is at the provider or past
\* it, one is in, or is on its way there with its own cookie.
Outside == {"page", "asked", "unconfigured", "unavailable", "elsewhere"}
Favoured(a) ==
    \/ leg[a] \in {"in", "checked", "exchanged"}
    \/ leg[a] = "provider" /\ jar = a
    \/ leg[a] = "returning" /\ carried[a] = a
FavouredInv ==
    late = {} /\ denied = {} /\ (\E a \in Attempts : leg[a] \notin Outside)
        => \E a \in Attempts : Favoured(a)

LEMMA FavouredStep ==
    SignOnInv /\ FavouredInv /\ [SsoNext]_ssoVars => FavouredInv'
<1> SUFFICES ASSUME SignOnInv, FavouredInv, [SsoNext]_ssoVars,
                    late' = {}, denied' = {}, \E a \in Attempts : leg'[a] \notin Outside
             PROVE  \E a \in Attempts : Favoured(a)'
    BY DEF FavouredInv
<1> USE AttemptAssumption
        DEF SignOnInv, SsoTypeOK, Reach, Setting, Rest, Legs, Underway, Over, Outside
<1>0. /\ late = {} /\ denied = {}
    BY DEF SsoNext, OfferLink, GoToLogin, Expire, LoginAnswered, NoEndpoints, Authenticate, ProviderDenies,
        CheckState, ExchangeCode, CallbackFails, CallbackAnswered, SendAgain, ssoVars
<1>1. CASE UNCHANGED <<leg, jar, carried>>
    BY <1>0, <1>1 DEF FavouredInv, Favoured
<1>2. ASSUME NEW a \in Attempts, OfferLink(a) \/ Expire(a)
      PROVE  \E b \in Attempts : Favoured(b)'
    BY <1>1, <1>2 DEF OfferLink, Expire
<1>3. ASSUME NEW a \in Attempts, GoToLogin(a) \/ NoEndpoints(a)
      PROVE  \E b \in Attempts : Favoured(b)'
    <2>1. /\ leg[a] \in {"page", "asked"} /\ UNCHANGED <<jar, carried>>
          /\ leg'[a] \in Outside /\ \A b \in Attempts : b # a => leg'[b] = leg[b]
        BY <1>3 DEF GoToLogin, NoEndpoints
    <2>2. PICK b \in Attempts : leg'[b] \notin Outside
        OBVIOUS
    <2>3. leg[b] \notin Outside
        BY <2>1, <2>2
    <2>4. PICK f \in Attempts : Favoured(f)
        BY <1>0, <2>3 DEF FavouredInv
    <2>5. f # a
        BY <2>1, <2>4 DEF Favoured
    <2> QED BY <2>1, <2>4, <2>5 DEF Favoured
<1>4. ASSUME NEW a \in Attempts, LoginAnswered(a) \/ CallbackAnswered(a)
      PROVE  \E b \in Attempts : Favoured(b)'
    <2>1. Favoured(a)'
        BY <1>4 DEF LoginAnswered, CallbackAnswered, Favoured
    <2> QED BY <2>1
<1>5. ASSUME NEW a \in Attempts, Authenticate(a) \/ CheckState(a) \/ ExchangeCode(a)
      PROVE  \E b \in Attempts : Favoured(b)'
    <2>1. leg[a] \notin Outside
        BY <1>5 DEF Authenticate, CheckState, ExchangeCode
    <2>2. PICK f \in Attempts : Favoured(f)
        BY <1>0, <2>1 DEF FavouredInv
    <2>3. /\ UNCHANGED jar
          /\ \A b \in Attempts : b # a => leg'[b] = leg[b] /\ carried'[b] = carried[b]
        BY <1>5 DEF Authenticate, CheckState, ExchangeCode
    <2>4. CASE f # a
        BY <2>2, <2>3, <2>4 DEF Favoured
    <2>5. CASE f = a
        BY <1>0, <1>5, <2>2, <2>5 DEF Authenticate, CheckState, ExchangeCode, Recognised, Favoured
    <2> QED BY <2>4, <2>5
<1>6. ASSUME NEW a \in Attempts, ProviderDenies(a) \/ CallbackFails(a) \/ SendAgain(a)
      PROVE  \E b \in Attempts : Favoured(b)'
    BY <1>6 DEF ProviderDenies, CallbackFails, SendAgain
<1>7. CASE UNCHANGED ssoVars
    BY <1>1, <1>7 DEF ssoVars
<1> QED BY <1>2, <1>3, <1>4, <1>5, <1>6, <1>7 DEF SsoNext

\* useAccountSso, the login and the callback of single sign-on: who is refused has
\* a cause, somebody gets in, and the link leads where single sign-on is, however
\* many tabs share the one cookie.
THEOREM SignOnHolds == SsoSpec => []SignOnStands
<1>1. SignOnInv /\ FavouredInv => SignOnStands
    <2> SUFFICES ASSUME SignOnInv, FavouredInv,
                        \A a \in Attempts : leg[a] \in Over,
                        \E a \in Attempts : leg[a] = "refused", late = {}, denied = {}
                 PROVE  \E a \in Attempts : leg[a] = "in"
        BY DEF SignOnInv, SignOnStands, SomeoneGetsIn
    <2>1. PICK f \in Attempts : Favoured(f)
        BY DEF FavouredInv, Outside
    <2> QED BY <2>1 DEF Favoured, Over
<1>2. SsoInit => FavouredInv
    BY DEF SsoInit, FavouredInv, Outside
<1> QED BY <1>1, <1>2, SignOnInit, SignOnStep, FavouredStep, PTL DEF SsoSpec

-----------------------------------------------------------------------------
(* The linked wallet of open-trust *)

\* An address picked waits for the server as the one its wallet has selected, and
\* once saved is among the links; the provider that signs is listened to.
JoinInv(j) ==
    /\ joinAt[j] \in {"posting", "posted"} =>
        /\ picked[j] \in Holders
        /\ via[j] \notin missed => picked[j] = selected[via[j]]
    /\ joinAt[j] = "posted" => picked[j] \in linked \union saving \union unsaved
SignsTyped ==
    /\ active # Nothing => active \in listenedTo /\ signer \in Holders
    /\ \A k \in Cuts : cutAt[k] \in {"sent", "done"} => cutOf[k] \in Holders
SignerInv ==
    /\ SignerTypeOK
    /\ \A j \in Joins : JoinInv(j)
    /\ SignsTyped
    /\ PanelShowsSigner /\ SignerIsSelected /\ SignerIsLinked

LEMMA SignerInitInv == SignerInit => SignerInv
<1> SUFFICES ASSUME SignerInit PROVE SignerInv
    OBVIOUS
<1> USE JoinAssumption, EventAssumption DEF SignerInit
<1>1. SignerTypeOK
    <2>1. joinAt \in [Joins -> JoinSteps] /\ via \in [Joins -> Providers]
        BY DEF Providers, Joins, JoinSteps
    <2>2. events \in 0 .. MaxEvents
        OBVIOUS
    <2> QED BY <2>1, <2>2 DEF SignerTypeOK
<1>2. \A j \in Joins : JoinInv(j)
    BY DEF JoinInv
<1> QED BY <1>1, <1>2 DEF SignerInv, SignsTyped, PanelShowsSigner, SignerIsSelected, SignerIsLinked

LEMMA SignerStep == SignerInv /\ [SignerNext]_signerVars => SignerInv'
<1> SUFFICES ASSUME SignerInv, [SignerNext]_signerVars PROVE SignerInv'
    OBVIOUS
<1>0. /\ \A j \in Joins : via[j] \in Providers /\ picked[j] \in Holders \union {Nothing}
      /\ Nothing \notin Providers \union Holders
      /\ Injected \in Providers /\ Restoring \in Joins /\ Clicks \subseteq Providers \intersect Joins
    BY JoinAssumption DEF SignerInv, SignerTypeOK, Providers, Joins
<1> USE <1>0, EventAssumption
        DEF SignerInv, JoinInv, SignsTyped, SignerTypeOK, PanelShowsSigner, SignerIsSelected,
            SignerIsLinked, JoinSteps, Reaches, Event, walletsVars, shownVars, joinVars,
            serverVars
<1>1. ASSUME NEW j \in Joins, ConnectInjected(j) \/ ConnectWalletConnect(j) \/ ReadConfig(j)
      PROVE  SignerInv'
    <2>a. events' \in 0 .. MaxEvents
        BY <1>1 DEF ConnectInjected, ConnectWalletConnect, ReadConfig
    <2>b. busy' = TRUE \/ busy' = busy
        BY <1>1, Zenon DEF ConnectInjected, ConnectWalletConnect, ReadConfig
    <2>c. busy' \in BOOLEAN
        BY <2>b, Zenon
    <2>0. /\ joinAt' \in [Joins -> JoinSteps] /\ via' \in [Joins -> Providers]
        BY <1>1 DEF ConnectInjected, ConnectWalletConnect, ReadConfig
    <2>1. SignerTypeOK'
        BY <2>0, <2>a, <2>c, <1>1 DEF ConnectInjected, ConnectWalletConnect, ReadConfig
    <2>2. \A i \in Joins : JoinInv(i)'
        BY <1>1 DEF ConnectInjected, ConnectWalletConnect, ReadConfig
    <2>3. SignsTyped' /\ PanelShowsSigner'
        BY <1>1 DEF ConnectInjected, ConnectWalletConnect, ReadConfig
    <2>4. SignerIsSelected'
        BY <1>1 DEF ConnectInjected, ConnectWalletConnect, ReadConfig
    <2>5. SignerIsLinked'
        BY <1>1 DEF ConnectInjected, ConnectWalletConnect, ReadConfig
    <2> QED BY <2>1, <2>2, <2>3, <2>4, <2>5
<1>2. ASSUME NEW j \in Joins, NEW a \in Holders, Pick(j, a) PROVE SignerInv'
    <2>1. SignerTypeOK'
        BY <1>2 DEF Pick
    <2>2. \A i \in Joins : JoinInv(i)'
        BY <1>2 DEF Pick
    <2>3. SignsTyped' /\ PanelShowsSigner'
        BY <1>2 DEF Pick
    <2>4. SignerIsSelected'
        BY <1>2 DEF Pick
    <2>5. SignerIsLinked'
        BY <1>2 DEF Pick
    <2> QED BY <2>1, <2>2, <2>3, <2>4, <2>5
<1>3. ASSUME NEW j \in Joins, NotConnected(j) PROVE SignerInv'
    <2>0. joinAt' \in [Joins -> JoinSteps] /\ events' \in 0 .. MaxEvents
        BY <1>3 DEF NotConnected, Abandon
    <2>1. SignerTypeOK'
        BY <2>0, <1>3 DEF NotConnected, Abandon
    <2>2. \A i \in Joins : JoinInv(i)'
        BY <1>3 DEF NotConnected, Abandon
    <2>3. SignsTyped' /\ PanelShowsSigner'
        BY <1>3 DEF NotConnected, Abandon
    <2>4. SignerIsSelected'
        BY <1>3 DEF NotConnected, Abandon
    <2>5. SignerIsLinked'
        BY <1>3 DEF NotConnected, Abandon
    <2> QED BY <2>1, <2>2, <2>3, <2>4, <2>5
<1>4. ASSUME NEW j \in Joins, PostArrives(j) PROVE SignerInv'
    BY <1>4 DEF PostArrives
<1>5. ASSUME NEW j \in Joins, Connected(j) PROVE SignerInv'
    BY <1>5 DEF Connected, Sign
<1>6. ASSUME NEW a \in Holders \union {Nothing}, ReadLinks(a) PROVE SignerInv'
    BY <1>6 DEF ReadLinks
<1>7. CASE ShowLink
    <2>1. SignerTypeOK'
        BY <1>7 DEF ShowLink
    <2>2. \A i \in Joins : JoinInv(i)'
        BY <1>7 DEF ShowLink
    <2>3. SignsTyped' /\ PanelShowsSigner'
        BY <1>7 DEF ShowLink
    <2>4. SignerIsSelected'
        BY <1>7 DEF ShowLink
    <2>5. SignerIsLinked'
        BY <1>7 DEF ShowLink
    <2> QED BY <2>1, <2>2, <2>3, <2>4, <2>5
<1>8. ASSUME NEW p \in Providers, NEW a \in Holders, AccountSelected(p, a) PROVE SignerInv'
    <2>0. /\ selected' \in [Providers -> Holders \union {Nothing}] /\ missed' \subseteq Providers
          /\ events' \in 0 .. MaxEvents /\ saving' \subseteq Holders
        BY <1>8 DEF AccountSelected, Noticed
    <2>b. /\ overwritten' = FALSE \/ overwritten' = overwritten
          /\ ready' = TRUE \/ ready' = ready
        BY <1>8, Zenon DEF AccountSelected, Sign
    <2>c. overwritten' \in BOOLEAN /\ ready' \in BOOLEAN
        BY <2>b, Zenon
    <2>d. /\ wallet' \in Holders \union {Nothing} /\ signer' \in Holders \union {Nothing}
          /\ active' \in Providers \union {Nothing}
        BY <1>8 DEF AccountSelected, Noticed, Awaiting, Sign
    <2>1. SignerTypeOK'
        BY <2>0, <2>c, <2>d, <1>8 DEF AccountSelected, Noticed, Awaiting, Sign
    <2>2. \A i \in Joins : JoinInv(i)'
        BY <1>8 DEF AccountSelected, Noticed, Awaiting, Sign
    <2>3. SignsTyped' /\ PanelShowsSigner'
        BY <1>8 DEF AccountSelected, Noticed, Awaiting, Sign
    <2>4. SignerIsSelected'
        BY <1>8 DEF AccountSelected, Noticed, Awaiting, Sign
    <2>5. SignerIsLinked'
        BY <1>8 DEF AccountSelected, Noticed, Awaiting, Sign
    <2> QED BY <2>1, <2>2, <2>3, <2>4, <2>5
<1>9. ASSUME NEW p \in Providers, WalletLocked(p) PROVE SignerInv'
    <2>0. /\ selected' \in [Providers -> Holders \union {Nothing}] /\ missed' \subseteq Providers
          /\ events' \in 0 .. MaxEvents
        BY <1>9 DEF WalletLocked, Noticed, Awaiting, SignNoMore
    <2>b. /\ overwritten' = FALSE \/ overwritten' = overwritten
          /\ ready' = FALSE \/ ready' = ready
        BY <1>9, Zenon DEF WalletLocked, SignNoMore
    <2>c. overwritten' \in BOOLEAN /\ ready' \in BOOLEAN
        BY <2>b, Zenon
    <2>d. /\ wallet' \in Holders \union {Nothing} /\ signer' \in Holders \union {Nothing}
          /\ active' \in Providers \union {Nothing}
        BY <1>9 DEF WalletLocked, Noticed, Awaiting, SignNoMore
    <2>1. SignerTypeOK'
        BY <2>0, <2>c, <2>d, <1>9 DEF WalletLocked, Noticed, Awaiting, SignNoMore
    <2>2. \A i \in Joins : JoinInv(i)'
        BY <1>9 DEF WalletLocked, Noticed, Awaiting, SignNoMore
    <2>3. SignsTyped' /\ PanelShowsSigner'
        BY <1>9 DEF WalletLocked, Noticed, Awaiting, SignNoMore
    <2>4. SignerIsSelected'
        BY <1>9 DEF WalletLocked, Noticed, Awaiting, SignNoMore
    <2>5. SignerIsLinked'
        BY <1>9 DEF WalletLocked, Noticed, Awaiting, SignNoMore
    <2> QED BY <2>1, <2>2, <2>3, <2>4, <2>5
<1>10. ASSUME NEW p \in Providers, ProviderGone(p) PROVE SignerInv'
    <2>a. events' \in 0 .. MaxEvents
        BY <1>10 DEF ProviderGone
    <2>b. overwritten' = FALSE /\ ready' = FALSE
        BY <1>10 DEF ProviderGone, SignNoMore
    <2>0. events' \in 0 .. MaxEvents /\ overwritten' \in BOOLEAN /\ ready' \in BOOLEAN
        BY <2>a, <2>b, Zenon
    <2>1. SignerTypeOK'
        BY <2>0, <1>10 DEF ProviderGone, SignNoMore
    <2>2. \A i \in Joins : JoinInv(i)'
        BY <1>10 DEF ProviderGone, SignNoMore
    <2>3. SignsTyped' /\ PanelShowsSigner'
        BY <1>10 DEF ProviderGone, SignNoMore
    <2>4. SignerIsSelected'
        BY <1>10 DEF ProviderGone, SignNoMore
    <2>5. SignerIsLinked'
        BY <1>10 DEF ProviderGone, SignNoMore
    <2> QED BY <2>1, <2>2, <2>3, <2>4, <2>5
<1>11. ASSUME NEW a \in Holders, SaveArrives(a) PROVE SignerInv'
    <2>1. SignerTypeOK'
        BY <1>11 DEF SaveArrives
    <2>2. \A i \in Joins : JoinInv(i)'
        BY <1>11 DEF SaveArrives
    <2>3. SignsTyped' /\ PanelShowsSigner'
        BY <1>11 DEF SaveArrives
    <2>4. SignerIsSelected'
        BY <1>11 DEF SaveArrives
    <2>5. SignerIsLinked'
        BY <1>11 DEF SaveArrives
    <2> QED BY <2>1, <2>2, <2>3, <2>4, <2>5
<1>12. CASE Disconnect
    BY <1>12 DEF Disconnect, SignNoMore
<1>13. ASSUME NEW k \in Cuts, AskUnlink(k) PROVE SignerInv'
    BY <1>13 DEF AskUnlink
<1>14. ASSUME NEW k \in Cuts, UnlinkArrives(k) PROVE SignerInv'
    <2>1. SignerTypeOK'
        BY <1>14 DEF UnlinkArrives
    <2>2. \A i \in Joins : JoinInv(i)'
        BY <1>14 DEF UnlinkArrives
    <2>3. SignsTyped' /\ PanelShowsSigner'
        BY <1>14 DEF UnlinkArrives
    <2>4. SignerIsSelected'
        BY <1>14 DEF UnlinkArrives
    <2>5. SignerIsLinked'
        BY <1>14 DEF UnlinkArrives
    <2> QED BY <2>1, <2>2, <2>3, <2>4, <2>5
<1>15. ASSUME NEW k \in Cuts, Unlinked(k) \/ UnlinkFails(k) PROVE SignerInv'
    <2>a. events' \in 0 .. MaxEvents
        BY <1>15 DEF Unlinked, UnlinkFails
    <2>b. /\ overwritten' = FALSE \/ overwritten' = overwritten
          /\ ready' = FALSE \/ ready' = ready
        BY <1>15, Zenon DEF Unlinked, UnlinkFails, SignNoMore
    <2>c. overwritten' \in BOOLEAN /\ ready' \in BOOLEAN
        BY <2>b, Zenon
    <2>d. /\ cutAt' \in [Cuts -> {"new", "sent", "done", "over"}] /\ unsaved' \subseteq Holders
        BY <1>15 DEF Unlinked, UnlinkFails, SignNoMore
    <2>1. SignerTypeOK'
        BY <2>a, <2>c, <2>d, <1>15 DEF Unlinked, UnlinkFails, SignNoMore
    <2>2. \A i \in Joins : JoinInv(i)'
        BY <1>15 DEF Unlinked, UnlinkFails, SignNoMore
    <2>3. SignsTyped' /\ PanelShowsSigner'
        BY <1>15 DEF Unlinked, UnlinkFails, SignNoMore
    <2>4. SignerIsSelected'
        BY <1>15 DEF Unlinked, UnlinkFails, SignNoMore
    <2>5. SignerIsLinked'
        BY <1>15 DEF Unlinked, UnlinkFails, SignNoMore
    <2> QED BY <2>1, <2>2, <2>3, <2>4, <2>5
<1>16. CASE UNCHANGED signerVars
    BY <1>16 DEF signerVars
<1> QED BY <1>1, <1>2, <1>3, <1>4, <1>5, <1>6, <1>7, <1>8, <1>9, <1>10, <1>11, <1>12,
           <1>13, <1>14, <1>15, <1>16 DEF SignerNext

\* LinkWallet of open-trust and its active provider: the panel shows who signs, who
\* signs is the account the wallet has selected, and it is linked, with the
\* exceptions that SignerStands names, however many connections overlap.
THEOREM SignerHolds == SignerSpec => []SignerStands
<1>1. SignerInv => SignerStands
    BY DEF SignerInv, SignerStands
<1> QED BY <1>1, SignerInitInv, SignerStep, PTL DEF SignerSpec

-----------------------------------------------------------------------------
(* All parts together *)

\* Every variable of the clients keeps its type, whatever they do and in whatever order
\* they are answered: the state of each part is one its code can be in.
THEOREM ClientsTyped ==
    /\ WorkspaceSpec /\ LinkSpec /\ BalancesSpec /\ SendSpec
    /\ BrowserSpec /\ ReadsSpec /\ ListsSpec
    /\ PageSpec /\ FormSpec /\ LabSpec
    /\ SsoSpec /\ SignerSpec
    => []ClientsTypeOK
<1>1. WorkspaceSpec => []WorkspaceTypeOK
    <2>1. WorkspaceInv => WorkspaceTypeOK
        BY DEF WorkspaceInv
    <2> QED BY <2>1, WorkspaceInvHolds, PTL
<1>2. LinkSpec => []LinkTypeOK
    BY LinkTypes, LinkInitInv, LinkInitRest, LinkInvInductive, LinkRestInductive, PTL
       DEF LinkSpec
<1>3. BalancesSpec => []BalancesTypeOK
    <2>1. BalancesInit => BalancesInv
        BY DEF BalancesInit, BalancesInv, BalancesTyped, RefreshInv, CheckInv
    <2> QED BY <2>1, BalancesTypes, BalancesInitRest, BalancesInvInductive,
               BalancesRestInductive, PTL DEF BalancesSpec
<1>4. SendSpec => []SendTypeOK
    BY SendInitTyped, SendTyped, PTL DEF SendSpec
<1>5. BrowserSpec => []BrowserTypeOK
    BY BrowserInitTyped, BrowserTyped, PTL DEF BrowserSpec
<1>6. ReadsSpec => []ReadsTypeOK
    <2>1. ReadsInv => ReadsTypeOK
        BY DEF ReadsInv
    <2> QED BY <2>1, ReadsInitInv, ReadsInvInductive, PTL DEF ReadsSpec
<1>7. ListsSpec => []ListsTypeOK
    <2>1. ListsInv => ListsTypeOK
        BY DEF ListsInv
    <2> QED BY <2>1, ListsInitInv, ListsInvInductive, PTL DEF ListsSpec
<1>8. PageSpec => []PageTypeOK
    <2>1. PageInv => PageTypeOK
        BY DEF PageInv
    <2> QED BY <2>1, PageInitInv, PageInvInductive, PTL DEF PageSpec
<1>9. FormSpec => []FormTypeOK
    <2>1. FormInv => FormTypeOK
        BY DEF FormInv
    <2> QED BY <2>1, FormInitInv, FormInvInductive, PTL DEF FormSpec
<1>10. LabSpec => []LabTypeOK
    <2>1. LabInv => LabTypeOK
        BY DEF LabInv
    <2> QED BY <2>1, LabInitInv, LabInvInductive, PTL DEF LabSpec
<1>11. SsoSpec => []SsoTypeOK
    <2>1. SignOnInv => SsoTypeOK
        BY DEF SignOnInv
    <2> QED BY <2>1, SignOnInit, SignOnStep, PTL DEF SsoSpec
<1>12. SignerSpec => []SignerTypeOK
    <2>1. SignerInv => SignerTypeOK
        BY DEF SignerInv
    <2> QED BY <2>1, SignerInitInv, SignerStep, PTL DEF SignerSpec
<1>13. /\ WorkspaceTypeOK /\ LinkTypeOK /\ BalancesTypeOK /\ SendTypeOK /\ BrowserTypeOK
       /\ ReadsTypeOK /\ ListsTypeOK /\ PageTypeOK /\ FormTypeOK /\ LabTypeOK
       /\ SsoTypeOK /\ SignerTypeOK
       => ClientsTypeOK
    BY DEF ClientsTypeOK
<1> QED BY <1>1, <1>2, <1>3, <1>4, <1>5, <1>6, <1>7, <1>8, <1>9, <1>10, <1>11,
           <1>12, <1>13, PTL

\* The console shows what was asked for last and keeps what was saved in its lists.
THEOREM ConsoleStaysCurrent == ReadsSpec /\ ListsSpec => []ConsoleIsCurrent
<1>1. LastAskedIsShown /\ ListsKeepWhatWasSaved => ConsoleIsCurrent
    BY DEF ConsoleIsCurrent
<1> QED BY <1>1, LastReadIsShown, SavedListsAreKept, PTL

\* What the public pages show together belongs together.
THEOREM PagesAgree == PageSpec /\ FormSpec /\ LabSpec => []PublicPagesAgree
<1>1. SignatureIsOfVerdict /\ ClaimNamesItsContract /\ LabShowsItsScenario
        => PublicPagesAgree
    BY DEF PublicPagesAgree
<1> QED BY <1>1, CheckIsOfVerdict, ContractIsOfPlace, LabIsHonest, PTL

\* A session is what it looks like: of the console after a reload, of single sign-on,
\* and of the wallet that signs.
THEOREM SessionsStand == BrowserSpec /\ SsoSpec /\ SignerSpec => []SessionsHold
<1>1. ReloadKeepsSession /\ SignOnStands /\ SignerStands => SessionsHold
    BY DEF SessionsHold
<1> QED BY <1>1, ReloadFindsSession, SignOnHolds, SignerHolds, PTL

=============================================================================
