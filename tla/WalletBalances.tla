--------------------------- MODULE WalletBalances ---------------------------
(***************************************************************************)
(* What the wallet page shows of the chain: the holdings that              *)
(* refreshBalances reads for one account and network, and the payment      *)
(* check of MerchantPanel.  Every change of account or network starts a    *)
(* refresh; refreshes and checks are not cancelled, and each writes what   *)
(* it read when it is answered.                                            *)
(***************************************************************************)
EXTENDS Naturals

CONSTANTS
    Networks,      \* the networks of the selector
    Accounts,      \* addresses a session can have
    MaxRefreshes,  \* bound: refreshes of one page
    MaxChecks      \* bound: payment checks of one page

ASSUME BalanceBounds == MaxRefreshes \in Nat \ {0} /\ MaxChecks \in Nat

Contexts == Networks \X Accounts
\* The registry of a network: its coin, "native" everywhere, and its token.
AssetIds(context) == {"native", context[1]}
ReadResults == {"verified", "requires_reconciliation", "unavailable"}
Rows == [asset : {"native"} \union Networks, state : ReadResults \union {"stale"}, of : Contexts]

VARIABLES
    context,   \* network and account on screen
    holdings,  \* the rows on screen, each with the context it was read in
    started,   \* refreshes started so far ...
    inFlight,  \* ... those not answered: number and context ...
    answered,   \* ... and the one that wrote the holdings last
    asked,     \* payment checks started so far
    checking,  \* those not answered: number and next answer
    verdict, note,  \* the checks whose verdict and balance are on screen
    checksMet  \* history: a check was started before another had ended

balanceVars == <<context, holdings, started, inFlight, answered>>
checkVars == <<asked, checking, verdict, note, checksMet>>

BalancesTypeOK ==
    /\ context \in Contexts /\ holdings \subseteq Rows
    /\ started \in 0 .. MaxRefreshes /\ answered \in 0 .. started
    /\ inFlight \subseteq [number : 1 .. started, of : Contexts]
    /\ asked \in 0 .. MaxChecks
    /\ checking \subseteq [number : 1 .. asked, next : {"verdict", "balance"}]
    /\ verdict \in 0 .. asked /\ note \in 0 .. asked
    /\ checksMet \in BOOLEAN

BalancesInit ==
    /\ context \in Contexts /\ holdings = {}
    /\ started = 1 /\ inFlight = {[number |-> 1, of |-> context]}
    /\ answered = 0
    /\ asked = 0 /\ checking = {} /\ verdict = 0 /\ note = 0 /\ checksMet = FALSE

-----------------------------------------------------------------------------
StartRefresh(c) ==
    /\ started < MaxRefreshes
    /\ started' = started + 1
    /\ inFlight' = inFlight \union {[number |-> started + 1, of |-> c]}
    /\ UNCHANGED <<holdings, answered>>

\* The effect on account and network; the rows stay until the answer.
SwitchTo(c) ==
    /\ c # context
    /\ context' = c
    /\ StartRefresh(c)
    /\ UNCHANGED checkVars

\* "Refresh state", and the return from a send.
RefreshAgain ==
    /\ StartRefresh(context)
    /\ UNCHANGED <<context, checkVars>>

\* A bug to try: the row of before is kept as it is.
KeepPrior(row, previous) ==
    IF row.state # "unavailable" THEN row
    ELSE IF \E old \in previous : old.asset = row.asset /\ old.state = "verified"
         THEN CHOOSE old \in previous : old.asset = row.asset /\ old.state = "verified"
         ELSE row

\* A row that could not be read is the verified one of before, as stale: the
\* one with its asset id, of whatever account and network that was.
Merge(row, previous) ==
    IF row.state # "unavailable" THEN row
    ELSE IF \E old \in previous : old.asset = row.asset /\ old.state = "verified"
         THEN [CHOOSE old \in previous : old.asset = row.asset /\ old.state = "verified"
               EXCEPT !.state = "stale"]
         ELSE row

Refreshed(x, results) ==
    LET next == {[asset |-> a, state |-> results[a], of |-> x.of] : a \in AssetIds(x.of)}
    IN  /\ holdings' = {Merge(row, holdings) : row \in next}
        /\ answered' = x.number
        /\ inFlight' = inFlight \ {x}
        /\ UNCHANGED <<context, started, checkVars>>

\* The registry could not be loaded: an error, and the rows stay.
RefreshFails(x) ==
    /\ inFlight' = inFlight \ {x}
    /\ UNCHANGED <<context, holdings, started, answered, checkVars>>

-----------------------------------------------------------------------------
\* check: the asset must be among the rows; the earlier answers are cleared.
StartCheck ==
    /\ asked < MaxChecks /\ holdings # {}
    /\ asked' = asked + 1
    /\ checking' = checking \union {[number |-> asked + 1, next |-> "verdict"]}
    /\ verdict' = 0 /\ note' = 0
    /\ checksMet' = (checksMet \/ checking # {})
    /\ UNCHANGED balanceVars

VerdictArrives(x) ==
    /\ x.next = "verdict"
    /\ verdict' = x.number
    /\ checking' = (checking \ {x}) \union {[x EXCEPT !.next = "balance"]}
    /\ UNCHANGED <<balanceVars, asked, note, checksMet>>

BalanceArrives(x) ==
    /\ x.next = "balance"
    /\ note' = x.number
    /\ checking' = checking \ {x}
    /\ UNCHANGED <<balanceVars, asked, verdict, checksMet>>

CheckFails(x) ==
    /\ checking' = checking \ {x}
    /\ UNCHANGED <<balanceVars, asked, verdict, note, checksMet>>

BalancesNext ==
    \/ \E c \in Contexts : SwitchTo(c)
    \/ RefreshAgain
    \/ \E x \in inFlight :
        \/ \E results \in [AssetIds(x.of) -> ReadResults] : Refreshed(x, results)
        \/ RefreshFails(x)
    \/ StartCheck
    \/ \E x \in checking : VerdictArrives(x) \/ BalanceArrives(x) \/ CheckFails(x)

BalancesSpec == BalancesInit /\ [][BalancesNext]_<<balanceVars, checkVars>>

-----------------------------------------------------------------------------
\* Once the newest refresh has written the holdings last, every balance called
\* verified is one of the account and network on screen (a stale one may be of
\* another); and a balance shown beside a verdict was read by the same check,
\* unless two checks overlapped.
ShownTogetherBelongs ==
    /\ answered = started =>
        \A row \in holdings : row.state = "verified" => row.of = context
    /\ note # 0 => note = verdict \/ checksMet

=============================================================================
