--------------------------- MODULE VerificationMC ---------------------------
(***************************************************************************)
(* The verification pipeline over the EVM adapter, the reads of the other  *)
(* adapters, the balances of the wallet and the records of the projects,   *)
(* in one instance for TLC.                                                *)
(* They share no variable, so a behaviour moves one of them while the      *)
(* others have nothing left to do.                                         *)
(***************************************************************************)
EXTENDS IncomingVerificationMC, Verification

CONSTANTS q1, q2, q3, main, spare

ThreeAsks == {q1, q2, q3}
TwoProjects == {main, spare}

Pay(party, coin, n) == [to |-> party, asset |-> coin, amount |-> n]

\* One payment, change before the payment, a token, and both.
AllPayments == {<<Pay("recipient", "native", 1)>>,
                <<Pay("other", "native", 1), Pay("recipient", "native", 1)>>,
                <<Pay("recipient", "token", 2)>>,
                <<Pay("recipient", "token", 2), Pay("recipient", "native", 1)>>}

requestIdle ==
    /\ chain = <<[included |-> FALSE, balance |-> 0]>>
    /\ growth = 0 /\ reorged = FALSE
    /\ content = CHOOSE c \in Contents : TRUE
    /\ claim = (CHOOSE c \in Claims : TRUE) /\ live = FALSE /\ pc = "failed"
    /\ block = 0 /\ receipt = "none" /\ transfers = <<>> /\ asset = NoAsset
    /\ described = FALSE /\ isFinal = FALSE /\ before = Unread /\ after = Unread
    /\ status = "OBSERVED" /\ evidence = {}
    /\ verdict = NoVerdict /\ saved = NoVerdict /\ event = NoEvent

foreignIdle ==
    /\ head = 1 /\ minedAt = 0 /\ forked = FALSE /\ holding = 0 /\ spent = FALSE
    /\ family = "bitcoin" /\ isLive = FALSE /\ fails = FALSE /\ hint = "none"
    /\ payment = CHOOSE p \in Payments : TRUE
    /\ at = "failed" /\ txBlock = 0 /\ txReceipt = "none" /\ events = <<>>
    /\ confirmations = 0 /\ settled = FALSE /\ balanceBefore = 0 /\ balanceAfter = 0

balanceReadsIdle ==
    /\ held = [i \in 1 .. MaxMoves + 1 |-> CHOOSE a \in Amounts : TRUE]
    /\ secondary = FALSE /\ liar = 0 /\ adapterLive = FALSE
    /\ observations = <<>> /\ since = 1 /\ balanceReply = Reply("unavailable")

projectsIdle ==
    /\ backend = "memory" /\ opened = {Home}
    /\ kind = [c \in Asks |-> "none"] /\ project = [c \in Asks |-> Home]
    /\ stage = [c \in Asks |-> "done"]
    /\ checkedAt = [c \in Asks |-> 0] /\ storedAt = [c \in Asks |-> 0]
    /\ counted = {} /\ told = {} /\ shown = [c \in Asks |-> NoReply]
    /\ now = 0 /\ losses = 0

AllInit ==
    \/ Init /\ foreignIdle /\ balanceReadsIdle /\ projectsIdle
    \/ ForeignInit /\ requestIdle /\ balanceReadsIdle /\ projectsIdle
    \/ BalanceReadsInit /\ requestIdle /\ foreignIdle /\ projectsIdle
    \/ ProjectInit /\ requestIdle /\ foreignIdle /\ balanceReadsIdle

\* Requests to the projects are alike: q1 is the first, q2 the second.
InOrder == /\ stage'[q2] # "new" => stage'[q1] # "new"
           /\ stage'[q3] # "new" => stage'[q2] # "new"

AllNext ==
    \/ Next /\ UNCHANGED <<foreignVars, balanceReadVars, projectVars>>
    \/ ForeignNext /\ UNCHANGED <<vars, balanceReadVars, projectVars>>
    \/ BalanceReadsNext /\ UNCHANGED <<vars, foreignVars, projectVars>>
    \/ ProjectNext /\ InOrder /\ UNCHANGED <<vars, foreignVars, balanceReadVars>>

AllSpec == AllInit /\ [][AllNext]_<<vars, foreignVars, balanceReadVars, projectVars>>

=============================================================================
