\* One request over a chain of four blocks one of which may be
\* reorganised while it is read; one transaction of Bitcoin, Solana or Tron
\* read from a chain of four blocks; a balance that moves
\* twice while one or two nodes are asked for it; three requests to two projects
\* of one organization, over either store.  Every request ends.
SPECIFICATION AllSpec
CONSTANTS
    usdc = usdc
    nft = nft
    Native = Native
    NoAsset = NoAsset
    NoId = NoId
    NoAmount = NoAmount
    NoVerdict = NoVerdict
    NoEvent = NoEvent
    Tokens <- TwoTokens
    Contents <- AllContents
    Claims <- AllClaims
    Balances = {0, 1}
    Required = 2
    MaxReorg = 1
    MaxGrowth = 1
    MaxHeight = 4
    Payments <- AllPayments
    Needed = 2
    MaxHead = 4
    MaxHolding = 3
    Amounts = {0, 1}
    NoBalance = NoBalance
    MaxMoves = 2
    q1 = q1  q2 = q2  q3 = q3  main = main  spare = spare
    Asks <- ThreeAsks
    Projects <- TwoProjects
    Home = main
    ListLimit = 1
    MaxLosses = 1
    NoReply = NoReply
CHECK_DEADLOCK FALSE
INVARIANTS
    AllTypesOK
    SpendableIsSettled
    NoFalseAlarm
    EvidenceExplainsStatus
    PipelineNeverThrows
    LiveVerdictVerifies
    ForeignEvidenceStands
    VerifiedBalanceWasHeld
PROPERTIES
    AnswersAgree
