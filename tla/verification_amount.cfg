SPECIFICATION Spec
CONSTANTS
    usdc = usdc
    nft = nft
    Native = Native
    NoAsset = NoAsset
    NoId = NoId
    NoAmount = NoAmount
    NoVerdict = NoVerdict
    NoEvent = NoEvent
    Tokens <- TwoTokens
    Contents <- AllContents
    Claims <- UnpricedClaims
    Balances = {0, 1}
    Required = 2
    MaxReorg = 1
    MaxGrowth = 1
    MaxHeight = 4
CHECK_DEADLOCK FALSE
INVARIANT
    AmountIsWhatArrived
