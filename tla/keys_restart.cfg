\* The second way of rotating that the runbook names: a new key file and a
\* restart with its name in OTV_KID.
SPECIFICATION Spec
CONSTANTS
    Kids <- ThreeKids
    MaxPairs = 3
    MaxCrashes = 1
    MaxPlaced = 1
    NoFile = NoFile
    Torn = Torn
    NoKey = NoKey
    NoKid = NoKid
INVARIANT
    RestartRotates
CHECK_DEADLOCK FALSE
