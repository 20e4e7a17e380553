\* Rotations, revocations, restarts, one call cut short and one file placed by
\* hand, over three names.  A torn key file keeps the API from starting again,
\* so the system may stop.
SPECIFICATION Spec
CONSTANTS
    Kids <- ThreeKids
    MaxPairs = 3
    MaxCrashes = 1
    MaxPlaced = 1
    NoFile = NoFile
    Torn = Torn
    NoKey = NoKey
    NoKid = NoKid
INVARIANTS
    SignaturesVerifiable
    CompletedRotationSticks
PROPERTIES
    RevokedNeverSigns
CHECK_DEADLOCK FALSE
