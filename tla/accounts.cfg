\* Three requests for one address on a pool of two; three registrations in
\* memory; two APIs and a worker starting, one kill; one verdict announced to
\* four hooks, two of them open, cut short once.  Requests end and nothing
\* follows them, so the system may stop.
SPECIFICATION Spec
CONSTANTS
    r1 = r1  r2 = r2  r3 = r3  e1 = e1  e2 = e2
    v1 = v1  v2 = v2  v3 = v3  api1 = api1  api2 = api2  worker = worker
    Requests <- ThreeRequests
    Emails <- OneEmail
    PoolSize = 2
    MaxFaults = 1
    Nobody = Nobody
    Visitors <- ThreeVisitors
    Addresses <- TwoEmails
    NoVisitor = NoVisitor
    Apis <- TwoApis
    Workers <- OneWorker
    LastFile = 2
    MaxKills = 1
    MaxDataKeys = 4
    NoDataKey = NoDataKey
    Torn = Torn
    k1 = k1
    Dispatches <- OneDispatch
    LastTarget = 4
    Unsubscribed = {1}
    Unsafe = {3}
    MaxCuts = 1
INVARIANTS
    AccountsTypeOK
    EveryAccountHasWorkspace
    EndedSessionIsNotServed
    DuplicateNeedsOverlap
    NoServiceWithoutSchema
    LostDataKeyNeedsRace
    InlineRowsAreTried
PROPERTIES
    ImplementsRegistry
    EveryRequestAnswered
    EveryProcessServes
CHECK_DEADLOCK FALSE
