CONSTANTS
    none = none
    a = a
    aPadded = aPadded
    r = r
    t = t
    h1 = h1
    h2 = h2
    JobIds <- MCJobIds
    Blank = none
    TrimSpace <- MCTrimSpace
    HttpIds = {a, aPadded}
    RemoteIds = {r}
    BadIds = {r}
    TestIds = {t}
    Handlers = {h1, h2}
    Testers = {1}
    QueueMaxSize = 1
    MaxRetries = 2
    MaxProcessedEntries = 1
    MaxRequests = 4
    MaxSeconds = 1
    MaxRestarts = 0
SPECIFICATION Safety
SYMMETRY HandlerSymmetry
INVARIANTS
    TypeOK
    SingleFlight
    NoOrphanMark
    RemoteOutcomeReported
    ProcessedBounded
    PrintedReportsAreTrue
    AcceptedLossIsCounted
PROPERTIES
    NoReprintWhileRemembered
    LedgerSafety
