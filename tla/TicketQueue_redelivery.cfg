CONSTANTS
    none = none
    a = a
    aPadded = aPadded
    r = r
    t = t
    h1 = h1
    h2 = h2
    JobIds <- MCJobIds
    Blank = none
    TrimSpace <- MCTrimSpace
    HttpIds = {}
    RemoteIds = {r}
    BadIds = {}
    TestIds = {}
    Handlers = {}
    Testers = {}
    QueueMaxSize = 1
    MaxRetries = 1
    MaxProcessedEntries = 3
    MaxRequests = 2
    MaxSeconds = 0
    MaxRestarts = 0
SPECIFICATION Safety
INVARIANT FailedReportsAreTrue
