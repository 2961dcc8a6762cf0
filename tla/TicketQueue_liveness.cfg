CONSTANTS
    none = none
    a = a
    aPadded = aPadded
    r = r
    t = t
    h1 = h1
    h2 = h2
    JobIds <- MCJobIds
    Blank = none
    TrimSpace <- MCTrimSpace
    HttpIds = {a}
    RemoteIds = {r, none}
    BadIds = {}
    TestIds = {t}
    Handlers = {h1, h2}
    Testers = {1}
    QueueMaxSize = 1
    MaxRetries = 1
    MaxProcessedEntries = 1
    MaxRequests = 3
    MaxSeconds = 0
    MaxRestarts = 1
SPECIFICATION Spec
INVARIANTS
    QueuedStatusIsLive
    CountersConserve
PROPERTIES
    MarksClear
    LedgerSpec
