CONSTANTS
    none = none
    any = any
    pos = pos
    posUpper = posUpper
    shop = shop
    dev = dev
    r1 = r1
    r2 = r2
    r3 = r3
    test = test
    ticket = ticket
    Requests = {r1, r2, r3}
    Keys = {test, ticket}
    TicketKeys = {ticket}
    Origins <- MCOrigins
    NoOrigin = none
    Anyone = any
    Lower <- MCLower
    Mandatory <- MCMandatory
    ConfiguredLists <- MCConfiguredLists
    RateLimitPerMin = 1
    PairingToken = TRUE
    SigningSecret = TRUE
    WindowSecs = 2
    MaxClock = 3
    MaxWrites = 5
SPECIFICATION Safety
SYMMETRY RequestSymmetry
INVARIANT OverrunOnlyByLatecomers
PROPERTY RefusalDeserved
