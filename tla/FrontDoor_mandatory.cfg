CONSTANTS
    none = none
    any = any
    pos = pos
    posUpper = posUpper
    shop = shop
    dev = dev
    r1 = r1
    r2 = r2
    r3 = r3
    test = test
    ticket = ticket
    Requests = {r1, r2, r3}
    Keys = {ticket}
    TicketKeys = {ticket}
    Origins <- MCOrigins
    NoOrigin = none
    Anyone = any
    Lower <- MCLower
    Mandatory <- MCMandatory
    ConfiguredLists <- MCConfiguredLists
    RateLimitPerMin = 1
    PairingToken = TRUE
    SigningSecret = TRUE
    WindowSecs = 2
    MaxClock = 1
    MaxWrites = 1
SPECIFICATION Safety
INVARIANT MandatoryIncluded
