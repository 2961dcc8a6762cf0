CONSTANTS
    none = none
    a = a
    test = test
    Queued = {a}
    Tests = {test}
    Tickets <- MCTickets
    NoLogo = none
    MaxRetries = 2
    Byte = 3
    DotsPerByte = 2
    LogoMaxWidth = 4
    LogoMaxHeight = 5
SPECIFICATION Safety
INVARIANTS
    StatusMatchesCopies
    PrintedIsReadable
