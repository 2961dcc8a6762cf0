CONSTANTS
    m1 = m1
    m2 = m2
    Results = {m1}
    SendCapacity = 2
    MaxConnections = 3
    MaxDialFailures = 1
    MaxPings = 1
SPECIFICATION Safety
PROPERTY AcceptedWhileConnected
