CONSTANTS
    MaxFile = 6
    MaxAttempts = 2
    MaxDisturbances = 2
    MaxUpgrades = 1
SPECIFICATION Spec
INVARIANTS
    RegisteredIsStartable
    ExecutableKept
PROPERTY InstallWins
