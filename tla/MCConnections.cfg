SPECIFICATION PartsSpec
CONSTANTS
    Admin = {c1, c2}
    MaxConn = 2
    MaxUpdates = 2
    ReconnectDelay = 2
    ReconnectMaxDelay = 7
    Device = {c1, c2}
    MaxTokens = 3
    MaxLoginAttempts = 2
    MaxGuesses = 4
    MaxTroubles = 1
    Browser = {c1, c2}
    Email = {e1, e2}
    MaxUsers = 2
    MaxCodes = 3
    MaxPasswords = 3
    MaxFaults = 1
SYMMETRY Symmetry
INVARIANTS
    LatestFlagsUnlessRaced
    RefreshUsedOnce
    
    GuessesBounded
    VerifiedIsCurrentUnlessOutdated
    ResetTokenUsedOnce
CHECK_DEADLOCK FALSE
