SPECIFICATION FlagsSpec
CONSTANTS
    Admin = {a1}
    MaxConn = 2
    MaxUpdates = 0
    ReconnectDelay = 2
    ReconnectMaxDelay = 7
INVARIANT
    ConnectedIsRegistered
CHECK_DEADLOCK FALSE
