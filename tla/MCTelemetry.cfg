SPECIFICATION PartsSpec
CONSTANTS
    MaxEvents = 3
    EventChSize = 1
    SendChSize = 2
    MaxAttempts = 2
    XAddTries = 2
    MaxAdds = 3
    Version = {0, 1}
    MaxChanges = 2
    MaxPushes = 5
    MaxSyncFaults = 2
INVARIANTS
    EveryEventAccountedFor
    StreamInOrder
PROPERTIES
    EventConcludes
    ShutdownCompletes
    SchemaArrives
CHECK_DEADLOCK FALSE
