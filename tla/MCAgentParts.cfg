SPECIFICATION PartsSpec
CONSTANTS
    Capacity = 3
    Value = {a, b, c}
    Zero = zero
    Size = {1, 2}
    MaxBytesPerMinute = 6
    MaxBatchesPerMinute = 2
    FlagBytes = {2, 5}
    MaxAdmitted = 6
    MaxResets = 2
    MaxUpdates = 2
    MaxEntries = 3
    MaxRotations = 1
    MaxOpens = 2
    Worker = {w1, w2}
    MaxTokens = 2
    MaxKeys = 4
    MaxRetries = 2
    MaxFaults = 2
    MaxStarts = 3
    Signature = {s1, s2}
    Window = 1
    Threshold = 2
    PruneEvery = 2
    MaxTime = 2
    MaxChecks = 4
SYMMETRY Workers
INVARIANTS
    TickAtMostDoubles
    LostOnlyAroundRotation
    EntriesWholeInOrder
    TokenGrantsOneKey
    RestartFindsKeyUnlessRefreshedTwice
    FlaggedExactlyInOrder
PROPERTY
    ImplementsQueue
CHECK_DEADLOCK FALSE
