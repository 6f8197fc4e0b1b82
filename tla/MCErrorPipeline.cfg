SPECIFICATION FairSpec
CONSTANTS
    Capacity = 2
    MaxLogId = 3
    TailEvent = {1}
    EmptyRow = {2}
    PollLimit = 2
    BodyLimit = 1
    MaxFaults = 1
    MaxRestarts = 1
INVARIANTS
    NothingLostSilently
    CountedAgainOnlyForAReason
    CursorSkipsNothing
PROPERTY
    DeliveredUnlessOversize
CHECK_DEADLOCK FALSE
