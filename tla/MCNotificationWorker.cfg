SPECIFICATION FairSpec
CONSTANTS
    Worker = {w1, w2}
    Channel = {c1}
    MaxAlerts = 2
    BatchSize = 2
    MaxAttempts = 3
    MaxFaults = 1
INVARIANTS
    ReceivedAsRecorded
    RetriesStop
PROPERTIES
    DeliveryConcludes
CHECK_DEADLOCK FALSE
