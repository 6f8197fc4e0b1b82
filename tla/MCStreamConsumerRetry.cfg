SPECIFICATION FairSpec
CONSTANTS
    Worker = {w1, w2}
    BatchSize = 2
    MaxLen = 2
    MaxMsg = 3
    MaxFaults = 1
PROPERTY
    FailedIsRetried
CHECK_DEADLOCK FALSE
