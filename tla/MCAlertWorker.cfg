SPECIFICATION AlertFairSpec
CONSTANTS
    Worker = {w1, w2}
    BatchSize = 2
    MaxLen = 1
    MaxMsg = 2
    MaxFaults = 2
    Key = {k1, k2}
    Malformed = malformed
INVARIANTS
    HandledAtMostOnce
    OneRecentAlertPerKey
    HandledIsAlerted
PROPERTIES
    BreachIsAlerted
CHECK_DEADLOCK FALSE
