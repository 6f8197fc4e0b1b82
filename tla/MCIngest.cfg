SPECIFICATION PartsSpec
CONSTANTS
    Worker = {w1, w2}
    BatchSize = 2
    MaxLen = 2
    MaxMsg = 2
    MaxFaults = 1
    Batch <- MCBatch
    Malformed = malformed
    sale = sale
    stock = stock
    none = none
    b1 = b1
    b2 = b2
    Budget = {b1, b2}
    ModuleOf <- MCModuleOf
    Threshold = {33}
    NoBudget = noBudget
    Deleted = deleted
    MaxChanges = 1
    Tx = {w1, w2}
    Trace = {k1, k2}
    SpikeThreshold = 2
    MaxEvents = 3
INVARIANTS
    RowsAccountedFor
    BreachAnnounced
    OneSpikeAlertPerCrossing
    ReopenAlertsUnlessRaced
    TraceLostOnlyByRetention
PROPERTIES
    BreachIsFounded
SYMMETRY Symmetry
CHECK_DEADLOCK FALSE
