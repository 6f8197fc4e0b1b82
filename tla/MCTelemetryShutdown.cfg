SPECIFICATION Spec
CONSTANTS
    MaxEvents = 2
    EventChSize = 2
    SendChSize = 2
    MaxAttempts = 2
    XAddTries = 2
    MaxAdds = 3
INVARIANT
    FinalFlushIsSent
CHECK_DEADLOCK FALSE
