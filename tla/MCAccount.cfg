SPECIFICATION AccountSpec
CONSTANTS
    Browser = {c1}
    Email = {e1}
    MaxUsers = 1
    MaxCodes = 2
    MaxPasswords = 0
    MaxFaults = 0
PROPERTY
    VerificationCompletes
CHECK_DEADLOCK FALSE
