SPECIFICATION TicketsSpec
CONSTANTS
    RetainKeys = 2
    MaxKeys = 4
    MaxManagers = 3
CHECK_DEADLOCK FALSE
INVARIANT IssuedDecrypt
