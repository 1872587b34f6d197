SPECIFICATION Safety
CONSTANTS
    Messages <- AllMessages
    CRSs <- OneCRS
    MaxScans = 1
    MaxHooks = 2
    Pages = 2
    MaxFaults = 0
PROPERTIES SearchMovesOn
CHECK_DEADLOCK FALSE
