SPECIFICATION Spec
CONSTANTS
    Messages <- TwoCancellations
    CRSs <- TwoCRSs
INVARIANTS FailedCancelIsLate
CHECK_DEADLOCK FALSE
