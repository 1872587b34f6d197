SPECIFICATION Spec
CONSTANTS
    Keys <- OneKey
    Reports <- OneReport
    Verdicts <- OneVerdict
    MaxRequests = 2
    MaxJobs = 2
    MaxFaults = 1
INVARIANTS CommittedIsStarted ReportsNotLost JobVerdictNotLost
PROPERTIES JobVerdictIsFinal AnsweredIsDecided
CHECK_DEADLOCK FALSE
