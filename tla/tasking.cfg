SPECIFICATION Spec
CONSTANTS
    Messages <- AllMessages
    CRSs <- TwoCRSs
    MaxScans = 1
    MaxHooks = 2
    Pages = 1
    MaxFaults = 1
INVARIANTS SentIsOnRecord OneBroadcastPerTask RequestedIsPrivate ThumbsUpIsEarned DeliveredOncePerFault OutcomeIsTold
PROPERTIES DeliveryEnds
CHECK_DEADLOCK FALSE
