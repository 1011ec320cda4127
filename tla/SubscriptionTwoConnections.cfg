CONSTANTS
    ConnectionCount = 2
    RetryCount = 3
    MaxCalls = 6
SPECIFICATION FairSpec
INVARIANTS
    OneConsumerPerSlot
    NoLeak
    CallsAnswerLosses
    LossExplained
PROPERTIES
    ImplementsConnectionSlots
    StartReturns
    Resubscribed
CHECK_DEADLOCK FALSE
