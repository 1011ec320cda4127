CONSTANTS
    ConnectionCount = 1
    RetryCount = 10
    MaxCalls = 12
SPECIFICATION FairSpec
PROPERTY SurvivesOutage
CHECK_DEADLOCK FALSE
