CONSTANTS
    PROGRESS = 3
    CLIENT_THREAD_NUM = 2
    PublishGap = FALSE
    MaxFaults = 2
SPECIFICATION FairSpec
PROPERTIES
    RoundEnds
    FaultFreeDelivers
CHECK_DEADLOCK FALSE
