CONSTANTS
    PROGRESS = 2
    CLIENT_THREAD_NUM = 2
    PublishGap = TRUE
    MaxFaults = 0
SPECIFICATION Spec
INVARIANTS
    CompleteMeansServed
CHECK_DEADLOCK FALSE
