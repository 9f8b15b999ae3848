CONSTANTS
    PROGRESS = 2
    CLIENT_THREAD_NUM = 2
    PublishGap = FALSE
    MaxFaults = 1
SPECIFICATION Spec
INVARIANTS
    InvalidRoundLeavesNoChunk
CHECK_DEADLOCK FALSE
