CONSTANTS
    FILES = 3
    FILE_NUM = 2
    THREAD_NUM = 2
    MaxFaults = 2
SPECIFICATION FairSpec
INVARIANTS
    TypeOK
    PublishedMatrix
    LeftoversAreFaults
PROPERTIES
    MessageEnds
CHECK_DEADLOCK FALSE
