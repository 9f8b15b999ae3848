SPECIFICATION Spec
CONSTANTS
    EACH_NUM = 10
    RUNNING_THREAD_NUM = 3
INVARIANTS
    TypeOK
    IteratorsInside
    FileIsPrefix
    FileComplete
CHECK_DEADLOCK FALSE
