CONSTANTS
    PROGRESS = 4
    CLIENT_THREAD_NUM = 2
    PublishGap = TRUE
    MaxFaults = 2
SPECIFICATION FairReadableSpec
INVARIANTS
    RoundOutcome
PROPERTIES
    SecretNeverRewritten
    ImplementsHandover
    RoundEnds
CHECK_DEADLOCK FALSE
