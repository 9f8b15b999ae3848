CONSTANTS
    PROGRESS = 5
    CLIENT_THREAD_NUM = 3
    PublishGap = FALSE
    MaxFaults = 3
SPECIFICATION Spec
INVARIANTS
    TypeOK
    CompleteMeansServed
    NeverWithoutCopy
    Agreement
    RoundOutcome
PROPERTIES
    SecretNeverRewritten
    ImplementsHandover
CHECK_DEADLOCK FALSE
