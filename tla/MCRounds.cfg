CONSTANTS
    ROUNDS = 3
    INITS = 2
    FILE_NUM = 2
    MaxFaults = 2
SPECIFICATION FairSpec
INVARIANTS
    TypeOK
    StocksAgree
PROPERTIES
    ValidMadeFromShared
    ImplementsKeyStock
    EveryRoundDelivers
CHECK_DEADLOCK FALSE
