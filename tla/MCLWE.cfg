SPECIFICATION Spec
CONSTANTS
    Q = 7
    Word = 16
    BIT = 2
    Sums <- MCSums
    Drifts <- MCDrifts
INVARIANTS
    TypeOK
    DecryptsExactly
    WindowTolerates
CHECK_DEADLOCK FALSE
