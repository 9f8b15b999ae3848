SPECIFICATION Spec
CONSTANTS
    h1 = h1
    h2 = h2
    a = a
    b = b
    NoIndex = NoIndex
    Requests <- MCRequests
    Indexes <- MCIndexes
    StringAt <- MCStringAt
    MaxTime = 2
    MaxFaults = 0
INVARIANT DistinctIndexes
CHECK_DEADLOCK FALSE
