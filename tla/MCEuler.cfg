CONSTANTS
    Limit = 1024
    Upto <- MCUpto
    Starts387b = {11, 100}
    MemoN = 4
    ByteLimit = 1024
    UintRange = 4096
    MaxA = 9
    MaxB = 40
SPECIFICATION EulerSpec
INVARIANTS
    SieveCorrect
    BytesCorrect
    PrimeTestCorrect
    MemosTrue
PROPERTY
    SearchCorrect
\* The programs end.
CHECK_DEADLOCK FALSE
