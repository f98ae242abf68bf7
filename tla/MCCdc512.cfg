\* Two contexts in different states that are given the same data; the digests
\* of the test are evaluated beside it.
SPECIFICATION CdcSpec
CONSTANTS
    Word <- MCWord
    Add <- MCAdd
    Sub <- MCSub
    Xor <- MCXor
    Shift <- MCShift
    Swap <- MCSwap
    Number <- MCNumber
    Modulus = 16
    Byte = {0, 1}
    Zero = 0
    BlockLen = 8
    Words <- MCWords
    IV <- MCIV
    Twins <- MCTwins
    Chunks <- MCChunks
    MaxUpdates = 2
    Null = Null
INVARIANTS
    TestVectors
    PiecesMakeWhole
    StaysApart
CHECK_DEADLOCK FALSE
