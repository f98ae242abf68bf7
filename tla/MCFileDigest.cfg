\* Every pair of small files, one scanned after the other in the same row.
SPECIFICATION DigestSpec
CONSTANTS
    x = x
    cr = cr
    lf = lf
    z = z
    zero = zero
    Byte <- MCByte
    CR <- cr
    LF <- lf
    CtrlZ <- z
    Zero <- zero
    BlockSize = 2
    MaxBlocks = 3
    Contents <- MCContents
    Null = Null
INVARIANTS
    RowsFaithful
    SizeAndDigestIdentify
CHECK_DEADLOCK FALSE
