\* The rows of a tree: two directories deep, files of the same name in both,
\* scans cut short by exceptions, crashes, shutdowns and half a cleanup.
SPECIFICATION Spec
CONSTANTS
    root = root
    a = a
    b = b
    f = f
    x = x
    y = y
    nRoot = nRoot
    nDir = nDir
    nFile = nFile
    Null = Null
    Node = {a, b, f}
    Root <- root
    Up <- MCUp
    KindsOf <- MCKindsOf
    NameOf <- MCNameOf
    Block = {x, y}
    Content <- OneBlock
    Volatile = {a, b}
    FirstStamp = 1
    MaxChanges = 3
    Recursive = TRUE
    ListDirectories = TRUE
    MaxLevel = 0
    Matching = {a, b, f}
    Denied = {}
    FaultKinds = {"throw", "crash", "shutdown", "partial"}
    MaxFaults = 1
    MaxRowid = 5
    MaxBlocks = 1
    Modes = {TRUE, FALSE}
INVARIANTS
    TypeOK
    PathsFaithful
    MarkedUpward
    BlocksOwned
    MirrorAfterScan
PROPERTIES
    RemovalJustified
