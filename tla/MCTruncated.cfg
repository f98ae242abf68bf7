\* Violated: a file that is truncated to nothing.
SPECIFICATION Spec
CONSTANTS
    root = root
    a = a
    b = b
    f = f
    x = x
    y = y
    nRoot = nRoot
    nDir = nDir
    nFile = nFile
    Null = Null
    Node = {f}
    Root <- root
    Up <- UpF
    KindsOf <- KindsF
    NameOf <- NameF
    Block = {x, y}
    Content <- SomeBlocks
    Volatile = {f}
    FirstStamp = 1
    MaxChanges = 2
    Recursive = TRUE
    ListDirectories = TRUE
    MaxLevel = 0
    Matching = {f}
    Denied = {}
    FaultKinds = {"throw", "crash", "shutdown"}
    MaxFaults = 0
    MaxRowid = 3
    MaxBlocks = 2
    Modes = {TRUE}
INVARIANTS
    BlockRowsAreFileBlocks
