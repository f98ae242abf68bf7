\* Violated: a directory that may not be opened.
SPECIFICATION Spec
CONSTANTS
    root = root
    a = a
    b = b
    f = f
    x = x
    y = y
    nRoot = nRoot
    nDir = nDir
    nFile = nFile
    Null = Null
    Node = {a, b}
    Root <- root
    Up <- UpAB
    KindsOf <- KindsAB
    NameOf <- NameAB
    Block = {x, y}
    Content <- OneBlock
    Volatile = {a, b}
    FirstStamp = 1
    MaxChanges = 2
    Recursive = TRUE
    ListDirectories = TRUE
    MaxLevel = 0
    Matching = {a, b}
    Denied = {a}
    FaultKinds = {"throw", "crash", "shutdown"}
    MaxFaults = 0
    MaxRowid = 5
    MaxBlocks = 1
    Modes = {TRUE}
INVARIANTS
    InaccessibleSkipped
