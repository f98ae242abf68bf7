\* Two trackers on one database, every interleaving of their statements.
SPECIFICATION ReducedSpec
CONSTANTS
    root = root
    f = f
    root2 = root2
    f2 = f2
    x = x
    nRoot = nRoot
    nRoot2 = nRoot2
    nFile = nFile
    Node = {f}
    Root <- root
    Up <- Up1
    KindsOf <- Kinds1
    Volatile = {}
    NameOf <- Names1
    Node2 = {f2}
    Root2 <- root2
    Up2 <- UpTwo
    KindsOf2 <- KindsTwo
    Volatile2 = {}
    NameOf2 <- NamesTwo
    Block = {x}
    Content <- OneBlock
    FirstStamp = 1
    MaxChanges = 0
    Null = Null
    Recursive = TRUE
    ListDirectories = TRUE
    MaxLevel = 0
    FaultKinds = {}
    MaxFaults = 0
    MaxRowid = 5
    MaxScans = 3
    MaxBlocks = 1
    Modes = {TRUE}
INVARIANTS
    RowInHandKept
    LastScanWins
