\* Scan after scan of files of several sizes, until the tree is left alone and
\* nothing fails any more; the volume comes and goes.  Seen by path, what the
\* indexer does are steps of Index.
SPECIFICATION Spec
CONSTANTS
    root = root
    a = a
    b = b
    f = f
    x = x
    y = y
    nRoot = nRoot
    nDir = nDir
    nFile = nFile
    Null = Null
    Node = {a, b}
    Root <- root
    Up <- UpAB
    KindsOf <- KindsAB
    NameOf <- NameAB
    Block = {x, y}
    Content <- SomeBlocks
    Volatile = {root, a, b}
    FirstStamp = 1
    MaxChanges = 2
    Recursive = TRUE
    ListDirectories = TRUE
    MaxLevel = 0
    Matching = {a, b}
    Denied = {}
    FaultKinds = {"throw", "crash", "shutdown", "open", "read", "partial"}
    MaxFaults = 1
    MaxRowid = 4
    MaxBlocks = 2
    Modes = {TRUE}
INVARIANTS
    DigestFresh
    BlocksFresh
PROPERTIES
    Converges
    ImplementsIndex
