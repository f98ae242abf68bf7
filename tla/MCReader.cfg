\* The reader as the indexer uses it, recursive and with directories listed,
\* under a level limit and a mask.
SPECIFICATION ReaderSpec
CONSTANTS
    root = root
    a = a
    b = b
    c = c
    d = d
    e = e
    f = f
    Null = Null
    Node <- ReadNode
    Root <- root
    Up <- ReadUp
    KindsOf <- ReadKinds
    Block = {}
    Content <- EmptyFiles
    Volatile <- ReadVolatile
    FirstStamp = 1
    MaxChanges = 2
    Recursive = TRUE
    ListDirectories = TRUE
    MaxLevel = 2
    Matching <- ReadMatching
    Denied <- ReadDenied
    FaultKinds = {"manip", "readdir"}
    MaxFaults = 1
INVARIANTS
    HandlesOwned
    StackIsAncestry
    Complete
PROPERTIES
    VisitOnce
    ReadEnds
