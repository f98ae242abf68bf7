\* Shutdowns, deaths of the process, exceptions and lost INSERTs in the middle
\* of a scan.
SPECIFICATION SystemSpec
CONSTANTS
    root = root
    a = a
    x = x
    nRoot = nRoot
    nEntry = nEntry
    Null = Null
    Node = {a}
    Root <- root
    Up <- MCUp
    KindsOf <- MCKindsOf
    NameOf <- MCNameOf
    Block = {x}
    Content <- OneBlock
    Volatile = {a}
    FirstStamp = 1
    MaxChanges = 1
    Recursive = TRUE
    ListDirectories = TRUE
    MaxLevel = 0
    Matching = {a}
    Denied = {}
    FaultKinds = {"throw", "crash", "shutdown", "silent"}
    MaxFaults = 2
    MaxRowid = 3
    MaxBlocks = 1
    Modes = {TRUE}
INVARIANTS
    NothingSurvives
    AtMostOneLateScan
    NamesRepaired
PROPERTIES
    ScansSpaced
    ShutdownReturns
    KeepsScanning
    ImplementsIndexer
    RunningMirrors
CHECK_DEADLOCK FALSE
