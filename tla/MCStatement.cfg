SPECIFICATION StatementSpec
CONSTANTS
    Key = {k1, k2}
    Value = {v1, v2}
    Null = null
    MaxCalls = 3
    MaxFaults = 2
    MaxOthers = 1
INVARIANTS
    ExceptionsRestored
    OnlyInsertsFailUnnoticed
PROPERTIES
    EntryWritten
    BlockWritten
CHECK_DEADLOCK FALSE
