SPECIFICATION ScriptSpec
CONSTANTS
    Length <- Texts
    InXct = {"cleanup"}
    NoThrow = {"connect"}
INVARIANTS
    KeptIsPrefix
    NoLockLeft
    ReturnsThrough
CHECK_DEADLOCK FALSE
