\* Three trackers with every choice of names, a home directory two levels
\* deep, and other programs that remove directories while run() makes them.
SPECIFICATION StartupSpec
CONSTANTS
    lower = lower
    upper = upper
    colon = colon
    Tracker = {t1, t2, t3}
    Allowed = {lower, upper}
    Forbidden = {colon}
    FoldCase <- MCFoldCase
    Settings <- MCSettings
    Home = 2
    MaxRemovals = 2
INVARIANTS
    SharingExplained
    StartsUndisturbed
PROPERTIES
    AllRun
CHECK_DEADLOCK FALSE
