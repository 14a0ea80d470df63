CONSTANTS
    Shapes <- MCShapes
    ListKeys = {"l"}
    ItemKeySets <- MCItemKeySets
    Bare = {Absent}
    Indexed = Indexed
    Calls = {1, 2, 3}
    Incoming = {1, 2}
    Of <- MCOf
    Locales = {"en"}
    LocaleOf <- MCLocaleOf
    Saved <- MCSaved
    MaxChanges = 2
SPECIFICATION VBaseSpec
INVARIANTS MineWins FailsForCause
CHECK_DEADLOCK FALSE
