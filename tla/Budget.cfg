SPECIFICATION FairSpec
CHECK_DEADLOCK FALSE
CONSTANTS
    here = here
    there = there
    away = away
    a = a
    b = b
    c = c
    sticker = sticker
    MaxRows = 3
    Chats <- Places
    Names <- FewNames
    Budget = 3
    Found <- AnyTable
    Calls <- MixedCalls
    Workers = 2
    MaxTroubles = 2
    MaxStarts = 1
INVARIANTS
    FilesAgree
PROPERTIES
    BudgetKept
    OversizedRetained
    RowsMove
