SPECIFICATION BusySpec
CHECK_DEADLOCK FALSE
CONSTANTS
    here = here
    there = there
    away = away
    a = a
    b = b
    c = c
    sticker = sticker
    MaxRows = 2
    Chats <- OneChat
    Names <- FewNames
    Budget = 3
    Found <- OpaqueTable
    Calls <- TextCalls
    Workers = 1
    MaxTroubles = 0
    MaxStarts = 0
PROPERTIES
    NewerRowsPass
