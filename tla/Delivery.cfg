SPECIFICATION Spec
CHECK_DEADLOCK FALSE
CONSTANTS
    group = group
    super = super
    MaxRows = 2
    Chats <- MCChats
    Supergroup <- MCSupergroup
    Calls <- MCCalls
    Workers = 2
    MaxTroubles = 3
INVARIANTS
    AtMostOnce
    AcceptedIsAccountedFor
    BooksAgree
    TableIsExact
PROPERTIES
    HeldStaysHeld
    KeepsPromise
