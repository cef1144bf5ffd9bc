SPECIFICATION Spec
CHECK_DEADLOCK FALSE
CONSTANTS
    group = group
    super = super
    MaxRows = 1
    Chats <- MCChats
    Supergroup <- NoSupergroup
    Calls <- MCCalls
    Workers = 1
    MaxTroubles = 3
INVARIANTS
    NoWaiterLeftBehind
