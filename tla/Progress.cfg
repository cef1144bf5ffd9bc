SPECIFICATION FairSpec
CHECK_DEADLOCK FALSE
CONSTANTS
    group = group
    super = super
    MaxRows = 3
    Chats <- MCChats
    Supergroup <- NoSupergroup
    Calls <- ProgressCalls
    Workers = 2
    MaxTroubles = 1
PROPERTIES
    AcceptedInOrder
    ReceiptsSettle
    RunnableRowsMove
    CallersAnswered
