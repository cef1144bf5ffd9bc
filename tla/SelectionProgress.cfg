SPECIFICATION FairSpec
CHECK_DEADLOCK FALSE
CONSTANTS
    forum = forum
    slave = slave
    none = none
    anyone = anyone
    Auxiliaries <- OneBot
    Chats <- OneChat
    Slaves <- OneSlave
    NoSlave = none
    Foreign <- Gone
    Main = 0
    Any = anyone
    Rows <- TwoRows
    Calls <- MixedCalls
    MaxMoves = 1
    MaxTroubles = 1
PROPERTIES
    RowsSettle
