SPECIFICATION Spec
CHECK_DEADLOCK FALSE
CONSTANTS
    forum = forum
    slave = slave
    none = none
    anyone = anyone
    Auxiliaries <- TwoBots
    Chats <- OneChat
    Slaves <- OneSlave
    NoSlave = none
    Foreign <- Gone
    Main = 0
    Any = anyone
    Rows <- TwoRows
    Calls <- TwoBotCalls
    MaxMoves = 1
    MaxTroubles = 1
INVARIANTS
    CacheIsCurrent
PROPERTIES
    GroundedDecisions
    AffinityOutlivesOthers
