SPECIFICATION FairSpec
CHECK_DEADLOCK FALSE
CONSTANTS
    forum = forum
    chat = chat
    Links <- TwoLinks
    Targets <- TwoTargets
    TargetOf <- TwoChats
    History <- ShortHistory
    Legacy <- NoEntries
    Page = 2
    MaxReplays = 1
    MaxCrashes = 1
    MaxFailures = 0
PROPERTIES
    KeysAreForgotten
